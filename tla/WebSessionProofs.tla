---------------------------- MODULE WebSessionProofs ----------------------------
(***************************************************************************)
(* Proofs about the accounts and the web client: an administrator remains, *)
(* revocations end sessions and pages are shown to those who may see them, *)
(* for any accounts, sessions, browsers, requests and bounds.              *)
(***************************************************************************)
EXTENDS WebSession, FiniteSetTheorems, TLAPS

-----------------------------------------------------------------------------
(* The requests the server works on. *)

Status == {"absent", "active", "suspended"}
Row == [role : Role \cup {None}, status : Status, password : Password]
Summary == [role : Role \cup {None}, status : Status]
Seen == {None} \cup Row \cup [User -> Summary]
Busy == {"user", "read", "count", "write", "kill"}
Pc == {"free", "allow", "lookup", "open", "failed", "succeed", "session", "answered"} \cup Busy
Call == [pc : Pc, op : Op \cup {None}, sid : Sid \cup {None}, user : User \cup {None},
         target : User \cup {None}, give : Role \cup Password \cup {None},
         guess : Password \cup {None}, seen : Seen,
         stale : BOOLEAN, code : Nat]

AccountsTyped ==
    /\ role \in [User -> Role \cup {None}]
    /\ status \in [User -> Status]
    /\ password \in [User -> Password]
    /\ owner \in [Sid -> User \cup {None}]
    /\ opened \in [Sid -> Password \cup {None}]
    /\ issued \subseteq Sid
    /\ call \in [Request -> Call]
    /\ raced \in BOOLEAN

\* What a login carries at each of its statements.
LoginFits(r) ==
    /\ call[r].pc \in {"allow", "lookup", "open", "failed", "succeed"} =>
          call[r].op = "login" /\ call[r].target \in User /\ call[r].guess \in Password
    /\ call[r].pc \in {"open", "succeed"} => call[r].seen \in Row
    /\ call[r].pc = "open" => call[r].seen.status = "active" /\ call[r].guess = call[r].seen.password
    /\ call[r].pc = "succeed" => call[r].sid \in Sid

\* What any other request carries: the session it came with is its user's or has ended.
HandlerFits(r) ==
    /\ call[r].pc \in Busy \cup {"session"} => call[r].op \in Op \ {"login"}
    /\ call[r].pc \in Busy \cup {"session"} /\ call[r].op \in AdminOp => call[r].target \in User
    /\ call[r].op \in {"password", "reset"} => call[r].give \in Password
    /\ call[r].op \in {"updateUser", "create"} => call[r].give \in Role
    /\ call[r].op = "create" => call[r].guess \in Password
    /\ call[r].pc \in Busy =>
          /\ call[r].sid \in issued /\ call[r].user \in User
          /\ owner[call[r].sid] \in {call[r].user, None}
    /\ call[r].pc \in Busy \ {"user"} /\ call[r].op \in SelfOp => call[r].target = call[r].user
    /\ call[r].pc \in {"count", "write", "kill"} => call[r].op # "users"
    /\ call[r].pc = "count" => call[r].op \in {"updateUser", "suspend"}
    /\ call[r].pc = "kill" => call[r].op \in {"suspend", "password", "reset"}
    /\ call[r].pc = "write" /\ call[r].op = "updateMe" => call[r].seen \in Row

\* What a good answer carries.
AnswerFits(r) ==
    call[r].pc = "answered" /\ call[r].code = 200 =>
        /\ call[r].sid \in Sid
        /\ call[r].op = "login" => call[r].target \in User /\ call[r].seen \in Row
        /\ call[r].op = "me" => call[r].user \in User /\ call[r].seen \in Row

Fits(r) == LoginFits(r) /\ HandlerFits(r) /\ AnswerFits(r)

\* The decision of a write nobody has overtaken still holds.
DecisionHolds(r) ==
    call[r].pc = "write" /\ ~call[r].stale =>
        /\ Guarded(r) => Cardinality(ActiveAdmins) > 1
        /\ call[r].op = "updateMe" => call[r].seen.role = role[call[r].target]

ServerInv ==
    /\ AccountsTyped
    /\ \A s \in Sid \ issued : owner[s] = None
    /\ \A r \in Request : Fits(r) /\ DecisionHolds(r)
    /\ AdminUnlessOvertaken
    /\ RevocationEndsSessions

LEMMA AdminsFinite == IsFiniteSet(ActiveAdmins) /\ Cardinality(ActiveAdmins) \in Nat
<1>1. IsFiniteSet(ActiveAdmins)
  BY FirstAssumption, FS_Subset DEF ActiveAdmins
<1>. QED
  BY <1>1, FS_CardinalityType

\* With two of them, one remains whoever goes.
LEMMA AnotherAdmin ==
    ASSUME Cardinality(ActiveAdmins) > 1, NEW u
    PROVE  \E v \in ActiveAdmins : v # u
<1>. SUFFICES ASSUME ActiveAdmins \subseteq {u} PROVE FALSE
  OBVIOUS
<1>1. Cardinality(ActiveAdmins) <= Cardinality({u})
  BY FS_Singleton, FS_Subset
<1>. QED
  BY <1>1, FS_Singleton, AdminsFinite

\* A step that leaves the accounts alone: each request goes on as it should or stays, sessions
\* may end, and those a finished revocation had to end have ended or are known to live.
LEMMA Settle ==
    ASSUME ServerInv,
           call' \in [Request -> Call], owner' \in [Sid -> User \cup {None}],
           \A s \in Sid : owner'[s] \in {owner[s], None},
           UNCHANGED <<accountVars, opened, issued, late, raced>>, spared \subseteq spared',
           \A r \in Request :
               \/ call'[r] = call[r]
               \/ /\ Fits(r)' /\ DecisionHolds(r)'
                  /\ call[r].pc = "kill" =>
                        \A s \in Doomed(r) : owner'[s] = None \/ s \in spared'
    PROVE  ServerInv'
<1>1. AccountsTyped'
  BY DEF ServerInv, AccountsTyped, accountVars
<1>2. \A s \in Sid \ issued' : owner'[s] = None
  BY DEF ServerInv
<1>3. \A r \in Request : Fits(r)'
  <2>. SUFFICES ASSUME NEW r \in Request, call'[r] = call[r] PROVE Fits(r)'
    OBVIOUS
  <2>1. LoginFits(r)' /\ AnswerFits(r)'
    BY DEF ServerInv, Fits, LoginFits, AnswerFits
  <2>2. HandlerFits(r)'
    BY DEF ServerInv, AccountsTyped, Fits, HandlerFits
  <2>. QED
    BY <2>1, <2>2 DEF Fits
<1>4. \A r \in Request : DecisionHolds(r)'
  BY DEF ServerInv, DecisionHolds, Guarded, ActiveAdmins, accountVars
<1>5. AdminUnlessOvertaken'
  BY DEF ServerInv, AdminUnlessOvertaken, ActiveAdmins, accountVars
<1>6. RevocationEndsSessions'
  <2>. SUFFICES ASSUME NEW s \in Sid, owner'[s] # None, s \notin late' \cup spared'
                PROVE  \/ status'[owner'[s]] = "active" /\ opened'[s] = password'[owner'[s]]
                       \/ \E r \in Working({"kill"})' : s \in Doomed(r)'
    BY DEF RevocationEndsSessions
  <2>1. owner'[s] = owner[s]
    OBVIOUS
  <2>2. ASSUME NEW r \in Request, call[r].pc = "kill", s \in Doomed(r)
        PROVE  r \in Working({"kill"})' /\ s \in Doomed(r)'
    BY <2>1, <2>2 DEF Working, Doomed
  <2>. QED
    BY <2>1, <2>2 DEF ServerInv, RevocationEndsSessions, Working, accountVars
<1>. QED
  BY <1>1, <1>2, <1>3, <1>4, <1>5, <1>6 DEF ServerInv

\* A step of one request on its own.
LEMMA Quiet ==
    ASSUME ServerInv, NEW r \in Request, NEW c \in Call, call' = [call EXCEPT ![r] = c],
           call[r].pc # "kill", UNCHANGED <<accountVars, owner, opened, issued, late, spared, raced>>,
           Fits(r)', DecisionHolds(r)'
    PROVE  ServerInv'
<1>1. call' \in [Request -> Call] /\ \A q \in Request : q # r => call'[q] = call[q]
  BY DEF ServerInv, AccountsTyped
<1>2. owner' \in [Sid -> User \cup {None}] /\ \A s \in Sid : owner'[s] \in {owner[s], None}
  BY DEF ServerInv, AccountsTyped
<1>. QED
  BY <1>1, <1>2, Settle

\* What an answer carries on, and what it is free of.
LEMMA AnswerIs ==
    ASSUME ServerInv, NEW r \in Request, NEW code \in Nat
    PROVE  /\ Answered(r, code) \in Call
           /\ Answered(r, code) = [call[r] EXCEPT !.pc = "answered", !.code = code]
           /\ Answered(r, code).pc = "answered" /\ Answered(r, code).code = code
<1>1. call[r] \in Call
  BY DEF ServerInv, AccountsTyped
<1>2. PICK c \in Call : c = [call[r] EXCEPT !.pc = "answered", !.code = code]
  BY <1>1 DEF Call, Pc
<1>3. c.pc = "answered" /\ c.code = code
  BY <1>1, <1>2 DEF Call
<1>. QED
  BY <1>2, <1>3 DEF Answered

\* The same with what was read.
LEMMA AnswerWith ==
    ASSUME ServerInv, NEW r \in Request, NEW seen \in Seen
    PROVE  \E c \in Call :
              /\ c = [Answered(r, 200) EXCEPT !.seen = seen]
              /\ c.pc = "answered" /\ c.op = call[r].op /\ c.sid = call[r].sid
              /\ c.user = call[r].user /\ c.seen = seen
<1>1. call[r] \in Call
  BY DEF ServerInv, AccountsTyped
<1>6. PICK a \in Call : a = Answered(r, 200)
  BY AnswerIs
<1>2. a = [call[r] EXCEPT !.pc = "answered", !.code = 200]
  BY <1>6 DEF Answered
<1>3. a.pc = "answered" /\ a.op = call[r].op /\ a.sid = call[r].sid /\ a.user = call[r].user
  BY <1>1, <1>2 DEF Call
<1>4. PICK c \in Call : c = [a EXCEPT !.seen = seen]
  BY DEF Call
<1>5. c.pc = a.pc /\ c.op = a.op /\ c.sid = a.sid /\ c.user = a.user /\ c.seen = seen
  BY <1>4 DEF Call
<1>7. c = [Answered(r, 200) EXCEPT !.seen = seen]
  BY <1>4, <1>6
<1>. QED
  BY <1>3, <1>5, <1>7

LEMMA ReplyIs ==
    ASSUME ServerInv, NEW r \in Request, NEW code \in Nat, Reply(r, code)
    PROVE  /\ \E c \in Call : call' = [call EXCEPT ![r] = c]
           /\ call' \in [Request -> Call] /\ \A q \in Request : q # r => call'[q] = call[q]
           /\ call'[r] = Answered(r, code)
           /\ call'[r].pc = "answered" /\ call'[r].code = code
           /\ call'[r].op = call[r].op /\ call'[r].sid = call[r].sid /\ call'[r].user = call[r].user
           /\ call'[r].target = call[r].target /\ call'[r].give = call[r].give
           /\ call'[r].guess = call[r].guess /\ call'[r].seen = call[r].seen
<1>1. call[r] \in Call /\ call \in [Request -> Call]
  BY DEF ServerInv, AccountsTyped
<1>2. PICK c : c = Answered(r, code)
  OBVIOUS
<1>3. c \in Call
  BY <1>2, AnswerIs
<1>4. call' = [call EXCEPT ![r] = c]
  BY <1>2 DEF Reply
<1>5. /\ c.pc = "answered" /\ c.code = code
      /\ c.op = call[r].op /\ c.sid = call[r].sid /\ c.user = call[r].user
      /\ c.target = call[r].target /\ c.give = call[r].give
      /\ c.guess = call[r].guess /\ c.seen = call[r].seen
  BY <1>1, <1>2 DEF Answered, Call
<1>6. call' \in [Request -> Call] /\ call'[r] = c /\ \A q \in Request : q # r => call'[q] = call[q]
  BY <1>1, <1>3, <1>4
<1>. QED
  BY <1>2, <1>3, <1>4, <1>5, <1>6

\* An answer other than a good one asks nothing.
LEMMA Refusal ==
    ASSUME ServerInv, NEW r \in Request, NEW code \in Nat \ {200}, call'[r] = Answered(r, code)
    PROVE  Fits(r)' /\ DecisionHolds(r)'
<1>1. call[r] \in Call /\ HandlerFits(r)
  BY DEF ServerInv, AccountsTyped, Fits
<1>2. /\ call'[r].pc = "answered" /\ call'[r].code = code
      /\ call'[r].op = call[r].op /\ call'[r].give = call[r].give /\ call'[r].guess = call[r].guess
  BY <1>1 DEF Answered, Call
<1>3. LoginFits(r)' /\ AnswerFits(r)' /\ DecisionHolds(r)'
  BY <1>2 DEF LoginFits, AnswerFits, DecisionHolds
<1>4. HandlerFits(r)'
  BY <1>1, <1>2 DEF HandlerFits, Busy
<1>. QED
  BY <1>3, <1>4 DEF Fits

LEMMA Refused ==
    ASSUME ServerInv, NEW r \in Request, NEW code \in Nat \ {200}, Reply(r, code),
           call[r].pc # "kill", UNCHANGED <<accountVars, owner, opened, issued, late, spared, raced>>
    PROVE  ServerInv'
<1>1. PICK c \in Call : c = Answered(r, code) /\ call' = [call EXCEPT ![r] = c]
  BY AnswerIs DEF Reply
<1>2. call'[r] = Answered(r, code)
  BY <1>1 DEF ServerInv, AccountsTyped
<1>. QED
  BY <1>1, <1>2, Refusal, Quiet

\* A good answer of a handler, not of the login or of "me".
LEMMA Agreement ==
    ASSUME ServerInv, NEW r \in Request, call[r].pc \in Busy, call[r].op # "me",
           call'[r] = Answered(r, 200)
    PROVE  Fits(r)' /\ DecisionHolds(r)'
<1>1. call[r] \in Call /\ HandlerFits(r) /\ issued \subseteq Sid
  BY DEF ServerInv, AccountsTyped, Fits
<1>2. /\ call'[r].pc = "answered" /\ call'[r].sid = call[r].sid
      /\ call'[r].op = call[r].op /\ call'[r].give = call[r].give /\ call'[r].guess = call[r].guess
  BY <1>1 DEF Answered, Call
<1>3. LoginFits(r)' /\ DecisionHolds(r)'
  BY <1>2 DEF LoginFits, DecisionHolds
<1>4. HandlerFits(r)'
  BY <1>1, <1>2 DEF HandlerFits, Busy
<1>5. AnswerFits(r)'
  BY <1>1, <1>2 DEF HandlerFits, AnswerFits
<1>. QED
  BY <1>3, <1>4, <1>5 DEF Fits
-----------------------------------------------------------------------------
(* The server's steps. *)

LEMMA GotoIs ==
    ASSUME ServerInv, NEW r \in Request, NEW pc \in Pc, Goto(r, pc)
    PROVE  /\ \E c \in Call : call' = [call EXCEPT ![r] = c]
           /\ call'[r].pc = pc
           /\ call'[r].op = call[r].op /\ call'[r].sid = call[r].sid /\ call'[r].user = call[r].user
           /\ call'[r].target = call[r].target /\ call'[r].give = call[r].give
           /\ call'[r].guess = call[r].guess /\ call'[r].seen = call[r].seen
           /\ call'[r].stale = call[r].stale /\ call'[r].code = call[r].code
<1>1. call[r] \in Call
  BY DEF ServerInv, AccountsTyped
<1>2. PICK c \in Call : c = [call[r] EXCEPT !.pc = pc]
  BY <1>1 DEF Call
<1>3. call' = [call EXCEPT ![r] = c] /\ call'[r] = c
  BY <1>2 DEF Goto, ServerInv, AccountsTyped
<1>4. /\ c.pc = pc /\ c.op = call[r].op /\ c.sid = call[r].sid /\ c.user = call[r].user
      /\ c.target = call[r].target /\ c.give = call[r].give /\ c.guess = call[r].guess
      /\ c.seen = call[r].seen /\ c.stale = call[r].stale /\ c.code = call[r].code
  BY <1>1, <1>2 DEF Call
<1>. QED
  BY <1>3, <1>4

LEMMA LoginStep ==
    ASSUME ServerInv, NEW r \in Request, Allow(r) \/ Lookup(r) \/ RecordFailure(r) \/ ResetSuccess(r)
    PROVE  ServerInv'
<1>a. call[r] \in Call /\ Fits(r)
  BY DEF ServerInv, AccountsTyped
<1>1. CASE Allow(r)
  <2>1. CASE Goto(r, "lookup")
    <3>1. "lookup" \in Pc
      BY DEF Pc
    <3>2. Fits(r)' /\ DecisionHolds(r)'
      BY <1>a, <1>1, <2>1, <3>1, GotoIs DEF Allow, Fits, LoginFits, HandlerFits, AnswerFits,
         DecisionHolds, Busy
    <3>. QED
      BY <1>1, <2>1, <3>1, <3>2, GotoIs, Quiet DEF Allow, sessionVars
  <2>2. CASE Reply(r, 429)
    BY <1>1, <2>2, Refused DEF Allow, sessionVars
  <2>. QED
    BY <1>1, <2>1, <2>2 DEF Allow
<1>2. CASE Lookup(r)
  <2>1. call[r].target \in User /\ Snapshot(call[r].target) \in Row
    BY <1>a, <1>2 DEF Lookup, Fits, LoginFits, Snapshot, Row, ServerInv, AccountsTyped
  <2>2. PICK pc \in {"open", "failed"} : /\ call' = [call EXCEPT ![r].pc = pc, ![r].seen = Snapshot(call[r].target)]
                                         /\ pc = "open" => status[call[r].target] = "active" /\ call[r].guess = password[call[r].target]
    BY <1>2 DEF Lookup
  <2>3. PICK c \in Call : c = [call[r] EXCEPT !.pc = pc, !.seen = Snapshot(call[r].target)]
    BY <1>a, <2>1 DEF Call, Pc, Seen
  <2>4. call' = [call EXCEPT ![r] = c] /\ call'[r] = c
    BY <2>2, <2>3 DEF ServerInv, AccountsTyped
  <2>5. /\ c.pc = pc /\ c.seen = Snapshot(call[r].target)
        /\ c.op = call[r].op /\ c.target = call[r].target /\ c.guess = call[r].guess
    BY <1>a, <2>3 DEF Call
  <2>6. c.seen.status = status[call[r].target] /\ c.seen.password = password[call[r].target]
    BY <2>5 DEF Snapshot
  <2>7. LoginFits(r)'
    BY <1>a, <1>2, <2>1, <2>2, <2>4, <2>5, <2>6 DEF Lookup, Fits, LoginFits
  <2>8. HandlerFits(r)' /\ AnswerFits(r)' /\ DecisionHolds(r)'
    BY <1>a, <1>2, <2>4, <2>5 DEF Lookup, Fits, LoginFits, HandlerFits, AnswerFits, DecisionHolds, Busy, AdminOp, SelfOp
  <2>. QED
    BY <1>2, <2>4, <2>7, <2>8, Quiet DEF Lookup, Fits, sessionVars
<1>3. CASE RecordFailure(r)
  BY <1>3, Refused DEF RecordFailure, sessionVars
<1>4. CASE ResetSuccess(r)
  <2>1. Reply(r, 200)
    BY <1>4 DEF ResetSuccess
  <2>2. /\ call'[r].pc = "answered" /\ call'[r].sid = call[r].sid /\ call'[r].op = call[r].op
        /\ call'[r].target = call[r].target /\ call'[r].seen = call[r].seen
    BY <2>1, ReplyIs
  <2>3. LoginFits(r)' /\ HandlerFits(r)' /\ AnswerFits(r)' /\ DecisionHolds(r)'
    BY <1>a, <1>4, <2>2 DEF ResetSuccess, Fits, LoginFits, HandlerFits, AnswerFits, DecisionHolds, Busy, AdminOp, SelfOp
  <2>4. PICK c \in Call : call' = [call EXCEPT ![r] = c]
    BY <2>1, ReplyIs
  <2>. QED
    BY <1>4, <2>3, <2>4, Quiet DEF ResetSuccess, Fits, sessionVars
<1>. QED
  BY <1>1, <1>2, <1>3, <1>4

LEMMA CreateSessionStep ==
    ASSUME ServerInv, NEW r \in Request, CreateSession(r)
    PROVE  ServerInv'
<1>a. call[r] \in Call /\ Fits(r) /\ call[r].pc = "open"
  BY DEF ServerInv, AccountsTyped, CreateSession
<1>1. PICK s \in Sid \ issued :
          /\ owner' = [owner EXCEPT ![s] = call[r].target]
          /\ opened' = [opened EXCEPT ![s] = call[r].guess]
          /\ issued' = issued \cup {s}
          /\ late' = IF Unrevoked(r) THEN late ELSE late \cup {s}
          /\ call' = [call EXCEPT ![r].pc = "succeed", ![r].sid = s]
  BY DEF CreateSession
<1>b. UNCHANGED <<accountVars, spared, raced>>
  BY DEF CreateSession
<1>2. PICK c \in Call : c = [call[r] EXCEPT !.pc = "succeed", !.sid = s]
  BY <1>a DEF Call, Pc
<1>3. call' = [call EXCEPT ![r] = c] /\ call'[r] = c /\ call' \in [Request -> Call]
      /\ \A q \in Request : q # r => call'[q] = call[q]
  BY <1>1, <1>2 DEF ServerInv, AccountsTyped
<1>4. /\ c.pc = "succeed" /\ c.sid = s /\ c.op = call[r].op /\ c.target = call[r].target
      /\ c.guess = call[r].guess /\ c.seen = call[r].seen /\ c.give = call[r].give
  BY <1>a, <1>2 DEF Call
<1>5. call[r].target \in User /\ call[r].guess \in Password /\ call[r].op = "login" /\ call[r].seen \in Row
      /\ call[r].seen.status = "active" /\ call[r].guess = call[r].seen.password
  BY <1>a DEF Fits, LoginFits
<1>6. AccountsTyped'
  BY <1>b, <1>1, <1>3, <1>5 DEF ServerInv, AccountsTyped, accountVars
<1>7. \A q \in Sid \ issued' : owner'[q] = None
  BY <1>1 DEF ServerInv, AccountsTyped
<1>8. ASSUME NEW q \in Request PROVE Fits(q)' /\ DecisionHolds(q)'
  <2>1. CASE q = r
    BY <1>3, <1>4, <1>5, <2>1 DEF Fits, LoginFits, HandlerFits, AnswerFits, DecisionHolds, Busy, AdminOp, SelfOp
  <2>2. CASE q # r
    <3>1. call'[q] = call[q] /\ Fits(q) /\ DecisionHolds(q)
      BY <1>3, <2>2 DEF ServerInv
    <3>2. LoginFits(q)' /\ AnswerFits(q)'
      BY <3>1 DEF Fits, LoginFits, AnswerFits
    <3>5. call[q].pc \in Busy => call[q].sid \in issued' /\ owner'[call[q].sid] = owner[call[q].sid]
      BY <1>1, <3>1 DEF Fits, HandlerFits, ServerInv, AccountsTyped
    <3>3. HandlerFits(q)'
      BY <3>1, <3>5 DEF Fits, HandlerFits
    <3>4. DecisionHolds(q)'
      BY <1>b, <3>1 DEF DecisionHolds, Guarded, ActiveAdmins, accountVars
    <3>. QED
      BY <3>2, <3>3, <3>4 DEF Fits
  <2>. QED
    BY <2>1, <2>2
<1>9. AdminUnlessOvertaken'
  BY <1>b DEF ServerInv, AdminUnlessOvertaken, ActiveAdmins, accountVars
<1>10. RevocationEndsSessions'
  <2>. SUFFICES ASSUME NEW q \in Sid, owner'[q] # None, q \notin late' \cup spared'
                PROVE  \/ status'[owner'[q]] = "active" /\ opened'[q] = password'[owner'[q]]
                       \/ \E d \in Working({"kill"})' : q \in Doomed(d)'
    BY DEF RevocationEndsSessions
  <2>1. CASE q = s
    <3>1. Unrevoked(r)
      BY <1>1, <2>1
    <3>2. owner'[q] = call[r].target /\ opened'[q] = call[r].guess
      BY <1>1, <2>1 DEF ServerInv, AccountsTyped
    <3>. QED
      BY <1>b, <1>5, <3>1, <3>2 DEF Unrevoked, accountVars
  <2>2. CASE q # s
    <3>1. owner'[q] = owner[q] /\ opened'[q] = opened[q] /\ q \notin late \cup spared
      BY <1>1, <1>b, <2>2 DEF ServerInv, AccountsTyped
    <3>2. ASSUME NEW d \in Request, call[d].pc = "kill", q \in Doomed(d)
          PROVE  d \in Working({"kill"})' /\ q \in Doomed(d)'
      BY <1>a, <1>3, <3>1, <3>2 DEF Working, Doomed
    <3>. QED
      BY <1>b, <3>1, <3>2 DEF ServerInv, RevocationEndsSessions, Working, accountVars
  <2>. QED
    BY <2>1, <2>2
<1>. QED
  BY <1>6, <1>7, <1>8, <1>9, <1>10 DEF ServerInv

LEMMA ValidateStep ==
    ASSUME ServerInv, NEW r \in Request, ValidateToken(r)
    PROVE  ServerInv'
<1>a. call[r] \in Call /\ Fits(r) /\ call[r].pc = "session"
  BY DEF ServerInv, AccountsTyped, ValidateToken
<1>b. UNCHANGED <<accountVars, opened, issued, late, spared, raced>>
  BY DEF ValidateToken
<1>1. CASE /\ call[r].sid # None /\ owner[call[r].sid] # None /\ call[r].sid \notin expired
           /\ call' = [call EXCEPT ![r].pc = "user", ![r].user = owner[call[r].sid]]
           /\ UNCHANGED owner
  <2>1. call[r].sid \in Sid
    BY <1>a, <1>1 DEF Call
  <2>2. call[r].sid \in issued /\ owner[call[r].sid] \in User
    BY <1>1, <2>1 DEF ServerInv, AccountsTyped
  <2>3. PICK c \in Call : c = [call[r] EXCEPT !.pc = "user", !.user = owner[call[r].sid]]
    BY <1>a, <2>2 DEF Call, Pc, Busy
  <2>4. call' = [call EXCEPT ![r] = c] /\ call'[r] = c
    BY <1>1, <2>3 DEF ServerInv, AccountsTyped
  <2>5. /\ c.pc = "user" /\ c.user = owner[call[r].sid] /\ c.sid = call[r].sid
        /\ c.op = call[r].op /\ c.target = call[r].target /\ c.give = call[r].give /\ c.guess = call[r].guess
    BY <1>a, <2>3 DEF Call
  <2>6. LoginFits(r)' /\ AnswerFits(r)' /\ DecisionHolds(r)'
    BY <2>4, <2>5 DEF LoginFits, AnswerFits, DecisionHolds
  <2>7. HandlerFits(r)'
    BY <1>a, <1>b, <1>1, <2>2, <2>4, <2>5 DEF Fits, HandlerFits, Busy
  <2>. QED
    BY <1>a, <1>b, <1>1, <2>4, <2>6, <2>7, Quiet DEF Fits
<1>2. CASE /\ call[r].sid # None /\ owner' = [owner EXCEPT ![call[r].sid] = None]
           /\ Reply(r, 401)
  <2>1. Fits(r)' /\ DecisionHolds(r)' /\ call' \in [Request -> Call]
        /\ \A q \in Request : q # r => call'[q] = call[q]
    <3>2. call'[r] = Answered(r, 401) /\ call' \in [Request -> Call]
          /\ \A q \in Request : q # r => call'[q] = call[q]
      BY <1>2, ReplyIs
    <3>. QED
      BY <3>2, Refusal
  <2>2. owner' \in [Sid -> User \cup {None}] /\ \A s \in Sid : owner'[s] \in {owner[s], None}
    BY <1>2 DEF ServerInv, AccountsTyped
  <2>. QED
    BY <1>a, <1>b, <2>1, <2>2, Settle
<1>3. CASE Reply(r, 401) /\ UNCHANGED owner
  BY <1>a, <1>b, <1>3, Refused
<1>. QED
  BY <1>1, <1>2, <1>3 DEF ValidateToken

LEMMA AuthStep ==
    ASSUME ServerInv, NEW r \in Request, requireAuth(r)
    PROVE  ServerInv'
<1>a. call[r] \in Call /\ Fits(r) /\ call[r].pc = "user"
  BY DEF ServerInv, AccountsTyped, requireAuth
<1>b. UNCHANGED <<accountVars, owner, opened, issued, late, spared, raced>>
  BY DEF requireAuth, sessionVars
<1>c. call[r].user \in User /\ call[r].op \in Op \ {"login"}
  BY <1>a DEF Fits, HandlerFits, Busy
<1>1. CASE Reply(r, 401) \/ Reply(r, 403)
  BY <1>a, <1>b, <1>1, Refused
<1>2. CASE call[r].op = "poll" /\ Reply(r, 200)
  <2>1. call'[r] = Answered(r, 200) /\ \E c \in Call : call' = [call EXCEPT ![r] = c]
    BY <1>2, ReplyIs
  <2>. QED
    BY <1>a, <1>b, <1>2, <2>1, Agreement, Quiet DEF Busy
<1>3. ASSUME NEW pc \in {"read", "write"}, pc = "write" => call[r].op = "logout",
             call' = [call EXCEPT ![r] =
                 [[call[r] EXCEPT !.target = IF call[r].op \in SelfOp THEN call[r].user ELSE @]
                     EXCEPT !.pc = pc]]
      PROVE  ServerInv'
  <2>1. PICK target \in User \cup {None} : target = IF call[r].op \in SelfOp THEN call[r].user ELSE call[r].target
    BY <1>a, <1>c DEF Call
  <2>2. PICK c \in Call : c = [call[r] EXCEPT !.target = target, !.pc = pc]
    BY <1>a DEF Call, Pc, Busy
  <2>3. c = [[call[r] EXCEPT !.target = IF call[r].op \in SelfOp THEN call[r].user ELSE @] EXCEPT !.pc = pc]
    BY <1>a, <2>1, <2>2 DEF Call
  <2>4. call' = [call EXCEPT ![r] = c] /\ call'[r] = c
    BY <1>3, <2>3 DEF ServerInv, AccountsTyped
  <2>5. /\ c.pc = pc /\ c.user = call[r].user /\ c.sid = call[r].sid /\ c.target = target
        /\ c.op = call[r].op /\ c.give = call[r].give /\ c.guess = call[r].guess
    BY <1>a, <2>2 DEF Call
  <2>6. LoginFits(r)' /\ AnswerFits(r)'
    BY <2>4, <2>5 DEF LoginFits, AnswerFits
  <2>7. HandlerFits(r)'
    BY <1>a, <1>b, <1>c, <1>3, <2>1, <2>4, <2>5 DEF Fits, HandlerFits, Busy, AdminOp, SelfOp
  <2>8. DecisionHolds(r)'
    BY <1>3, <2>4, <2>5 DEF DecisionHolds, Guarded
  <2>. QED
    BY <1>a, <1>b, <2>4, <2>6, <2>7, <2>8, Quiet DEF Fits
<1>. QED
  BY <1>1, <1>2, <1>3 DEF requireAuth, Reply

LEMMA GetUserStep ==
    ASSUME ServerInv, NEW r \in Request, GetUser(r)
    PROVE  ServerInv'
<1>a. call[r] \in Call /\ Fits(r) /\ call[r].pc = "read" /\ call[r].op # "users"
  BY DEF ServerInv, AccountsTyped, GetUser
<1>b. UNCHANGED <<accountVars, owner, opened, issued, late, spared, raced>>
  BY DEF GetUser, sessionVars
<1>c. /\ call[r].op \in AdminOp \cup SelfOp /\ call[r].target \in User
      /\ Snapshot(call[r].target) \in Row
      /\ Snapshot(call[r].target).role = role[call[r].target]
  <2>1. call[r].op \in AdminOp \cup SelfOp /\ call[r].target \in User
    BY <1>a DEF Fits, HandlerFits, Busy, Op
  <2>. QED
    BY <2>1 DEF Snapshot, Row, ServerInv, AccountsTyped
<1>1. CASE Reply(r, 401) \/ Reply(r, 404) \/ Reply(r, 409)
  BY <1>a, <1>b, <1>1, Refused
<1>2. CASE /\ call[r].op = "me"
           /\ call' = [call EXCEPT ![r] = [Answered(r, 200) EXCEPT !.seen = Snapshot(call[r].target)]]
  <2>3. PICK seen \in Seen : seen = Snapshot(call[r].target)
    BY <1>c DEF Seen
  <2>1. PICK c \in Call :
           /\ c = [Answered(r, 200) EXCEPT !.seen = seen]
           /\ c.pc = "answered" /\ c.op = call[r].op /\ c.sid = call[r].sid
           /\ c.user = call[r].user /\ c.seen = seen
    BY AnswerWith
  <2>2. call' = [call EXCEPT ![r] = c] /\ call'[r] = c
    BY <1>2, <2>1, <2>3 DEF ServerInv, AccountsTyped
  <2>4. /\ c.pc = "answered" /\ c.op = call[r].op /\ c.sid = call[r].sid
        /\ c.user = call[r].user /\ c.seen = Snapshot(call[r].target)
    BY <2>1, <2>3
  <2>5. LoginFits(r)' /\ DecisionHolds(r)' /\ HandlerFits(r)'
    BY <1>2, <2>2, <2>4 DEF LoginFits, DecisionHolds, HandlerFits, Busy
  <2>6. call[r].sid \in Sid /\ call[r].user \in User
    BY <1>a DEF Fits, HandlerFits, Busy, ServerInv, AccountsTyped
  <2>7. AnswerFits(r)'
    BY <1>2, <1>c, <2>2, <2>4, <2>6 DEF AnswerFits
  <2>. QED
    BY <1>a, <1>b, <2>2, <2>5, <2>7, Quiet DEF Fits
<1>3. CASE call' = [call EXCEPT ![r] = [call[r] EXCEPT !.seen = Snapshot(call[r].target),
                                                       !.pc = IF Guarded(r) THEN "count" ELSE "write"]]
  <2>1. PICK pc \in {"count", "write"} : pc = IF Guarded(r) THEN "count" ELSE "write"
    OBVIOUS
  <2>2. PICK c \in Call : c = [call[r] EXCEPT !.seen = Snapshot(call[r].target), !.pc = pc]
    BY <1>a, <1>c DEF Call, Pc, Busy, Seen
  <2>3. call' = [call EXCEPT ![r] = c] /\ call'[r] = c
    BY <1>3, <2>1, <2>2 DEF ServerInv, AccountsTyped
  <2>4. /\ c.pc = pc /\ c.seen = Snapshot(call[r].target) /\ c.user = call[r].user /\ c.sid = call[r].sid
        /\ c.op = call[r].op /\ c.target = call[r].target /\ c.give = call[r].give /\ c.guess = call[r].guess
    BY <1>a, <2>2 DEF Call
  <2>5. LoginFits(r)' /\ AnswerFits(r)'
    BY <2>1, <2>3, <2>4 DEF LoginFits, AnswerFits
  <2>6. HandlerFits(r)'
    BY <1>a, <1>b, <1>c, <2>1, <2>3, <2>4 DEF Fits, HandlerFits, Busy, Guarded
  <2>7. DecisionHolds(r)'
    BY <1>b, <1>c, <2>1, <2>3, <2>4 DEF DecisionHolds, Guarded, accountVars
  <2>. QED
    BY <1>a, <1>b, <2>3, <2>5, <2>6, <2>7, Quiet DEF Fits
<1>. QED
  BY <1>1, <1>2, <1>3 DEF GetUser, Reply

LEMMA ListUsersStep ==
    ASSUME ServerInv, NEW r \in Request, ListUsers(r)
    PROVE  ServerInv'
<1>a. call[r] \in Call /\ Fits(r) /\ call[r].pc = "read" /\ call[r].op = "users"
  BY DEF ServerInv, AccountsTyped, ListUsers
<1>b. UNCHANGED <<accountVars, owner, opened, issued, late, spared, raced>>
  BY DEF ListUsers, sessionVars
<1>1. [u \in User |-> [role |-> role[u], status |-> status[u]]] \in Seen
  BY DEF Seen, Summary, ServerInv, AccountsTyped
<1>2. PICK seen \in Seen : seen = [u \in User |-> [role |-> role[u], status |-> status[u]]]
  BY <1>1
<1>5. PICK c \in Call :
         /\ c = [Answered(r, 200) EXCEPT !.seen = seen]
         /\ c.pc = "answered" /\ c.op = call[r].op /\ c.sid = call[r].sid
  BY AnswerWith
<1>3. call' = [call EXCEPT ![r] = c] /\ call'[r] = c
  BY <1>2, <1>5 DEF ListUsers, ServerInv, AccountsTyped
<1>6. call[r].sid \in Sid
  BY <1>a DEF Fits, HandlerFits, Busy, ServerInv, AccountsTyped
<1>7. LoginFits(r)' /\ DecisionHolds(r)' /\ HandlerFits(r)' /\ AnswerFits(r)'
  BY <1>a, <1>3, <1>5, <1>6 DEF LoginFits, DecisionHolds, HandlerFits, AnswerFits, Busy
<1>. QED
  BY <1>a, <1>b, <1>3, <1>7, Quiet DEF Fits

\* The write goes ahead only when there was another administrator.
LEMMA CountStep ==
    ASSUME ServerInv, NEW r \in Request, CountActiveAdmins(r)
    PROVE  ServerInv'
<1>a. call[r] \in Call /\ Fits(r) /\ call[r].pc = "count"
  BY DEF ServerInv, AccountsTyped, CountActiveAdmins
<1>b. UNCHANGED <<accountVars, owner, opened, issued, late, spared, raced>>
  BY DEF CountActiveAdmins, sessionVars
<1>1. CASE Reply(r, 409)
  BY <1>a, <1>b, <1>1, Refused
<1>2. CASE Cardinality(ActiveAdmins) > 1 /\ Goto(r, "write")
  <2>1. "write" \in Pc
    BY DEF Pc, Busy
  <2>2. PICK c \in Call : call' = [call EXCEPT ![r] = c]
    BY <1>2, <2>1, GotoIs
  <2>3. /\ call'[r].pc = "write" /\ call'[r].op = call[r].op /\ call'[r].user = call[r].user
        /\ call'[r].sid = call[r].sid /\ call'[r].target = call[r].target /\ call'[r].give = call[r].give
        /\ call'[r].guess = call[r].guess /\ call'[r].seen = call[r].seen
    BY <1>2, <2>1, GotoIs
  <2>4. LoginFits(r)' /\ AnswerFits(r)'
    BY <2>3 DEF LoginFits, AnswerFits
  <2>5. HandlerFits(r)'
    BY <1>a, <1>b, <2>3 DEF Fits, HandlerFits, Busy
  <2>6. call[r].op \in {"updateUser", "suspend"}
    BY <1>a DEF Fits, HandlerFits
  <2>7. ActiveAdmins' = ActiveAdmins
    BY <1>b DEF ActiveAdmins, accountVars
  <2>8. DecisionHolds(r)'
    BY <1>2, <2>3, <2>6, <2>7 DEF DecisionHolds
  <2>. QED
    BY <1>a, <1>b, <2>2, <2>4, <2>5, <2>8, Quiet DEF Fits
<1>3. Cardinality(ActiveAdmins) <= 1 \/ Cardinality(ActiveAdmins) > 1
  BY AdminsFinite
<1>. QED
  BY <1>1, <1>2, <1>3 DEF CountActiveAdmins

\* Sessions end, and no request goes on.
LEMMA LogoutStep ==
    ASSUME ServerInv, NEW r \in Request, DeleteSession(r) \/ DeleteUserSessions(r)
    PROVE  ServerInv'
<1>a. call[r] \in Call /\ Fits(r) /\ call[r].pc \in Busy /\ call[r].op # "me" /\ Reply(r, 200)
  BY DEF ServerInv, AccountsTyped, Fits, HandlerFits, DeleteSession, DeleteUserSessions, Busy
<1>b. UNCHANGED <<accountVars, opened, issued, late, spared, raced>>
  BY DEF DeleteSession, DeleteUserSessions
<1>1. call' \in [Request -> Call] /\ call'[r] = Answered(r, 200) /\ \A q \in Request : q # r => call'[q] = call[q]
  BY <1>a, ReplyIs
<1>2. owner' \in [Sid -> User \cup {None}] /\ \A s \in Sid : owner'[s] \in {owner[s], None}
  BY DEF DeleteSession, DeleteUserSessions, ServerInv, AccountsTyped
<1>3. call[r].pc = "kill" => \A s \in Doomed(r) : owner'[s] = None \/ s \in spared'
  BY DEF DeleteSession, DeleteUserSessions, Doomed
<1>4. Fits(r)' /\ DecisionHolds(r)'
  BY <1>a, <1>1, Agreement
<1>. QED
  BY <1>b, <1>1, <1>2, <1>3, <1>4, Settle
-----------------------------------------------------------------------------
(* The writes.  The others' decisions on a role or a status are marked when one changes. *)

LEMMA Overtaken ==
    ASSUME ServerInv, NEW r \in Request, NEW next \in Call, Overtaking(r, next),
           UNCHANGED sessionVars
    PROVE  /\ call' \in [Request -> Call] /\ call'[r] = next
           /\ \A q \in Request : q # r =>
                 /\ Fits(q)' /\ DecisionHolds(q)'
                 /\ call'[q].pc = call[q].pc /\ call'[q].op = call[q].op
                 /\ call'[q].sid = call[q].sid /\ call'[q].target = call[q].target
<1>b. UNCHANGED <<owner, issued>>
  BY DEF sessionVars
<1>1. \A q \in Request : call'[q] = IF q = r THEN next
          ELSE IF q \in Deciding /\ <<role, status>>' # <<role, status>>
               THEN [call[q] EXCEPT !.stale = TRUE] ELSE call[q]
  BY DEF Overtaking
<1>2. \A q \in Request : call[q] \in Call
  BY DEF ServerInv, AccountsTyped
<1>3. \A c \in Call : [c EXCEPT !.stale = TRUE] \in Call
  BY DEF Call
<1>4. \A q \in Request : call'[q] \in Call
  BY <1>1, <1>2, <1>3
<1>5. call' \in [Request -> Call] /\ call'[r] = next
  BY <1>1, <1>4 DEF Overtaking
<1>6. ASSUME NEW q \in Request, q # r
      PROVE  /\ Fits(q)' /\ DecisionHolds(q)'
             /\ call'[q].pc = call[q].pc /\ call'[q].op = call[q].op
             /\ call'[q].sid = call[q].sid /\ call'[q].target = call[q].target
  <2>1. /\ call'[q].pc = call[q].pc /\ call'[q].op = call[q].op /\ call'[q].sid = call[q].sid
        /\ call'[q].user = call[q].user /\ call'[q].target = call[q].target
        /\ call'[q].give = call[q].give /\ call'[q].guess = call[q].guess
        /\ call'[q].seen = call[q].seen /\ call'[q].code = call[q].code
    BY <1>1, <1>2, <1>6 DEF Call
  <2>2. LoginFits(q)' /\ AnswerFits(q)'
    BY <2>1 DEF ServerInv, Fits, LoginFits, AnswerFits
  <2>3. HandlerFits(q)'
    BY <1>b, <2>1 DEF ServerInv, Fits, HandlerFits
  <2>4. ASSUME call'[q].pc = "write", ~call'[q].stale
        PROVE  /\ Guarded(q)' => Cardinality(ActiveAdmins') > 1
               /\ call'[q].op = "updateMe" => call'[q].seen.role = role'[call'[q].target]
    <3>1. CASE q \notin Deciding
      BY <2>1, <2>4, <3>1 DEF Deciding, Working, Guarded
    <3>2. CASE q \in Deciding
      <4>1. UNCHANGED <<role, status>>
        BY <1>1, <1>2, <1>6, <2>4, <3>2 DEF Call
      <4>2. call'[q] = call[q]
        BY <1>1, <1>6, <4>1
      <4>. QED
        BY <2>4, <4>1, <4>2 DEF ServerInv, DecisionHolds, Guarded, ActiveAdmins
    <3>. QED
      BY <3>1, <3>2
  <2>5. DecisionHolds(q)'
    BY <2>4 DEF DecisionHolds
  <2>. QED
    BY <2>1, <2>2, <2>3, <2>5 DEF Fits
<1>. QED
  BY <1>5, <1>6

\* Who was doomed by the others still is.
LEMMA StillDoomed ==
    ASSUME ServerInv, NEW r \in Request, call[r].pc # "kill", UNCHANGED owner,
           \A q \in Request : q # r =>
               /\ call'[q].pc = call[q].pc /\ call'[q].op = call[q].op
               /\ call'[q].sid = call[q].sid /\ call'[q].target = call[q].target,
           NEW s \in Sid, owner[s] # None, s \notin late \cup spared,
           ~(status[owner[s]] = "active" /\ opened[s] = password[owner[s]])
    PROVE  \E q \in Working({"kill"})' : s \in Doomed(q)'
<1>1. PICK q \in Request : call[q].pc = "kill" /\ s \in Doomed(q)
  BY DEF ServerInv, RevocationEndsSessions, Working
<1>2. q # r
  BY <1>1
<1>. QED
  BY <1>1, <1>2 DEF Working, Doomed

LEMMA WriteRoleStep ==
    ASSUME ServerInv, NEW r \in Request, WriteRole(r)
    PROVE  ServerInv'
<1>a. /\ call[r] \in Call /\ Fits(r) /\ call[r].pc = "write" /\ call[r].op \in {"updateUser", "updateMe"}
      /\ DecisionHolds(r)
  BY DEF ServerInv, AccountsTyped, WriteRole
<1>b. UNCHANGED sessionVars /\ UNCHANGED <<status, password, owner, opened, issued, late, spared>>
  BY DEF WriteRole, sessionVars
<1>c. PICK next \in Call : next = Answered(r, 200)
  BY AnswerIs
<1>d. Overtaking(r, next)
  BY <1>c DEF WriteRole
<1>1. PICK given \in Role \cup {None} :
          /\ given = IF call[r].op = "updateMe" THEN call[r].seen.role ELSE call[r].give
          /\ role' = [role EXCEPT ![call[r].target] = given]
  <2>1. call[r].op = "updateMe" => call[r].seen.role \in Role \cup {None}
    BY <1>a DEF Fits, HandlerFits, Row
  <2>2. call[r].op = "updateUser" => call[r].give \in Role
    BY <1>a DEF Fits, HandlerFits
  <2>. QED
    BY <1>a, <2>1, <2>2 DEF WriteRole
<1>2. AccountsTyped'
  BY <1>b, <1>d, <1>1, Overtaken DEF ServerInv, AccountsTyped, Overtaking, Call
<1>3. Fits(r)' /\ DecisionHolds(r)'
  BY <1>a, <1>c, <1>d, <1>b, Overtaken, Agreement DEF Busy
<1>4. \A q \in Request : Fits(q)' /\ DecisionHolds(q)'
  BY <1>b, <1>d, <1>3, Overtaken
<1>5. ASSUME ~raced' PROVE ActiveAdmins' # {}
  <2>1. ~raced /\ ~call[r].stale
    BY <1>5 DEF WriteRole, Overtaking
  <2>2. ActiveAdmins # {}
    BY <2>1 DEF ServerInv, AdminUnlessOvertaken
  <2>3. CASE Guarded(r)
    <3>1. PICK v \in ActiveAdmins : v # call[r].target
      BY <1>a, <2>1, <2>3, AnotherAdmin DEF DecisionHolds
    <3>2. v \in ActiveAdmins'
      BY <1>b, <1>1, <3>1 DEF ActiveAdmins, ServerInv, AccountsTyped
    <3>. QED
      BY <3>2
  <2>4. CASE ~Guarded(r)
    <3>1. role[call[r].target] = "admin" => given = "admin"
      BY <1>a, <1>1, <2>1, <2>4 DEF DecisionHolds, Guarded
    <3>2. ActiveAdmins \subseteq ActiveAdmins'
      BY <1>b, <1>1, <3>1 DEF ActiveAdmins, ServerInv, AccountsTyped
    <3>. QED
      BY <2>2, <3>2
  <2>. QED
    BY <2>3, <2>4
<1>6. RevocationEndsSessions'
  <2>. SUFFICES ASSUME NEW s \in Sid, owner'[s] # None, s \notin late' \cup spared'
                PROVE  \/ status'[owner'[s]] = "active" /\ opened'[s] = password'[owner'[s]]
                       \/ \E q \in Working({"kill"})' : s \in Doomed(q)'
    BY DEF RevocationEndsSessions
  <2>. QED
    BY <1>a, <1>b, <1>d, Overtaken, StillDoomed
<1>7. \A s \in Sid \ issued' : owner'[s] = None
  BY <1>b DEF ServerInv
<1>. QED
  BY <1>2, <1>4, <1>5, <1>6, <1>7 DEF ServerInv, AdminUnlessOvertaken

LEMMA SuspendStep ==
    ASSUME ServerInv, NEW r \in Request, SuspendUser(r)
    PROVE  ServerInv'
<1>a. /\ call[r] \in Call /\ Fits(r) /\ call[r].pc = "write" /\ call[r].op \in {"suspend", "activate"}
      /\ DecisionHolds(r)
  BY DEF ServerInv, AccountsTyped, SuspendUser
<1>b. UNCHANGED sessionVars /\ UNCHANGED <<role, password, owner, opened, issued, late, spared>>
  BY DEF SuspendUser, sessionVars
<1>c. PICK next \in Call : next = IF call[r].op = "suspend" THEN [call[r] EXCEPT !.pc = "kill"] ELSE Answered(r, 200)
  <2>1. [call[r] EXCEPT !.pc = "kill"] \in Call
    BY <1>a DEF Call, Pc, Busy
  <2>. QED
    BY <2>1, AnswerIs
<1>d. Overtaking(r, next)
  BY <1>c DEF SuspendUser
<1>1. PICK now \in {"active", "suspended"} :
          /\ now = IF call[r].op = "suspend" THEN "suspended" ELSE "active"
          /\ status' = [status EXCEPT ![call[r].target] = now]
  BY DEF SuspendUser
<1>2. AccountsTyped'
  BY <1>b, <1>d, <1>1, Overtaken DEF ServerInv, AccountsTyped, Overtaking, Status, Call
<1>e. call'[r] = next
  BY <1>b, <1>d, Overtaken
<1>f. call[r].op = "suspend" =>
          /\ next.pc = "kill" /\ next.op = call[r].op /\ next.sid = call[r].sid /\ next.user = call[r].user
          /\ next.target = call[r].target /\ next.give = call[r].give /\ next.guess = call[r].guess
  BY <1>a, <1>c DEF Call
<1>3. Fits(r)' /\ DecisionHolds(r)'
  <2>1. CASE call[r].op = "activate"
    BY <1>a, <1>c, <1>e, <2>1, Agreement DEF Busy
  <2>2. CASE call[r].op = "suspend"
    <3>1. LoginFits(r)' /\ AnswerFits(r)' /\ DecisionHolds(r)'
      BY <1>e, <1>f, <2>2 DEF LoginFits, AnswerFits, DecisionHolds
    <3>2. HandlerFits(r)'
      BY <1>a, <1>b, <1>e, <1>f, <2>2 DEF Fits, HandlerFits, Busy
    <3>. QED
      BY <3>1, <3>2 DEF Fits
  <2>. QED
    BY <1>a, <2>1, <2>2
<1>4. \A q \in Request : Fits(q)' /\ DecisionHolds(q)'
  BY <1>b, <1>d, <1>3, Overtaken
<1>5. ASSUME ~raced' PROVE ActiveAdmins' # {}
  <2>1. ~raced /\ ~call[r].stale
    BY <1>5 DEF SuspendUser, Overtaking
  <2>2. ActiveAdmins # {}
    BY <2>1 DEF ServerInv, AdminUnlessOvertaken
  <2>3. CASE Guarded(r)
    <3>1. PICK v \in ActiveAdmins : v # call[r].target
      BY <1>a, <2>1, <2>3, AnotherAdmin DEF DecisionHolds
    <3>2. v \in ActiveAdmins'
      BY <1>b, <1>1, <3>1 DEF ActiveAdmins, ServerInv, AccountsTyped
    <3>. QED
      BY <3>2
  <2>4. CASE ~Guarded(r)
    <3>1. role[call[r].target] = "admin" => now = "active"
      BY <1>a, <1>1, <2>4 DEF Guarded
    <3>2. ActiveAdmins \subseteq ActiveAdmins'
      BY <1>b, <1>1, <3>1 DEF ActiveAdmins, ServerInv, AccountsTyped
    <3>. QED
      BY <2>2, <3>2
  <2>. QED
    BY <2>3, <2>4
<1>6. RevocationEndsSessions'
  <2>. SUFFICES ASSUME NEW s \in Sid, owner'[s] # None, s \notin late' \cup spared'
                PROVE  \/ status'[owner'[s]] = "active" /\ opened'[s] = password'[owner'[s]]
                       \/ \E q \in Working({"kill"})' : s \in Doomed(q)'
    BY DEF RevocationEndsSessions
  <2>1. CASE call[r].op = "suspend" /\ owner[s] = call[r].target
    <3>1. r \in Working({"kill"})' /\ s \in Doomed(r)'
      BY <1>b, <1>e, <1>f, <2>1 DEF Working, Doomed
    <3>. QED
      BY <3>1
  <2>2. CASE ~(call[r].op = "suspend" /\ owner[s] = call[r].target)
    <3>1. status[owner[s]] = "active" => status'[owner[s]] = "active"
      BY <1>1, <2>2, <1>b DEF ServerInv, AccountsTyped
    <3>. QED
      BY <1>a, <1>b, <1>d, <3>1, Overtaken, StillDoomed
  <2>. QED
    BY <2>1, <2>2
<1>7. \A s \in Sid \ issued' : owner'[s] = None
  BY <1>b DEF ServerInv
<1>. QED
  BY <1>2, <1>4, <1>5, <1>6, <1>7 DEF ServerInv, AdminUnlessOvertaken

LEMMA CreateUserStep ==
    ASSUME ServerInv, NEW r \in Request, CreateUser(r)
    PROVE  ServerInv'
<1>a. call[r] \in Call /\ Fits(r) /\ call[r].pc = "write" /\ call[r].op = "create"
  BY DEF ServerInv, AccountsTyped, CreateUser
<1>b. UNCHANGED sessionVars /\ UNCHANGED <<owner, opened, issued, late, spared>>
  BY DEF CreateUser, sessionVars
<1>1. CASE Reply(r, 500) /\ UNCHANGED <<accountVars, raced>>
  BY <1>a, <1>b, <1>1, Refused
<1>2. CASE /\ status[call[r].target] = "absent"
           /\ status' = [status EXCEPT ![call[r].target] = "active"]
           /\ role' = [role EXCEPT ![call[r].target] = call[r].give]
           /\ password' = [password EXCEPT ![call[r].target] = call[r].guess]
           /\ Overtaking(r, Answered(r, 200))
  <2>1. call[r].target \in User /\ call[r].give \in Role /\ call[r].guess \in Password
    BY <1>a DEF Fits, HandlerFits, Busy, AdminOp
  <2>2. PICK next \in Call : next = Answered(r, 200)
    BY AnswerIs
  <2>3. Overtaking(r, next)
    BY <1>2, <2>2
  <2>4. AccountsTyped'
    <3>1. /\ role' \in [User -> Role \cup {None}] /\ status' \in [User -> Status]
          /\ password' \in [User -> Password]
      BY <1>2, <2>1 DEF ServerInv, AccountsTyped, Status
    <3>2. raced' \in BOOLEAN
      BY <1>a, <2>3 DEF ServerInv, AccountsTyped, Overtaking, Call
    <3>3. call' \in [Request -> Call]
      BY <1>b, <2>3, Overtaken
    <3>. QED
      BY <1>b, <3>1, <3>2, <3>3 DEF ServerInv, AccountsTyped
  <2>5. Fits(r)' /\ DecisionHolds(r)'
    BY <1>a, <1>b, <2>2, <2>3, Overtaken, Agreement DEF Busy
  <2>6. \A q \in Request : Fits(q)' /\ DecisionHolds(q)'
    BY <1>b, <2>3, <2>5, Overtaken
  <2>7. ActiveAdmins \subseteq ActiveAdmins'
    BY <1>2 DEF ActiveAdmins, ServerInv, AccountsTyped
  <2>8. AdminUnlessOvertaken'
    BY <1>2, <2>7 DEF ServerInv, AdminUnlessOvertaken, Overtaking
  <2>9. RevocationEndsSessions'
    <3>. SUFFICES ASSUME NEW s \in Sid, owner'[s] # None, s \notin late' \cup spared'
                  PROVE  \/ status'[owner'[s]] = "active" /\ opened'[s] = password'[owner'[s]]
                         \/ \E q \in Working({"kill"})' : s \in Doomed(q)'
      BY DEF RevocationEndsSessions
    <3>1. status[owner[s]] = "active" => status'[owner[s]] = "active" /\ password'[owner[s]] = password[owner[s]]
      BY <1>2, <1>b DEF ServerInv, AccountsTyped
    <3>. QED
      BY <1>a, <1>b, <2>3, <3>1, Overtaken, StillDoomed
  <2>10. \A s \in Sid \ issued' : owner'[s] = None
    BY <1>b DEF ServerInv
  <2>. QED
    BY <2>4, <2>6, <2>8, <2>9, <2>10 DEF ServerInv
<1>. QED
  BY <1>1, <1>2 DEF CreateUser

\* Whoever changes a password goes on to end the sessions held on the one before.
LEMMA PasswordStep ==
    ASSUME ServerInv, NEW r \in Request, UpdateUserPassword(r)
    PROVE  ServerInv'
<1>a. /\ call[r] \in Call /\ Fits(r) /\ call[r].pc = "write" /\ call[r].op \in {"password", "reset"}
      /\ Goto(r, "kill") /\ "kill" \in Pc
  BY DEF ServerInv, AccountsTyped, UpdateUserPassword, Pc, Busy
<1>b. UNCHANGED <<role, status, owner, issued, late, spared, raced>>
  BY DEF UpdateUserPassword
<1>1. /\ password' = [password EXCEPT ![call[r].target] = call[r].give]
      /\ opened' = IF call[r].op = "password"
                   THEN [opened EXCEPT ![call[r].sid] = call[r].give] ELSE opened
  BY DEF UpdateUserPassword
<1>2. /\ call[r].give \in Password /\ call[r].target \in User /\ call[r].sid \in Sid
      /\ call[r].op = "password" => owner[call[r].sid] \in {call[r].target, None}
  BY <1>a DEF Fits, HandlerFits, Busy, AdminOp, SelfOp, ServerInv, AccountsTyped
<1>3. PICK c \in Call : call' = [call EXCEPT ![r] = c]
  BY <1>a, GotoIs
<1>4. call' \in [Request -> Call] /\ \A q \in Request : q # r => call'[q] = call[q]
  BY <1>3 DEF ServerInv, AccountsTyped
<1>5. /\ call'[r].pc = "kill" /\ call'[r].op = call[r].op /\ call'[r].sid = call[r].sid
      /\ call'[r].user = call[r].user /\ call'[r].target = call[r].target /\ call'[r].give = call[r].give
      /\ call'[r].guess = call[r].guess
  BY <1>a, GotoIs
<1>6. AccountsTyped'
  BY <1>b, <1>1, <1>2, <1>4 DEF ServerInv, AccountsTyped
<1>7. ASSUME NEW q \in Request PROVE Fits(q)' /\ DecisionHolds(q)'
  <2>1. CASE q = r
    <3>1. LoginFits(q)' /\ AnswerFits(q)' /\ DecisionHolds(q)'
      BY <1>5, <2>1 DEF LoginFits, AnswerFits, DecisionHolds
    <3>2. HandlerFits(q)'
      BY <1>a, <1>b, <1>5, <2>1 DEF Fits, HandlerFits, Busy
    <3>. QED
      BY <3>1, <3>2 DEF Fits
  <2>2. CASE q # r
    BY <1>b, <1>4, <2>2 DEF ServerInv, Fits, LoginFits, HandlerFits, AnswerFits, DecisionHolds, Guarded, ActiveAdmins
  <2>. QED
    BY <2>1, <2>2
<1>8. AdminUnlessOvertaken'
  BY <1>b DEF ServerInv, AdminUnlessOvertaken, ActiveAdmins
<1>9. RevocationEndsSessions'
  <2>. SUFFICES ASSUME NEW s \in Sid, owner'[s] # None, s \notin late' \cup spared'
                PROVE  \/ status'[owner'[s]] = "active" /\ opened'[s] = password'[owner'[s]]
                       \/ \E q \in Working({"kill"})' : s \in Doomed(q)'
    BY DEF RevocationEndsSessions
  <2>1. CASE owner[s] = call[r].target /\ ~(call[r].op = "password" /\ s = call[r].sid)
    <3>1. r \in Working({"kill"})' /\ s \in Doomed(r)'
      BY <1>b, <1>5, <2>1 DEF Working, Doomed
    <3>. QED
      BY <3>1
  <2>2. CASE owner[s] = call[r].target /\ call[r].op = "password" /\ s = call[r].sid
    <3>1. opened'[s] = password'[owner[s]]
      BY <1>1, <1>2, <2>2 DEF ServerInv, AccountsTyped
    <3>2. \/ opened[s] = password[owner[s]] /\ status[owner[s]] = "active"
          \/ \E q \in Working({"kill"})' : s \in Doomed(q)'
      BY <1>a, <1>b, <1>4, StillDoomed
    <3>. QED
      BY <1>b, <3>1, <3>2
  <2>3. CASE owner[s] # call[r].target
    <3>1. s # call[r].sid \/ call[r].op # "password"
      BY <1>b, <1>2, <2>3
    <3>2. opened'[s] = opened[s] /\ password'[owner[s]] = password[owner[s]]
      BY <1>1, <1>b, <2>3, <3>1 DEF ServerInv, AccountsTyped
    <3>. QED
      BY <1>a, <1>b, <1>4, <3>2, StillDoomed
  <2>. QED
    BY <2>1, <2>2, <2>3
<1>10. \A s \in Sid \ issued' : owner'[s] = None
  BY <1>b DEF ServerInv
<1>. QED
  BY <1>6, <1>7, <1>8, <1>9, <1>10 DEF ServerInv
-----------------------------------------------------------------------------
(* What happens around the requests, and what comes in. *)

LEMMA PassingStep ==
    ASSUME ServerInv, Passing
    PROVE  ServerInv'
<1>1. ASSUME NEW r \in Request, Fault(r) PROVE ServerInv'
  <2>a. call[r] \in Call /\ Fits(r)
    BY DEF ServerInv, AccountsTyped
  <2>b. UNCHANGED <<accountVars, owner, opened, issued, late, raced>>
    BY <1>1 DEF Fault
  <2>1. CASE call[r].pc \in {"session", "user", "read", "count", "write"} /\ UNCHANGED spared /\ (Reply(r, 401) \/ Reply(r, 500))
    BY <2>b, <2>1, Refused
  <2>2. CASE call[r].pc = "read" /\ call[r].op = "create" /\ Goto(r, "write") /\ UNCHANGED spared
    <3>1. "write" \in Pc
      BY DEF Pc, Busy
    <3>2. PICK c \in Call : call' = [call EXCEPT ![r] = c]
      BY <2>2, <3>1, GotoIs
    <3>3. /\ call'[r].pc = "write" /\ call'[r].op = "create" /\ call'[r].sid = call[r].sid
          /\ call'[r].user = call[r].user /\ call'[r].target = call[r].target
          /\ call'[r].give = call[r].give /\ call'[r].guess = call[r].guess
      BY <2>2, <3>1, GotoIs
    <3>4. LoginFits(r)' /\ AnswerFits(r)' /\ DecisionHolds(r)'
      BY <3>3 DEF LoginFits, AnswerFits, DecisionHolds, Guarded
    <3>5. HandlerFits(r)'
      BY <2>a, <2>b, <2>2, <3>3 DEF Fits, HandlerFits, Busy, SelfOp
    <3>. QED
      BY <2>b, <2>2, <3>2, <3>4, <3>5, Quiet DEF Fits
  <2>3. CASE call[r].pc \in {"lookup", "open"} /\ Goto(r, "failed") /\ UNCHANGED spared
    <3>1. "failed" \in Pc
      BY DEF Pc
    <3>2. PICK c \in Call : call' = [call EXCEPT ![r] = c]
      BY <2>3, <3>1, GotoIs
    <3>3. /\ call'[r].pc = "failed" /\ call'[r].op = call[r].op
          /\ call'[r].target = call[r].target /\ call'[r].guess = call[r].guess
      BY <2>3, <3>1, GotoIs
    <3>4. LoginFits(r)' /\ AnswerFits(r)' /\ DecisionHolds(r)'
      BY <2>a, <2>3, <3>3 DEF Fits, LoginFits, AnswerFits, DecisionHolds
    <3>5. HandlerFits(r)'
      BY <2>a, <2>3, <3>3 DEF Fits, LoginFits, HandlerFits, Busy
    <3>. QED
      BY <2>b, <2>3, <3>2, <3>4, <3>5, Quiet DEF Fits
  <2>4. CASE call[r].pc = "kill" /\ Reply(r, 200) /\ spared' = spared \cup Doomed(r)
    <3>1. call' \in [Request -> Call] /\ call'[r] = Answered(r, 200) /\ \A q \in Request : q # r => call'[q] = call[q]
      BY <2>4, ReplyIs
    <3>2. Fits(r)' /\ DecisionHolds(r)'
      BY <2>a, <2>4, <3>1, Agreement DEF Fits, HandlerFits, Busy
    <3>3. owner' \in [Sid -> User \cup {None}] /\ \A s \in Sid : owner'[s] \in {owner[s], None}
      BY <2>b DEF ServerInv, AccountsTyped
    <3>4. spared \subseteq spared' /\ \A s \in Doomed(r) : s \in spared'
      BY <2>4
    <3>. QED
      BY <2>b, <3>1, <3>2, <3>3, <3>4, Settle
  <2>. QED
    BY <1>1, <2>1, <2>2, <2>3, <2>4 DEF Fault
<1>2. ASSUME \/ \E s \in Sid : Expire(s)
             \/ PurgeExpiredSessions
             \/ \E u \in User : WindowOver(u) \/ LockOver(u) \/ Cleanup(u)
      PROVE  ServerInv'
  <2>1. UNCHANGED <<accountVars, opened, issued, late, spared, raced, call>>
    BY <1>2 DEF Expire, PurgeExpiredSessions, WindowOver, LockOver, Cleanup, sessionVars
  <2>2. owner' \in [Sid -> User \cup {None}] /\ \A s \in Sid : owner'[s] \in {owner[s], None}
    BY <1>2 DEF Expire, PurgeExpiredSessions, WindowOver, LockOver, Cleanup, sessionVars,
       ServerInv, AccountsTyped
  <2>3. call' \in [Request -> Call]
    BY <2>1 DEF ServerInv, AccountsTyped
  <2>. QED
    BY <2>1, <2>2, <2>3, Settle
<1>. QED
  BY <1>1, <1>2 DEF Passing

LEMMA ServeStep ==
    ASSUME ServerInv, NEW r \in Request, Serve(r)
    PROVE  ServerInv'
BY LoginStep, CreateSessionStep, ValidateStep, AuthStep, GetUserStep, ListUsersStep, CountStep,
   WriteRoleStep, SuspendStep, CreateUserStep, PasswordStep, LogoutStep DEF Serve

\* What a client may ask for.
Asked(op, target, give, guess) ==
    /\ op \in Op
    /\ op = "login" => target \in User /\ guess \in Password
    /\ op \in AdminOp => target \in User
    /\ op \in {"updateUser", "create"} => give \in Role
    /\ op \in {"password", "reset"} => give \in Password
    /\ op = "create" => guess \in Password

\* A request comes in, or its answer is taken.
LEMMA ArrivingIs ==
    ASSUME NEW op \in Op, NEW sid \in Sid \cup {None}, NEW target \in User \cup {None},
           NEW give \in Role \cup Password \cup {None}, NEW guess \in Password \cup {None}
    PROVE  \E c \in Call :
              /\ c = Arriving(op, sid, target, give, guess)
              /\ c.pc = IF op = "login" THEN "allow" ELSE "session"
              /\ c.op = op /\ c.sid = sid /\ c.target = target /\ c.give = give /\ c.guess = guess
<1>1. PICK c : c = Arriving(op, sid, target, give, guess)
  OBVIOUS
<1>2. PICK pc \in {"allow", "session"} : pc = IF op = "login" THEN "allow" ELSE "session"
  OBVIOUS
<1>3. c = [Free EXCEPT !.pc = pc, !.op = op, !.sid = sid, !.target = target, !.give = give, !.guess = guess]
  BY <1>1, <1>2 DEF Arriving
<1>4. c = [pc |-> pc, op |-> op, sid |-> sid, user |-> None, target |-> target,
           give |-> give, guess |-> guess, seen |-> None, stale |-> FALSE, code |-> 0]
  BY <1>3 DEF Free
<1>5. c \in Call
  BY <1>4 DEF Call, Pc, Seen
<1>. QED
  BY <1>1, <1>2, <1>4, <1>5

LEMMA ArrivalStep ==
    ASSUME ServerInv, NEW r \in Request, call[r].pc \in {"free", "answered"},
           NEW op, NEW sid \in Sid \cup {None}, NEW target \in User \cup {None},
           NEW give \in Role \cup Password \cup {None}, NEW guess \in Password \cup {None},
           Asked(op, target, give, guess),
           call' = [call EXCEPT ![r] = Arriving(op, sid, target, give, guess)],
           UNCHANGED <<accountVars, owner, opened, issued, late, spared, raced>>
    PROVE  ServerInv'
<1>1. op \in Op
  BY DEF Asked
<1>2. PICK c \in Call :
          /\ c = Arriving(op, sid, target, give, guess)
          /\ c.pc = IF op = "login" THEN "allow" ELSE "session"
          /\ c.op = op /\ c.sid = sid /\ c.target = target /\ c.give = give /\ c.guess = guess
  BY <1>1, ArrivingIs
<1>3. call' = [call EXCEPT ![r] = c] /\ call'[r] = c
  BY <1>2 DEF ServerInv, AccountsTyped
<1>4. LoginFits(r)' /\ AnswerFits(r)' /\ DecisionHolds(r)'
  BY <1>2, <1>3 DEF LoginFits, AnswerFits, DecisionHolds, Asked
<1>5. HandlerFits(r)'
  BY <1>1, <1>2, <1>3 DEF HandlerFits, Asked, Busy, AdminOp, SelfOp
<1>. QED
  BY <1>3, <1>4, <1>5, Quiet DEF Fits

LEMMA TakeStep ==
    ASSUME ServerInv, NEW r \in Request, call[r].pc = "answered",
           call' = [call EXCEPT ![r] = Free],
           UNCHANGED <<accountVars, owner, opened, issued, late, spared, raced>>
    PROVE  ServerInv'
<1>1. PICK c \in Call : c = Free
  BY DEF Free, Call, Pc, Seen
<1>2. call' = [call EXCEPT ![r] = c] /\ call'[r] = c
  BY <1>1 DEF ServerInv, AccountsTyped
<1>3. c.pc = "free" /\ c.op = None
  BY <1>1 DEF Free
<1>4. None \notin {"password", "reset", "updateUser", "create"}
  BY NoneAssumption DEF Op, AdminOp, SelfOp
<1>5. LoginFits(r)' /\ HandlerFits(r)' /\ AnswerFits(r)' /\ DecisionHolds(r)'
  BY <1>2, <1>3, <1>4 DEF LoginFits, HandlerFits, AnswerFits, DecisionHolds, Busy
<1>. QED
  BY <1>2, <1>5, Quiet DEF Fits

LEMMA ServerStarts ==
    ASSUME AccountsInit
    PROVE  ServerInv
<1>1. PICK free \in Call : free = Free
  BY DEF Free, Call, Pc, Seen
<1>2. call = [r \in Request |-> free] /\ free.pc = "free" /\ free.op = None
  BY <1>1 DEF AccountsInit, Free
<1>3. None \notin {"password", "reset", "updateUser", "create"}
  BY NoneAssumption DEF Op, AdminOp, SelfOp
<1>4. \A r \in Request : Fits(r) /\ DecisionHolds(r)
  BY <1>2, <1>3 DEF Fits, LoginFits, HandlerFits, AnswerFits, DecisionHolds, Busy
<1>5. AccountsTyped
  <2>1. role \in [User -> Role \cup {None}] /\ status \in [User -> Status] /\ password \in [User -> Password]
    BY FirstAssumption DEF AccountsInit, Status
  <2>2. owner \in [Sid -> User \cup {None}] /\ opened \in [Sid -> Password \cup {None}] /\ issued \subseteq Sid
    BY FirstAssumption DEF AccountsInit
  <2>. QED
    BY <1>2, <2>1, <2>2 DEF AccountsInit, AccountsTyped
<1>6. \A s \in Sid \ issued : owner[s] = None
  BY DEF AccountsInit
<1>7. ActiveAdmins # {}
  <2>1. PICK u \in User : FirstRole[u] = "admin"
    BY FirstAssumption
  <2>2. FirstRole[u] # None
    BY <2>1, NoneAssumption DEF Role
  <2>3. u \in ActiveAdmins
    BY <2>1, <2>2 DEF ActiveAdmins, AccountsInit
  <2>. QED
    BY <2>3
<1>8. RevocationEndsSessions
  <2>. SUFFICES ASSUME NEW s \in Sid, owner[s] # None
                PROVE  status[owner[s]] = "active" /\ opened[s] = password[owner[s]]
    BY DEF RevocationEndsSessions
  <2>1. FirstSession[s] \in User /\ FirstRole[FirstSession[s]] # None
    BY FirstAssumption DEF AccountsInit
  <2>. QED
    BY <2>1 DEF AccountsInit
<1>. QED
  BY <1>4, <1>5, <1>6, <1>7, <1>8 DEF ServerInv, AdminUnlessOvertaken

LEMMA ServerStutters ==
    ASSUME ServerInv, UNCHANGED <<accountVars, owner, opened, issued, late, spared, raced, call>>
    PROVE  ServerInv'
<1>1. owner' \in [Sid -> User \cup {None}] /\ call' \in [Request -> Call]
      /\ \A s \in Sid : owner'[s] \in {owner[s], None}
  BY DEF ServerInv, AccountsTyped
<1>. QED
  BY <1>1, Settle

\* Whatever requests come, with whatever cookies, the server keeps its invariant.
LEMMA ServerKeeps == AccountsSpec => []ServerInv
<1>1. AccountsInit => ServerInv
  BY ServerStarts
<1>2. ServerInv /\ [AccountsNext]_accountsVars => ServerInv'
  <2>. SUFFICES ASSUME ServerInv, [AccountsNext]_accountsVars PROVE ServerInv'
    OBVIOUS
  <2>1. CASE Passing
    BY <2>1, PassingStep
  <2>2. ASSUME NEW r \in Request, Serve(r) PROVE ServerInv'
    BY <2>2, ServeStep
  <2>3. ASSUME NEW r \in Request, Ask(r) PROVE ServerInv'
    <3>1. PICK a \in Arrivals :
             /\ a.op \in {"updateUser", "create"} => a.give \in Role
             /\ a.op = "reset" => a.give \in Password
             /\ call' = [call EXCEPT ![r] = Arriving(a.op, a.sid, a.target, a.give, a.guess)]
      BY <2>3 DEF Ask
    <3>2. issued \subseteq Sid
      BY DEF ServerInv, AccountsTyped
    <3>3. CASE a \in [op: {"login"}, sid: {None}, target: User, give: {None}, guess: Password]
      <4>1. /\ a.sid \in Sid \cup {None} /\ a.target \in User \cup {None}
            /\ a.give \in Role \cup Password \cup {None} /\ a.guess \in Password \cup {None}
            /\ Asked(a.op, a.target, a.give, a.guess)
        BY <3>1, <3>2, <3>3 DEF Asked, Op, AdminOp
      <4>. QED
        BY <2>3, <3>1, <4>1, ArrivalStep DEF Ask, sessionVars
    <3>4. CASE a \in [op: SelfOp \cup {"users"}, sid: issued \cup {None}, target: {None},
                      give: Password, guess: Password]
      <4>1. /\ a.sid \in Sid \cup {None} /\ a.target \in User \cup {None}
            /\ a.give \in Role \cup Password \cup {None} /\ a.guess \in Password \cup {None}
            /\ Asked(a.op, a.target, a.give, a.guess)
        BY <3>1, <3>2, <3>4 DEF Asked, Op, AdminOp, SelfOp
      <4>. QED
        BY <2>3, <3>1, <4>1, ArrivalStep DEF Ask, sessionVars
    <3>5. CASE a \in [op: AdminOp, sid: issued \cup {None}, target: User,
                      give: Role \cup Password, guess: Password]
      <4>1. /\ a.sid \in Sid \cup {None} /\ a.target \in User \cup {None}
            /\ a.give \in Role \cup Password \cup {None} /\ a.guess \in Password \cup {None}
            /\ Asked(a.op, a.target, a.give, a.guess)
        BY <3>1, <3>2, <3>5 DEF Asked, Op, AdminOp
      <4>. QED
        BY <2>3, <3>1, <4>1, ArrivalStep DEF Ask, sessionVars
    <3>. QED
      BY <3>3, <3>4, <3>5 DEF Arrivals
  <2>4. ASSUME NEW r \in Request, Take(r) PROVE ServerInv'
    BY <2>4, TakeStep DEF Take, sessionVars
  <2>5. CASE UNCHANGED accountsVars
    BY <2>5, ServerStutters DEF accountsVars, sessionVars
  <2>. QED
    BY <2>1, <2>2, <2>3, <2>4, <2>5 DEF AccountsNext
<1>. QED
  BY <1>1, <1>2, PTL DEF AccountsSpec

\* For any accounts, sessions and requests, in any interleaving of the handlers' statements: the
\* checks before a demotion and a suspension (user_handlers.go) leave an active administrator,
\* unless a write goes ahead on a count or a row that another write has overtaken.
THEOREM AdminOfServer == AccountsSpec => []AdminUnlessOvertaken
<1>1. ServerInv => AdminUnlessOvertaken
  BY DEF ServerInv
<1>. QED
  BY <1>1, ServerKeeps, PTL

\* And a suspension, a reset or a change of password ends the sessions there were, whatever
\* requests are served meanwhile.
THEOREM RevocationOfServer == AccountsSpec => []RevocationEndsSessions
<1>1. ServerInv => RevocationEndsSessions
  BY DEF ServerInv
<1>. QED
  BY <1>1, ServerKeeps, PTL
-----------------------------------------------------------------------------
(* The web client. *)

Profile == [id : User, role : Role \cup {None}]

ClientTyped ==
    /\ cookie \in [Tab -> Sid \cup {None}]
    /\ me \in [Tab -> Profile \cup {None}]
    /\ route \in [Tab -> Page \cup {"blank"}]
    /\ going \in [Tab -> Page \cup {None}]
    /\ fetched \in [Tab -> BOOLEAN]
    /\ list \in [Tab -> Seen]
    /\ form \in [Tab -> [user : User, suspend : BOOLEAN] \cup {None}]

\* The requests whose answers the page of the tab is waiting for.
Waiting(t) == {n \in Slot : call[<<t, n>>].pc # "free" /\ <<t, n>> \notin dropped}

Suits(page, user) ==
    page \notin Public \cup {"blank"} =>
        /\ user # None
        /\ page \in RequiresAdmin => isAdmin(user)
        /\ page \in RequiresOperator => isOperator(user)

\* Before the application is mounted a tab waits for nothing but the answer to who the user
\* is, which is about the session its cookie holds; afterwards for anything else.
TabInv(t) ==
    /\ route[t] = "blank" <=> (~fetched[t] \/ going[t] # None)
    /\ ~fetched[t] => Waiting(t) = {} /\ going[t] = None
    /\ route[t] = "blank" => me[t] = None
    /\ \A n \in Waiting(t) : call[<<t, n>>].op = "me" <=> route[t] = "blank"
    /\ \A n \in Waiting(t) : call[<<t, n>>].op = "me" => call[<<t, n>>].sid = cookie[t]
    /\ \A m, n \in Waiting(t) : call[<<t, n>>].op = "me" => m = n
    /\ me[t] # None => cookie[t] # None
    /\ Suits(route[t], me[t])

ClientInv == ClientTyped /\ \A t \in Tab : TabInv(t)

\* The guard lets nobody onto a page that asks for more.
LEMMA ResolveIs ==
    ASSUME NEW to \in Page, NEW u
    PROVE  Resolve(to, u) \in Page /\ Resolve(to, u) # "blank" /\ Suits(Resolve(to, u), u)
<1>1. CASE u = None
  <2>1. PICK via \in Public : via = Guard(to, u)
    BY <1>1 DEF Guard, Public, RequiresAdmin, RequiresOperator, isLoggedIn, Page
  <2>2. Guard(via, u) = via
    BY <1>1 DEF Guard, Public, RequiresAdmin, RequiresOperator, isLoggedIn
  <2>. QED
    BY <2>1, <2>2 DEF Resolve, Suits, Public, Page
<1>2. CASE u # None
  <2>1. PICK via \in Page : via = Guard(to, u)
    BY DEF Guard, Page
  <2>2. /\ via # "Login"
        /\ via \in RequiresAdmin => isAdmin(u)
        /\ via \in RequiresOperator => isOperator(u)
    BY <1>2, <2>1 DEF Guard, Public, RequiresAdmin, RequiresOperator, isLoggedIn
  <2>3. Guard(via, u) = via
    BY <1>2, <2>2 DEF Guard, isLoggedIn
  <2>. QED
    BY <1>2, <2>1, <2>2, <2>3 DEF Resolve, Suits, Page
<1>. QED
  BY <1>1, <1>2

\* A tab that nothing happened to, as far as it can tell.
LEMMA Elsewhere ==
    ASSUME NEW u \in Tab, TabInv(u),
           cookie'[u] = cookie[u], me'[u] = me[u], route'[u] = route[u],
           going'[u] = going[u], fetched'[u] = fetched[u],
           \A n \in Slot :
               /\ call'[<<u, n>>].pc = "free" <=> call[<<u, n>>].pc = "free"
               /\ call'[<<u, n>>].op = call[<<u, n>>].op
               /\ call[<<u, n>>].op = "me" => call'[<<u, n>>].sid = call[<<u, n>>].sid
               /\ <<u, n>> \in dropped' <=> <<u, n>> \in dropped
    PROVE  TabInv(u)'
<1>1. Waiting(u)' = Waiting(u)
  BY DEF Waiting
<1>2. Waiting(u) \subseteq Slot
  BY DEF Waiting
<1>. QED
  BY <1>1, <1>2 DEF TabInv, Suits, isAdmin, isOperator

\* What the server does with a request does not change what it is.
LEMMA ServeKeepsCalls ==
    ASSUME ServerInv, Passing \/ \E r \in Request : Serve(r), NEW q \in Request
    PROVE  /\ call'[q].pc = "free" <=> call[q].pc = "free"
           /\ call'[q].op = call[q].op
           /\ call[q].op = "me" => call'[q].sid = call[q].sid
<1>a. call \in [Request -> Call] /\ \A r \in Request : call[r] \in Call /\ Fits(r)
  BY DEF ServerInv, AccountsTyped
<1>1. ASSUME NEW r \in Request, NEW c, call' = [call EXCEPT ![r] = c],
             c.pc # "free", call[r].pc # "free", c.op = call[r].op,
             c.op = "me" => c.sid = call[r].sid
      PROVE  /\ call'[q].pc = "free" <=> call[q].pc = "free"
             /\ call'[q].op = call[q].op
             /\ call[q].op = "me" => call'[q].sid = call[q].sid
  BY <1>a, <1>1
<1>2. ASSUME NEW r \in Request, NEW code \in Nat, Reply(r, code), call[r].pc # "free"
      PROVE  /\ call'[q].pc = "free" <=> call[q].pc = "free"
             /\ call'[q].op = call[q].op /\ call'[q].sid = call[q].sid
  BY <1>2, ReplyIs
<1>3. ASSUME NEW r \in Request, NEW pc, Goto(r, pc), call[r].pc # "free", pc # "free"
      PROVE  /\ call'[q].pc = "free" <=> call[q].pc = "free"
             /\ call'[q].op = call[q].op
             /\ call[q].op = "me" => call'[q].sid = call[q].sid
  <2>1. PICK c : c = [call[r] EXCEPT !.pc = pc]
    OBVIOUS
  <2>2. c.pc = pc /\ c.op = call[r].op /\ c.sid = call[r].sid
    BY <1>a, <2>1 DEF Call
  <2>3. call' = [call EXCEPT ![r] = c]
    BY <1>3, <2>1 DEF Goto
  <2>. QED
    BY <1>1, <1>3, <2>2, <2>3
<1>4. ASSUME NEW r \in Request, NEW next \in Call, Overtaking(r, next), UNCHANGED sessionVars,
             next.pc # "free", call[r].pc # "free", next.op = call[r].op, next.sid = call[r].sid
      PROVE  /\ call'[q].pc = "free" <=> call[q].pc = "free"
             /\ call'[q].op = call[q].op /\ call'[q].sid = call[q].sid
  BY <1>4, Overtaken
<1>. DEFINE Kept == /\ call'[q].pc = "free" <=> call[q].pc = "free"
                    /\ call'[q].op = call[q].op
                    /\ call[q].op = "me" => call'[q].sid = call[q].sid
<1>5. CASE Passing
  <2>1. ASSUME NEW r \in Request, Fault(r) PROVE Kept
    BY <1>2, <1>3, <2>1 DEF Fault
  <2>2. CASE UNCHANGED call
    BY <2>2
  <2>. QED
    BY <1>5, <2>1, <2>2 DEF Passing, Expire, PurgeExpiredSessions, WindowOver, LockOver, Cleanup
<1>6. ASSUME NEW r \in Request, Serve(r) PROVE Kept
  <2>1. CASE Allow(r) \/ RecordFailure(r) \/ ResetSuccess(r) \/ CountActiveAdmins(r)
             \/ UpdateUserPassword(r) \/ DeleteUserSessions(r) \/ DeleteSession(r)
    BY <1>2, <1>3, <2>1 DEF Allow, RecordFailure, ResetSuccess, CountActiveAdmins, UpdateUserPassword,
       DeleteUserSessions, DeleteSession
  <2>2. CASE Lookup(r)
    <3>1. PICK pc \in {"open", "failed"} :
             call' = [call EXCEPT ![r].pc = pc, ![r].seen = Snapshot(call[r].target)]
      BY <2>2 DEF Lookup
    <3>2. PICK c : c = [call[r] EXCEPT !.pc = pc, !.seen = Snapshot(call[r].target)]
      OBVIOUS
    <3>3. c.pc = pc /\ c.op = call[r].op /\ c.sid = call[r].sid
      BY <1>a, <3>2 DEF Call
    <3>4. call' = [call EXCEPT ![r] = c]
      BY <3>1, <3>2
    <3>. QED
      BY <1>1, <2>2, <3>3, <3>4 DEF Lookup
  <2>3. CASE CreateSession(r)
    <3>1. PICK s \in Sid : call' = [call EXCEPT ![r].pc = "succeed", ![r].sid = s]
      BY <2>3 DEF CreateSession
    <3>2. PICK c : c = [call[r] EXCEPT !.pc = "succeed", !.sid = s]
      OBVIOUS
    <3>3. c.pc = "succeed" /\ c.op = call[r].op
      BY <1>a, <3>2 DEF Call
    <3>4. call' = [call EXCEPT ![r] = c]
      BY <3>1, <3>2
    <3>5. call[r].op = "login"
      BY <1>a, <2>3 DEF CreateSession, Fits, LoginFits
    <3>. QED
      BY <1>1, <2>3, <3>3, <3>4, <3>5 DEF CreateSession
  <2>4. CASE ValidateToken(r)
    <3>1. CASE call' = [call EXCEPT ![r].pc = "user", ![r].user = owner[call[r].sid]]
      <4>1. PICK c : c = [call[r] EXCEPT !.pc = "user", !.user = owner[call[r].sid]]
        OBVIOUS
      <4>2. c.pc = "user" /\ c.op = call[r].op /\ c.sid = call[r].sid
        BY <1>a, <4>1 DEF Call
      <4>3. call' = [call EXCEPT ![r] = c]
        BY <3>1, <4>1
      <4>. QED
        BY <1>1, <2>4, <4>2, <4>3 DEF ValidateToken
    <3>. QED
      BY <1>2, <2>4, <3>1 DEF ValidateToken
  <2>5. CASE requireAuth(r)
    <3>1. ASSUME NEW pc \in {"read", "write"}, NEW target,
                 call' = [call EXCEPT ![r] = [[call[r] EXCEPT !.target = target] EXCEPT !.pc = pc]]
          PROVE  Kept
      <4>1. PICK c : c = [[call[r] EXCEPT !.target = target] EXCEPT !.pc = pc]
        OBVIOUS
      <4>2. c.pc = pc /\ c.op = call[r].op /\ c.sid = call[r].sid
        BY <1>a, <4>1 DEF Call
      <4>3. call' = [call EXCEPT ![r] = c] /\ call[r].pc # "free"
        BY <2>5, <3>1, <4>1 DEF requireAuth
      <4>. QED
        BY <1>1, <4>2, <4>3
    <3>2. Reply(r, 401) \/ Reply(r, 403) \/ Reply(r, 200) => Kept
      BY <1>2, <2>5 DEF requireAuth
    <3>3. CASE call' = [call EXCEPT ![r] =
              [[call[r] EXCEPT !.target = IF call[r].op \in SelfOp THEN call[r].user ELSE @] EXCEPT !.pc = "write"]]
      <4>1. PICK target : target = IF call[r].op \in SelfOp THEN call[r].user ELSE call[r].target
        OBVIOUS
      <4>. QED
        BY <3>1, <3>3, <4>1
    <3>4. CASE call' = [call EXCEPT ![r] =
              [[call[r] EXCEPT !.target = IF call[r].op \in SelfOp THEN call[r].user ELSE @] EXCEPT !.pc = "read"]]
      <4>1. PICK target : target = IF call[r].op \in SelfOp THEN call[r].user ELSE call[r].target
        OBVIOUS
      <4>. QED
        BY <3>1, <3>4, <4>1
    <3>. QED
      BY <2>5, <3>2, <3>3, <3>4 DEF requireAuth, Reply
  <2>6. CASE GetUser(r)
    <3>1. Reply(r, 401) \/ Reply(r, 404) \/ Reply(r, 409) => Kept
      BY <1>2, <2>6 DEF GetUser
    <3>2. CASE call' = [call EXCEPT ![r] = [Answered(r, 200) EXCEPT !.seen = Snapshot(call[r].target)]]
      <4>1. PICK seen \in Seen : seen = Snapshot(call[r].target)
        <5>1. call[r].op \in AdminOp \cup SelfOp /\ call[r].target \in User
          BY <1>a, <2>6 DEF GetUser, Fits, HandlerFits, Busy, Op
        <5>. QED
          BY <5>1 DEF Snapshot, Row, Seen, ServerInv, AccountsTyped
      <4>2. PICK c \in Call :
               /\ c = [Answered(r, 200) EXCEPT !.seen = seen]
               /\ c.pc = "answered" /\ c.op = call[r].op /\ c.sid = call[r].sid
        BY AnswerWith
      <4>. QED
        BY <1>1, <2>6, <3>2, <4>1, <4>2 DEF GetUser
    <3>3. ASSUME NEW pc \in {"count", "write"},
                 call' = [call EXCEPT ![r] = [call[r] EXCEPT !.seen = Snapshot(call[r].target), !.pc = pc]]
          PROVE  Kept
      <4>1. PICK c : c = [call[r] EXCEPT !.seen = Snapshot(call[r].target), !.pc = pc]
        OBVIOUS
      <4>2. c.pc = pc /\ c.op = call[r].op /\ c.sid = call[r].sid
        BY <1>a, <4>1 DEF Call
      <4>3. call' = [call EXCEPT ![r] = c] /\ call[r].pc # "free"
        BY <2>6, <3>3, <4>1 DEF GetUser
      <4>. QED
        BY <1>1, <4>2, <4>3
    <3>4. PICK pc \in {"count", "write"} : pc = IF Guarded(r) THEN "count" ELSE "write"
      OBVIOUS
    <3>. QED
      BY <2>6, <3>1, <3>2, <3>3, <3>4 DEF GetUser, Reply
  <2>7. CASE ListUsers(r)
    <3>1. PICK seen \in Seen : seen = [u \in User |-> [role |-> role[u], status |-> status[u]]]
      BY DEF Seen, Summary, ServerInv, AccountsTyped
    <3>2. PICK c \in Call :
             /\ c = [Answered(r, 200) EXCEPT !.seen = seen]
             /\ c.pc = "answered" /\ c.op = call[r].op /\ c.sid = call[r].sid
      BY AnswerWith
    <3>. QED
      BY <1>1, <2>7, <3>1, <3>2 DEF ListUsers
  <2>8. CASE WriteRole(r) \/ SuspendUser(r) \/ CreateUser(r)
    <3>1. UNCHANGED sessionVars /\ call[r].pc = "write"
      BY <2>8 DEF WriteRole, SuspendUser, CreateUser
    <3>2. PICK good \in Call : /\ good = Answered(r, 200)
                               /\ good.pc = "answered" /\ good.op = call[r].op /\ good.sid = call[r].sid
      <4>1. PICK good \in Call : good = Answered(r, 200)
        BY AnswerIs
      <4>2. good.pc = "answered" /\ good.op = call[r].op /\ good.sid = call[r].sid
        BY <1>a, <4>1 DEF Answered, Call
      <4>. QED
        BY <4>1, <4>2
    <3>3. PICK on \in Call : /\ on = [call[r] EXCEPT !.pc = "kill"]
                             /\ on.pc = "kill" /\ on.op = call[r].op /\ on.sid = call[r].sid
      <4>1. PICK on : on = [call[r] EXCEPT !.pc = "kill"]
        OBVIOUS
      <4>2. on \in Call
        BY <1>a, <4>1 DEF Call, Pc, Busy
      <4>3. on.pc = "kill" /\ on.op = call[r].op /\ on.sid = call[r].sid
        BY <1>a, <4>1 DEF Call
      <4>. QED
        BY <4>1, <4>2, <4>3
    <3>4. Overtaking(r, good) \/ Overtaking(r, on) \/ Reply(r, 500)
      BY <2>8, <3>2, <3>3 DEF WriteRole, SuspendUser, CreateUser
    <3>5. Overtaking(r, good) => Kept
      BY <1>4, <3>1, <3>2
    <3>6. Overtaking(r, on) => Kept
      BY <1>4, <3>1, <3>3
    <3>7. Reply(r, 500) => Kept
      BY <1>2, <3>1
    <3>. QED
      BY <3>4, <3>5, <3>6, <3>7
  <2>. QED
    BY <1>6, <2>1, <2>2, <2>3, <2>4, <2>5, <2>6, <2>7, <2>8 DEF Serve
<1>. QED
  BY <1>5, <1>6
-----------------------------------------------------------------------------
(* The client's steps.  Each goes on with the server as it should, and leaves every tab in
   agreement with what it waits for. *)

Inv == ServerInv /\ ClientInv

LEMMA Calls ==
    ASSUME Inv, NEW t \in Tab, NEW n \in Slot
    PROVE  /\ <<t, n>> \in Request /\ call[<<t, n>>] \in Call /\ call \in [Request -> Call]
           /\ \A u \in Tab, m \in Slot : <<u, m>> \in Request
BY RequestAssumption DEF Inv, ServerInv, AccountsTyped

Sent(t, op, n) ==
    /\ call'[<<t, n>>].pc # "free" /\ call'[<<t, n>>].op = op
    /\ op # "login" => call'[<<t, n>>].sid = cookie[t]
    /\ \A u \in Tab, m \in Slot : <<u, m>> # <<t, n>> => call'[<<u, m>>] = call[<<u, m>>]

\* A page that is shown sends a request.
LEMMA Sending ==
    ASSUME Inv, NEW t \in Tab, NEW op, NEW target \in User \cup {None},
           NEW give \in Role \cup Password \cup {None}, NEW guess \in Password \cup {None},
           Asked(op, target, give, guess), Send(t, op, target, give, guess), Serverside,
           cookie' = cookie
    PROVE  ServerInv' /\ \E n \in Slot \ OnTheWay(t) : Sent(t, op, n)
<1>1. PICK n \in Slot \ OnTheWay(t) :
        call' = [call EXCEPT ![<<t, n>>] =
            Arriving(op, IF op = "login" THEN None ELSE cookie[t], target, give, guess)]
  BY DEF Send
<1>2. PICK sid \in Sid \cup {None} : sid = IF op = "login" THEN None ELSE cookie[t]
  BY DEF Inv, ClientInv, ClientTyped
<1>3. call[<<t, n>>].pc = "free" /\ <<t, n>> \in Request
  BY <1>1, Calls DEF OnTheWay
<1>4. call' = [call EXCEPT ![<<t, n>>] = Arriving(op, sid, target, give, guess)]
  BY <1>1, <1>2
<1>5. ServerInv'
  BY <1>3, <1>4, ArrivalStep DEF Serverside, sessionVars, Inv
<1>6. op \in Op
  BY DEF Asked
<1>7. PICK c : c = Arriving(op, sid, target, give, guess)
  OBVIOUS
<1>10. c.pc # "free" /\ c.op = op /\ c.sid = sid
  BY <1>7 DEF Arriving, Free
<1>8. call'[<<t, n>>] = c
  BY <1>3, <1>4, <1>7 DEF Inv, ServerInv, AccountsTyped
<1>9. \A u \in Tab, m \in Slot : <<u, m>> # <<t, n>> => call'[<<u, m>>] = call[<<u, m>>]
  BY <1>1, Calls
<1>. QED
  BY <1>1, <1>2, <1>5, <1>8, <1>9, <1>10 DEF Sent

LEMMA Submitting ==
    ASSUME Inv, NEW t \in Tab, NEW op, NEW target \in User \cup {None},
           NEW give \in Role \cup Password \cup {None}, NEW guess \in Password \cup {None},
           Asked(op, target, give, guess), Send(t, op, target, give, guess), Serverside,
           UNCHANGED clientVars, op # "me", route[t] # "blank"
    PROVE  Inv'
<1>1. ServerInv' /\ \E n \in Slot \ OnTheWay(t) : Sent(t, op, n)
  BY Sending DEF clientVars
<1>2. PICK n \in Slot \ OnTheWay(t) :
              /\ call'[<<t, n>>].pc # "free" /\ call'[<<t, n>>].op = op
              /\ \A u \in Tab, m \in Slot : <<u, m>> # <<t, n>> => call'[<<u, m>>] = call[<<u, m>>]
  BY <1>1 DEF Sent
<1>3. ClientTyped'
  BY DEF Inv, ClientInv, ClientTyped, clientVars
<1>4. ASSUME NEW u \in Tab, u # t PROVE TabInv(u)'
  BY <1>2, <1>4, Elsewhere DEF clientVars, Inv, ClientInv
<1>5. TabInv(t)'
  <2>1. TabInv(t) /\ fetched[t] /\ going[t] = None
    BY DEF Inv, ClientInv, ClientTyped, TabInv
  <2>2. Waiting(t)' \subseteq Waiting(t) \cup {n}
    BY <1>2 DEF Waiting, clientVars
  <2>3. \A m \in Waiting(t)' : call'[<<t, m>>].op # "me"
    BY <1>2, <2>1, <2>2 DEF TabInv, Waiting
  <2>4. route'[t] # "blank" /\ fetched'[t] /\ me'[t] = me[t] /\ cookie'[t] = cookie[t] /\ going'[t] = None
        /\ route'[t] = route[t]
    BY <2>1 DEF clientVars
  <2>. QED
    BY <2>1, <2>3, <2>4 DEF TabInv, Suits, isAdmin, isOperator
<1>. QED
  BY <1>1, <1>3, <1>4, <1>5 DEF Inv, ClientInv

LEMMA SubmitStep ==
    ASSUME Inv, NEW t \in Tab,
           \/ handleLogin(t) \/ handleLogout(t) \/ updateProfile(t) \/ changePassword(t)
           \/ loadDashboard(t) \/ loadUsers(t) \/ saveEditUser(t) \/ toggleSuspend(t)
           \/ resetPassword(t) \/ createUser(t)
    PROVE  Inv'
<1>a. form[t] # None => form[t].user \in User
  BY DEF Inv, ClientInv, ClientTyped
<1>1. ASSUME NEW page, NEW op, NEW target \in User \cup {None},
             NEW give \in Role \cup Password \cup {None}, NEW guess \in Password \cup {None},
             Submit(t, page, op, target, give, guess), page # "blank",
             op # "me", Asked(op, target, give, guess)
      PROVE  Inv'
  BY <1>1, Submitting DEF Submit
<1>2. CASE handleLogin(t)
  <2>1. PICK u \in User, p \in Password : Submit(t, "Login", "login", u, None, p)
    BY <1>2 DEF handleLogin
  <2>2. Asked("login", u, None, p)
    BY DEF Asked, Op, AdminOp
  <2>. QED
    BY <1>1, <2>1, <2>2
<1>3. CASE handleLogout(t)
  <2>1. Submit(t, route[t], "logout", None, None, None) /\ route[t] # "blank"
    BY <1>3 DEF handleLogout
  <2>2. Asked("logout", None, None, None)
    BY DEF Asked, Op, AdminOp, SelfOp
  <2>. QED
    BY <1>1, <2>1, <2>2
<1>4. CASE updateProfile(t)
  <2>1. Asked("updateMe", None, None, None)
    BY DEF Asked, Op, AdminOp, SelfOp
  <2>. QED
    BY <1>1, <1>4, <2>1 DEF updateProfile
<1>5. CASE changePassword(t)
  <2>1. PICK p \in Chosen, current \in Password : Submit(t, "Profile", "password", None, p, current)
    BY <1>5 DEF changePassword
  <2>2. p \in Password /\ Asked("password", None, p, current)
    BY FormsAssumption DEF Asked, Op, AdminOp, SelfOp
  <2>. QED
    BY <1>1, <2>1, <2>2
<1>6. CASE loadDashboard(t)
  <2>1. Asked("poll", None, None, None)
    BY DEF Asked, Op, AdminOp, SelfOp
  <2>. QED
    BY <1>6, <2>1, Submitting DEF loadDashboard
<1>7. CASE loadUsers(t)
  <2>1. Asked("users", None, None, None)
    BY DEF Asked, Op, AdminOp, SelfOp
  <2>. QED
    BY <1>7, <2>1, Submitting DEF loadUsers
<1>8. CASE saveEditUser(t)
  <2>1. PICK ro \in Granted : Submit(t, "Users", "updateUser", form[t].user, ro, None)
    BY <1>8 DEF saveEditUser
  <2>2. ro \in Role /\ form[t].user \in User
    BY <1>a, <1>8, FormsAssumption DEF saveEditUser
  <2>3. Asked("updateUser", form[t].user, ro, None)
    BY <2>2 DEF Asked, Op, AdminOp, SelfOp
  <2>. QED
    BY <1>1, <2>1, <2>2, <2>3
<1>9. CASE toggleSuspend(t)
  <2>1. PICK op \in {"suspend", "activate"} : Submit(t, "Users", op, form[t].user, None, None)
    BY <1>9 DEF toggleSuspend
  <2>2. form[t].user \in User
    BY <1>a, <1>9 DEF toggleSuspend
  <2>3. Asked(op, form[t].user, None, None)
    BY <2>2 DEF Asked, Op, AdminOp, SelfOp
  <2>. QED
    BY <1>1, <2>1, <2>2, <2>3
<1>10. CASE resetPassword(t)
  <2>1. PICK p \in Chosen : Submit(t, "Users", "reset", form[t].user, p, None)
    BY <1>10 DEF resetPassword
  <2>2. p \in Password /\ form[t].user \in User
    BY <1>a, <1>10, FormsAssumption DEF resetPassword
  <2>3. Asked("reset", form[t].user, p, None)
    BY <2>2 DEF Asked, Op, AdminOp, SelfOp
  <2>. QED
    BY <1>1, <2>1, <2>2, <2>3
<1>11. CASE createUser(t)
  <2>1. PICK u \in User, ro \in Granted : Submit(t, "Users", "create", u, ro, FirstPassword)
    BY <1>11 DEF createUser
  <2>2. ro \in Role /\ FirstPassword \in Password
    BY FormsAssumption, FirstAssumption
  <2>3. Asked("create", u, ro, FirstPassword)
    BY <2>2 DEF Asked, Op, AdminOp, SelfOp
  <2>. QED
    BY <1>1, <2>1, <2>2, <2>3
<1>. QED
  BY <1>2, <1>3, <1>4, <1>5, <1>6, <1>7, <1>8, <1>9, <1>10, <1>11

\* The first navigation asks who the user is, and waits for nothing else.
LEMMA OpenStep ==
    ASSUME Inv, NEW t \in Tab, NEW to \in Page, Open(t, to)
    PROVE  Inv'
<1>1. Asked("me", None, None, None)
  BY DEF Asked, Op, AdminOp, SelfOp
<1>2. ServerInv' /\ \E n \in Slot \ OnTheWay(t) : Sent(t, "me", n)
  BY <1>1, Sending DEF Open
<1>3. PICK n \in Slot \ OnTheWay(t) :
              /\ call'[<<t, n>>].pc # "free" /\ call'[<<t, n>>].op = "me"
              /\ call'[<<t, n>>].sid = cookie[t]
              /\ \A u \in Tab, m \in Slot : <<u, m>> # <<t, n>> => call'[<<u, m>>] = call[<<u, m>>]
  BY <1>2 DEF Sent
<1>4. ClientTyped'
  BY DEF Open, Inv, ClientInv, ClientTyped
<1>5. ASSUME NEW u \in Tab, u # t PROVE TabInv(u)'
  <2>1. /\ cookie'[u] = cookie[u] /\ me'[u] = me[u] /\ route'[u] = route[u]
        /\ going'[u] = going[u] /\ fetched'[u] = fetched[u] /\ dropped' = dropped /\ TabInv(u)
    BY <1>5 DEF Open, Inv, ClientInv, ClientTyped
  <2>. QED
    BY <1>3, <1>5, <2>1, Elsewhere
<1>6. TabInv(t)'
  <2>1. TabInv(t) /\ ~fetched[t] /\ route[t] = "blank"
    BY DEF Open, Inv, ClientInv
  <2>2. Waiting(t) = {} /\ me[t] = None
    BY <2>1 DEF TabInv
  <2>3. Waiting(t)' \subseteq {n}
    BY <1>3, <2>2 DEF Waiting, Open
  <2>4. /\ route'[t] = "blank" /\ fetched'[t] /\ me'[t] = None /\ cookie'[t] = cookie[t]
        /\ going'[t] = to /\ to # None
    BY <2>1, <2>2, FormsAssumption DEF Open, Inv, ClientInv, ClientTyped
  <2>. QED
    BY <1>3, <2>3, <2>4 DEF TabInv, Suits
<1>. QED
  BY <1>2, <1>4, <1>5, <1>6 DEF Inv, ClientInv

\* A later navigation and a reload send nothing.
LEMMA RouteStep ==
    ASSUME Inv, NEW t \in Tab, (\E to \in Page : Navigate(t, to)) \/ Reload(t) \/ openEditUser(t)
    PROVE  Inv'
<1>1. UNCHANGED call /\ Serverside /\ cookie' = cookie
  BY DEF Navigate, Reload, openEditUser
<1>2. ServerInv'
  BY <1>1, ServerStutters DEF Inv, Serverside, sessionVars
<1>3. CASE \E to \in Page : Navigate(t, to)
  <2>1. PICK to \in Page : Navigate(t, to)
    BY <1>3
  <2>2. PICK page \in Page : page = Resolve(to, me[t]) /\ page # "blank" /\ Suits(page, me[t])
    BY ResolveIs
  <2>3. /\ route' = [route EXCEPT ![t] = page] /\ going' = [going EXCEPT ![t] = None]
        /\ me' = me /\ fetched' = fetched /\ dropped' = dropped /\ route[t] # "blank"
    BY <2>1, <2>2 DEF Navigate, Mounted
  <2>4. ClientTyped'
    BY <1>1, <2>1, <2>3 DEF Navigate, Inv, ClientInv, ClientTyped, Seen
  <2>5. ASSUME NEW u \in Tab, u # t PROVE TabInv(u)'
    <3>1. route'[u] = route[u] /\ going'[u] = going[u] /\ TabInv(u)
      BY <2>3, <2>5 DEF Inv, ClientInv, ClientTyped
    <3>. QED
      BY <1>1, <2>3, <2>5, <3>1, Elsewhere
  <2>6. TabInv(t)'
    <3>1. TabInv(t) /\ fetched[t] /\ going[t] = None
      BY <2>3 DEF Inv, ClientInv, ClientTyped, TabInv
    <3>2. Waiting(t)' = Waiting(t)
      BY <1>1, <2>3 DEF Waiting
    <3>3. route'[t] = page /\ going'[t] = None
      BY <2>3 DEF Inv, ClientInv, ClientTyped
    <3>. QED
      BY <1>1, <2>2, <2>3, <3>1, <3>2, <3>3 DEF TabInv, Suits, isAdmin, isOperator
  <2>. QED
    BY <1>2, <2>4, <2>5, <2>6 DEF Inv, ClientInv
<1>4. CASE Reload(t)
  <2>1. ClientTyped'
    BY <1>1, <1>4 DEF Reload, Inv, ClientInv, ClientTyped, Seen
  <2>2. ASSUME NEW u \in Tab, u # t PROVE TabInv(u)'
    <3>1. /\ route'[u] = route[u] /\ going'[u] = going[u] /\ me'[u] = me[u]
          /\ fetched'[u] = fetched[u] /\ TabInv(u)
          /\ \A n \in Slot : <<u, n>> \in dropped' <=> <<u, n>> \in dropped
      BY <1>4, <2>2 DEF Reload, Inv, ClientInv, ClientTyped
    <3>. QED
      BY <1>1, <3>1, Elsewhere
  <2>3. TabInv(t)'
    <3>1. Waiting(t)' = {}
      BY <1>1, <1>4 DEF Reload, Waiting, OnTheWay
    <3>2. route'[t] = "blank" /\ going'[t] = None /\ me'[t] = None /\ ~fetched'[t]
      BY <1>4 DEF Reload, Inv, ClientInv, ClientTyped
    <3>. QED
      BY <3>1, <3>2 DEF TabInv, Suits
  <2>. QED
    BY <1>2, <2>1, <2>2, <2>3 DEF Inv, ClientInv
<1>5. CASE openEditUser(t)
  <2>1. PICK u \in User : form' = [form EXCEPT ![t] = [user |-> u, suspend |-> list[t][u].status = "active"]]
    BY <1>5 DEF openEditUser
  <2>2. PICK suspend \in BOOLEAN : suspend = (list[t][u].status = "active")
    BY Zenon
  <2>3. form' \in [Tab -> [user : User, suspend : BOOLEAN] \cup {None}]
    BY <2>1, <2>2 DEF Inv, ClientInv, ClientTyped
  <2>4. ClientTyped'
    BY <1>5, <2>3 DEF openEditUser, Inv, ClientInv, ClientTyped
  <2>5. ASSUME NEW v \in Tab PROVE TabInv(v)'
    BY <1>5, <2>5, Elsewhere DEF openEditUser, Inv, ClientInv
  <2>. QED
    BY <1>2, <2>4, <2>5 DEF Inv, ClientInv
<1>. QED
  BY <1>3, <1>4, <1>5

\* The answer comes: whoever is then in the store has a cookie, and the page suits them.
LEMMA DeliverStep ==
    ASSUME Inv, NEW t \in Tab, NEW n \in Slot, NEW code \in {call[<<t, n>>].code, 0},
           call[<<t, n>>].pc = "answered", <<t, n>> \notin dropped, Deliver(t, n, code)
    PROVE  Inv'
<1>. DEFINE r == <<t, n>>
<1>a. /\ r \in Request /\ call[r] \in Call /\ call \in [Request -> Call] /\ AnswerFits(r) /\ TabInv(t)
      /\ \A u \in Tab, m \in Slot : <<u, m>> \in Request
  BY Calls DEF Inv, ServerInv, ClientInv, Fits
<1>b. code \in Nat
  BY <1>a DEF Call
<1>1. PICK c \in Call : c = [call[r] EXCEPT !.code = code]
  BY <1>a, <1>b DEF Call
<1>2. /\ c.code = code /\ c.op = call[r].op /\ c.sid = call[r].sid /\ c.user = call[r].user
      /\ c.target = call[r].target /\ c.seen = call[r].seen
  BY <1>a, <1>1 DEF Call
<1>3. PICK user : user = UserAfter(t, c)
  OBVIOUS
<1>4. PICK page : page = IF Destination(t, c) = route[t] THEN route[t] ELSE Resolve(Destination(t, c), user)
  OBVIOUS
<1>5. /\ me' = [me EXCEPT ![t] = user]
      /\ route' = [route EXCEPT ![t] = page]
      /\ going' = [going EXCEPT ![t] = IF page = route[t] THEN @ ELSE None]
      /\ cookie' = [cookie EXCEPT ![t] =
             IF code # 200 THEN @ ELSE IF c.op = "login" THEN c.sid
             ELSE IF c.op = "logout" THEN None ELSE @]
      /\ list' = [list EXCEPT ![t] =
             IF page # "Users" THEN None
             ELSE IF c.op = "users" /\ code = 200 THEN c.seen ELSE @]
      /\ form' = [form EXCEPT ![t] = IF page # "Users" \/ Closes(c) THEN None ELSE @]
      /\ call' = [call EXCEPT ![r] =
             IF Follows(c) THEN Arriving("users", cookie[t], None, None, None) ELSE Free]
      /\ UNCHANGED <<accountVars, sessionVars, record, raced, fetched, dropped>>
  BY <1>1, <1>3, <1>4 DEF Deliver
<1>6. n \in Waiting(t) /\ fetched[t]
  BY <1>a DEF Waiting, TabInv, Inv, ClientInv, ClientTyped
<1>7. code = 200 =>
          /\ c.sid \in Sid
          /\ c.op = "login" => c.target \in User /\ c.seen \in Row
          /\ c.op = "me" => c.user \in User /\ c.seen \in Row
  BY <1>a, <1>2 DEF AnswerFits
<1>8. user \in Profile \cup {None}
  <2>1. \A u \in User, seen \in Row : [id |-> u, role |-> seen.role] \in Profile
    BY DEF Profile, Row
  <2>2. me[t] \in Profile \cup {None}
    BY DEF Inv, ClientInv, ClientTyped
  <2>. QED
    BY <1>2, <1>3, <1>7, <2>1, <2>2 DEF UserAfter
<1>9. None \notin Profile /\ None \notin Page /\ "blank" \notin Page /\ None \notin Sid
  BY FormsAssumption, NoneAssumption DEF Profile, Page
<1>10. /\ cookie[t] \in Sid \cup {None} /\ route[t] \in Page \cup {"blank"} /\ going[t] \in Page \cup {None}
       /\ cookie'[t] = IF code # 200 THEN cookie[t] ELSE IF c.op = "login" THEN c.sid
                       ELSE IF c.op = "logout" THEN None ELSE cookie[t]
       /\ going'[t] = IF page = route[t] THEN going[t] ELSE None
       /\ route'[t] = page /\ me'[t] = user
  BY <1>5 DEF Inv, ClientInv, ClientTyped
<1>11. /\ page \in Page /\ Suits(page, user) /\ going'[t] = None
       /\ user # None => cookie'[t] # None
       /\ \A m \in Waiting(t) : m # n => call[<<t, m>>].op # "me"
  <2>1. CASE route[t] = "blank"
    <3>1. c.op = "me" /\ c.sid = cookie[t] /\ going[t] # None
      BY <1>a, <1>2, <1>6, <2>1 DEF TabInv
    <3>2. Destination(t, c) = going[t] /\ going[t] \in Page
      BY <1>10, <3>1 DEF Destination, Evicts
    <3>3. page = Resolve(going[t], user) /\ page \in Page /\ Suits(page, user)
      BY <1>4, <1>9, <2>1, <3>2, ResolveIs
    <3>4. going'[t] = None
      BY <1>9, <1>10, <2>1, <3>3
    <3>5. user # None => cookie'[t] # None
      <4>1. user # None => code = 200
        BY <1>2, <1>3, <3>1 DEF UserAfter, Evicts
      <4>. QED
        BY <1>7, <1>9, <1>10, <3>1, <4>1
    <3>6. \A m \in Waiting(t) : m # n => call[<<t, m>>].op # "me"
      BY <1>a, <1>6 DEF TabInv
    <3>. QED
      BY <3>3, <3>4, <3>5, <3>6
  <2>2. CASE route[t] # "blank"
    <3>1. c.op # "me" /\ going[t] = None /\ route[t] \in Page
      BY <1>a, <1>2, <1>6, <1>10, <2>2 DEF TabInv
    <3>2. going'[t] = None
      BY <1>10, <3>1
    <3>3. \A m \in Waiting(t) : call[<<t, m>>].op # "me"
      BY <1>a, <2>2 DEF TabInv
    <3>4. CASE c.op = "login" /\ code = 200
      <4>1. user \in Profile /\ Destination(t, c) = "Dashboard" /\ "Dashboard" \in Page
        <5>1. [id |-> c.target, role |-> c.seen.role] \in Profile
          BY <1>7, <3>4 DEF Profile, Row
        <5>. QED
          BY <1>2, <1>3, <3>4, <5>1 DEF UserAfter, Destination, Page
      <4>2. page \in Page /\ Suits(page, user)
        <5>1. CASE route[t] = "Dashboard"
          BY <1>4, <1>9, <4>1, <5>1 DEF Suits, RequiresAdmin, RequiresOperator
        <5>2. CASE route[t] # "Dashboard"
          BY <1>4, <4>1, <5>2, ResolveIs
        <5>. QED
          BY <5>1, <5>2
      <4>3. cookie'[t] # None
        BY <1>7, <1>9, <1>10, <3>4
      <4>. QED
        BY <3>2, <3>3, <4>2, <4>3
    <3>5. CASE ~(c.op = "login" /\ code = 200) /\ (c.op = "logout" \/ Evicts(c))
      <4>1. user = None /\ Destination(t, c) = "Login" /\ "Login" \in Page
        BY <1>2, <1>3, <3>1, <3>5 DEF UserAfter, Destination, Page
      <4>2. page \in Page /\ Suits(page, user)
        <5>1. CASE route[t] = "Login"
          BY <1>4, <4>1, <5>1 DEF Suits, Public
        <5>2. CASE route[t] # "Login"
          BY <1>4, <4>1, <5>2, ResolveIs
        <5>. QED
          BY <5>1, <5>2
      <4>. QED
        BY <3>2, <3>3, <4>1, <4>2
    <3>6. CASE ~(c.op = "login" /\ code = 200) /\ c.op # "logout" /\ ~Evicts(c)
      <4>1. user = me[t] /\ Destination(t, c) = route[t]
        BY <1>2, <1>3, <3>1, <3>6 DEF UserAfter, Destination
      <4>2. page = route[t] /\ cookie'[t] = cookie[t]
        BY <1>4, <1>10, <3>6, <4>1
      <4>. QED
        BY <1>a, <3>1, <3>2, <3>3, <4>1, <4>2 DEF TabInv
    <3>. QED
      BY <3>4, <3>5, <3>6
  <2>. QED
    BY <2>1, <2>2
<1>12. ServerInv'
  <2>1. CASE Follows(c)
    <3>1. Asked("users", None, None, None)
      BY DEF Asked, Op, AdminOp
    <3>2. call' = [call EXCEPT ![r] = Arriving("users", cookie[t], None, None, None)]
      BY <1>5, <2>1
    <3>3. UNCHANGED <<accountVars, owner, opened, issued, late, spared, raced>> /\ ServerInv
      BY <1>5 DEF sessionVars, Inv
    <3>4. cookie[t] \in Sid \cup {None} /\ r \in Request /\ call[r].pc \in {"free", "answered"}
      BY <1>a, <1>10
    <3>. HIDE DEF r
    <3>. QED
      BY <3>1, <3>2, <3>3, <3>4, ArrivalStep
  <2>2. CASE ~Follows(c)
    BY <1>a, <1>5, <2>2, TakeStep DEF sessionVars, Inv
  <2>. QED
    BY <2>1, <2>2
<1>13. ClientTyped'
  <2>1. c.seen \in Seen
    BY DEF Call
  <2>2. /\ cookie' \in [Tab -> Sid \cup {None}] /\ me' \in [Tab -> Profile \cup {None}]
        /\ route' \in [Tab -> Page \cup {"blank"}] /\ going' \in [Tab -> Page \cup {None}]
        /\ fetched' \in [Tab -> BOOLEAN]
    BY <1>5, <1>7, <1>8, <1>11 DEF Inv, ClientInv, ClientTyped
  <2>3. list' \in [Tab -> Seen]
    BY <1>5, <2>1 DEF Inv, ClientInv, ClientTyped, Seen
  <2>4. form' \in [Tab -> [user : User, suspend : BOOLEAN] \cup {None}]
    BY <1>5 DEF Inv, ClientInv, ClientTyped
  <2>. QED
    BY <2>2, <2>3, <2>4 DEF ClientTyped
<1>14. \A u \in Tab, m \in Slot : <<u, m>> # r => call'[<<u, m>>] = call[<<u, m>>]
  BY <1>a, <1>5
<1>15. ASSUME NEW u \in Tab, u # t PROVE TabInv(u)'
  <2>1. /\ cookie'[u] = cookie[u] /\ me'[u] = me[u] /\ route'[u] = route[u]
        /\ going'[u] = going[u] /\ fetched' = fetched /\ dropped' = dropped /\ TabInv(u)
    BY <1>5, <1>15 DEF Inv, ClientInv, ClientTyped
  <2>. QED
    BY <1>14, <1>15, <2>1, Elsewhere
<1>16. TabInv(t)'
  <2>1. call'[r].pc = "free" \/ call'[r].op = "users"
    BY <1>a, <1>5 DEF Arriving, Free
  <2>2. \A m \in Waiting(t)' : call'[<<t, m>>].op # "me"
    <3>. SUFFICES ASSUME NEW m \in Slot, call'[<<t, m>>].pc # "free", <<t, m>> \notin dropped
                  PROVE  call'[<<t, m>>].op # "me"
      BY <1>5 DEF Waiting
    <3>. QED
      BY <1>11, <1>14, <2>1 DEF Waiting
  <2>3. route'[t] # "blank" /\ fetched'[t] /\ me'[t] = user /\ Suits(route'[t], me'[t])
    BY <1>5, <1>6, <1>9, <1>10, <1>11
  <2>. QED
    BY <1>11, <2>2, <2>3 DEF TabInv, Suits, isAdmin, isOperator
<1>. QED
  BY <1>12, <1>13, <1>15, <1>16 DEF Inv, ClientInv

LEMMA DropStep ==
    ASSUME Inv, NEW t \in Tab, NEW n \in Slot, Drop(t, n)
    PROVE  Inv'
<1>1. ServerInv'
  BY Calls, TakeStep DEF Drop, Serverside, sessionVars, Inv
<1>2. ClientTyped'
  BY DEF Drop, Inv, ClientInv, ClientTyped
<1>3. \A u \in Tab, m \in Slot : <<u, m>> # <<t, n>> =>
         call'[<<u, m>>] = call[<<u, m>>] /\ (<<u, m>> \in dropped' <=> <<u, m>> \in dropped)
  BY Calls DEF Drop
<1>4. ASSUME NEW u \in Tab, u # t PROVE TabInv(u)'
  <2>1. /\ cookie'[u] = cookie[u] /\ me'[u] = me[u] /\ route'[u] = route[u]
        /\ going'[u] = going[u] /\ fetched'[u] = fetched[u] /\ TabInv(u)
    BY DEF Drop, Inv, ClientInv
  <2>. QED
    BY <1>3, <1>4, <2>1, Elsewhere
<1>5. TabInv(t)'
  <2>1. /\ cookie'[t] = cookie[t] /\ me'[t] = me[t] /\ route'[t] = route[t]
        /\ going'[t] = going[t] /\ fetched'[t] = fetched[t] /\ TabInv(t)
    BY DEF Drop, Inv, ClientInv
  <2>2. call'[<<t, n>>].pc = "free" /\ <<t, n>> \in dropped
    BY Calls DEF Drop, Free
  <2>3. Waiting(t)' = Waiting(t) /\ n \notin Waiting(t)
    BY <1>3, <2>2 DEF Waiting
  <2>4. \A m \in Waiting(t) : call'[<<t, m>>] = call[<<t, m>>]
    BY <1>3, <2>3 DEF Waiting
  <2>. QED
    BY <2>1, <2>3, <2>4 DEF TabInv, Suits, isAdmin, isOperator
<1>. QED
  BY <1>1, <1>2, <1>4, <1>5 DEF Inv, ClientInv

\* The server goes on, and the client does not know.
LEMMA BehindStep ==
    ASSUME Inv, Passing \/ \E r \in Request : Serve(r), UNCHANGED clientVars
    PROVE  Inv'
<1>1. ServerInv'
  BY PassingStep, ServeStep DEF Inv
<1>2. ClientTyped'
  BY DEF Inv, ClientInv, ClientTyped, clientVars
<1>3. ASSUME NEW u \in Tab PROVE TabInv(u)'
  <2>1. \A n \in Slot :
           /\ call'[<<u, n>>].pc = "free" <=> call[<<u, n>>].pc = "free"
           /\ call'[<<u, n>>].op = call[<<u, n>>].op
           /\ call[<<u, n>>].op = "me" => call'[<<u, n>>].sid = call[<<u, n>>].sid
    BY Calls, ServeKeepsCalls DEF Inv
  <2>. QED
    BY <2>1, Elsewhere DEF clientVars, Inv, ClientInv
<1>. QED
  BY <1>1, <1>2, <1>3 DEF Inv, ClientInv

LEMMA ClientStarts == Init => Inv
<1>. SUFFICES ASSUME Init PROVE Inv
  OBVIOUS
<1>1. ServerInv
  BY ServerStarts DEF Init
<1>2. ClientTyped
  BY CookieAssumption DEF Init, ClientTyped, Seen
<1>3. \A t \in Tab : Waiting(t) = {}
  BY RequestAssumption DEF Init, AccountsInit, Waiting, Free
<1>4. \A t \in Tab : TabInv(t)
  BY <1>3 DEF Init, TabInv, Suits
<1>. QED
  BY <1>1, <1>2, <1>4 DEF Inv, ClientInv

LEMMA ClientKeeps == Spec => []Inv
<1>1. Inv /\ [Next]_vars => Inv'
  <2>. SUFFICES ASSUME Inv, [Next]_vars PROVE Inv'
    OBVIOUS
  <2>1. CASE Passing /\ UNCHANGED <<clientVars, actions>>
    BY <2>1, BehindStep
  <2>2. CASE \E r \in Request : Serve(r) /\ UNCHANGED <<clientVars, actions>>
    BY <2>2, BehindStep
  <2>3. ASSUME NEW t \in Tab, Client(t) PROVE Inv'
    <3>1. ASSUME NEW to \in Visited[t], Open(t, to) \/ Navigate(t, to) PROVE Inv'
      <4>1. to \in Page
        BY FormsAssumption
      <4>. QED
        BY <3>1, <4>1, OpenStep, RouteStep
    <3>2. CASE Reload(t) \/ openEditUser(t)
      BY <3>2, RouteStep
    <3>3. CASE \/ handleLogin(t) \/ handleLogout(t) \/ updateProfile(t) \/ changePassword(t)
               \/ loadDashboard(t) \/ loadUsers(t) \/ saveEditUser(t) \/ toggleSuspend(t)
               \/ resetPassword(t) \/ createUser(t)
      BY <3>3, SubmitStep
    <3>4. ASSUME NEW n \in Slot, Arrive(t, n) \/ LoseAnswer(t, n) PROVE Inv'
      BY <3>4, DeliverStep DEF Arrive, LoseAnswer
    <3>5. ASSUME NEW n \in Slot, Drop(t, n) PROVE Inv'
      BY <3>5, DropStep
    <3>. QED
      BY <2>3, <3>1, <3>2, <3>3, <3>4, <3>5 DEF Client
  <2>4. CASE UNCHANGED vars
    <3>1. UNCHANGED clientVars /\ UNCHANGED <<accountVars, owner, opened, issued, late, spared, raced, call>>
      BY <2>4 DEF vars, accountsVars, sessionVars
    <3>2. ServerInv'
      BY <3>1, ServerStutters DEF Inv
    <3>3. ClientTyped'
      BY <3>1 DEF Inv, ClientInv, ClientTyped, clientVars
    <3>4. \A u \in Tab : TabInv(u)'
      BY <3>1, Elsewhere DEF Inv, ClientInv, clientVars
    <3>. QED
      BY <3>2, <3>3, <3>4 DEF Inv, ClientInv
  <2>. QED
    BY <2>1, <2>2, <2>3, <2>4 DEF Next
<1>. QED
  BY <1>1, ClientStarts, PTL DEF Spec

\* For any browsers, accounts and requests on the way: a page that is not public is shown only
\* to a user who is in the store and holds a cookie, and whose role the page asks for; the
\* guard (router/index.js), the interceptor (api/index.js) and the store (stores/auth.js) see
\* to it together, whatever order the answers come in.
THEOREM OnlyShownToUser == Spec => []ShownToUser
<1>1. Inv => ShownToUser
  BY DEF Inv, ClientInv, TabInv, Suits, ShownToUser
<1>. QED
  BY <1>1, ClientKeeps, PTL

\* With the web client's requests, an active administrator remains unless a write goes ahead on
\* what another write has overtaken.
THEOREM AdminOfSystem == Spec => []AdminUnlessOvertaken
<1>1. Inv => AdminUnlessOvertaken
  BY DEF Inv, ServerInv
<1>. QED
  BY <1>1, ClientKeeps, PTL

\* And a suspension, a reset or a change of password made in the web client ends the sessions
\* there were.
THEOREM RevocationOfSystem == Spec => []RevocationEndsSessions
<1>1. Inv => RevocationEndsSessions
  BY DEF Inv, ServerInv
<1>. QED
  BY <1>1, ClientKeeps, PTL
===============================================================================
