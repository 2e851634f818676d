------------------------------- MODULE TokenPanel -------------------------------
(***************************************************************************)
(* The API tokens made on the settings page.  The server keeps a hash; the *)
(* plaintext is in the answer to the request that made the token, and on   *)
(* the page until the user dismisses it.  Requests are not numbered, and   *)
(* the form's button stays on until an answer.                             *)
(***************************************************************************)
EXTENDS Naturals

CONSTANTS
    TokenName,
    Post,           \* places for requests to make a token
    MaxTokens,      \* bound: tokens
    NoToken

ASSUME TokenAssumption == NoToken \notin TokenName \cup [name : TokenName, number : Nat]

VARIABLES
    rows,       \* tokens on the server, with a number each
    revoked,    \* those with revoked_at
    made,       \* number of tokens made
    post,       \* requests to make a token
    showCreate, \* apiTokenShowCreate: the form is open
    plaintext,  \* apiTokenJustCreated
    dismissed,  \* history: tokens whose plaintext the user has dismissed
    leftBehind, \* names in requests whose page was left before the server had them
    unseen      \* history: names whose answer was lost, left behind or crossed another's

tokenVars == <<rows, revoked, made, post, showCreate, plaintext, dismissed, unseen, leftBehind>>

NoPost == [pc |-> "none", name |-> NoToken, row |-> NoToken]

TokensInit ==
    /\ rows = {} /\ revoked = {} /\ made = 0
    /\ post = [p \in Post |-> NoPost]
    /\ showCreate = FALSE /\ plaintext = NoToken
    /\ dismissed = {} /\ unseen = {} /\ leftBehind = {}

\* There is no form while a plaintext is shown.
ShowCreate ==
    /\ plaintext = NoToken
    /\ showCreate' = ~showCreate
    /\ UNCHANGED <<rows, revoked, made, post, plaintext, dismissed, unseen, leftBehind>>

createAPIToken(p, n) ==
    /\ plaintext = NoToken /\ showCreate
    /\ post[p] = NoPost
    /\ post' = [post EXCEPT ![p] = [pc |-> "sent", name |-> n, row |-> NoToken]]
    /\ LET others == {post[q].name : q \in Post} \ {n, NoToken}
       IN unseen' = IF others = {} THEN unseen ELSE unseen \cup others \cup {n}
    /\ UNCHANGED <<rows, revoked, made, showCreate, plaintext, dismissed, leftBehind>>

\* Names are not looked at.
FreeNameAny(n) == made < MaxTokens

\* Names are unique, those of revoked tokens too.
FreeName(n) == made < MaxTokens /\ \A r \in rows : r.name # n

CreateAPIToken(p) ==
    LET row == [name |-> post[p].name, number |-> made + 1] IN
    /\ post[p].pc = "sent"
    /\ FreeName(row.name)
    /\ rows' = rows \cup {row} /\ made' = made + 1
    /\ post' = [post EXCEPT ![p].pc = "answered", ![p].row = row]
    /\ UNCHANGED <<revoked, showCreate, plaintext, dismissed, unseen, leftBehind>>

TokenRefused(p) ==
    /\ post[p].pc = "sent"
    /\ post' = [post EXCEPT ![p] = NoPost]
    /\ UNCHANGED <<rows, revoked, made, showCreate, plaintext, dismissed, unseen, leftBehind>>

TokenAnswered(p) ==
    /\ post[p].pc = "answered"
    /\ plaintext' = post[p].row /\ showCreate' = FALSE
    /\ post' = [post EXCEPT ![p] = NoPost]
    /\ UNCHANGED <<rows, revoked, made, dismissed, unseen, leftBehind>>

AnswerLost(p) ==
    /\ post[p].pc = "answered"
    /\ unseen' = unseen \cup {post[p].name}
    /\ post' = [post EXCEPT ![p] = NoPost]
    /\ UNCHANGED <<rows, revoked, made, showCreate, plaintext, dismissed, leftBehind>>

dismissJustCreatedToken ==
    /\ plaintext # NoToken
    /\ dismissed' = dismissed \cup {plaintext}
    /\ plaintext' = NoToken
    /\ UNCHANGED <<rows, revoked, made, post, showCreate, unseen, leftBehind>>

\* The table is hidden with the form.
revokeAPIToken(r) ==
    /\ plaintext = NoToken
    /\ revoked' = revoked \cup {r}
    /\ UNCHANGED <<rows, made, post, showCreate, plaintext, dismissed, unseen, leftBehind>>

\* The settings page is left: what has not been dismissed is not shown again, and the
\* answers to the requests on the way reach nobody.
LeaveTokens ==
    /\ plaintext' = NoToken /\ showCreate' = FALSE
    /\ post' = [p \in Post |-> NoPost]
    /\ leftBehind' = leftBehind \cup {post[p].name : p \in {q \in Post : post[q].pc = "sent"}}
    /\ unseen' = unseen \cup {post[p].name : p \in Post}
                        \cup (IF plaintext = NoToken THEN {} ELSE {plaintext.name})
    /\ UNCHANGED <<rows, revoked, made, dismissed>>

\* The server makes the token of such a request, or refuses to.
CreateLeftBehind(n) ==
    /\ n \in leftBehind /\ leftBehind' = leftBehind \ {n}
    /\ \/ /\ FreeName(n)
          /\ rows' = rows \cup {[name |-> n, number |-> made + 1]} /\ made' = made + 1
       \/ UNCHANGED <<rows, made>>
    /\ UNCHANGED <<revoked, post, showCreate, plaintext, dismissed, unseen>>
-----------------------------------------------------------------------------
TokensNext ==
    \/ ShowCreate \/ dismissJustCreatedToken \/ LeaveTokens
    \/ \E p \in Post :
          \/ CreateAPIToken(p) \/ TokenRefused(p) \/ TokenAnswered(p) \/ AnswerLost(p)
          \/ \E n \in TokenName : createAPIToken(p, n)
    \/ \E r \in rows \ revoked : revokeAPIToken(r)
    \/ \E n \in leftBehind : CreateLeftBehind(n)

TokensSpec == TokensInit /\ [][TokensNext]_tokenVars
-----------------------------------------------------------------------------
(* Properties. *)

\* No token works that nobody can know: its plaintext stays on the page until the user
\* dismisses it, also when the form is sent twice, unless its answer was lost, the page
\* was left or two names were sent at a time.
PlaintextSeen ==
    \A r \in rows \ revoked :
        \/ r = plaintext \/ r \in dismissed \/ r.name \in unseen
        \/ \E p \in Post : post[p].row = r

===============================================================================
