----------------------------- MODULE SettingsProofs -----------------------------
(***************************************************************************)
(* Proofs about the settings page: the polling of the fail2ban tab, the    *)
(* plaintexts of API tokens, the forms of the settings, the list of the    *)
(* saved backups and the categories.  The parts share no state, and each   *)
(* has an inductive invariant of its own.                                  *)
(***************************************************************************)
EXTENDS SettingsForms, TagOptions, SavedBackups, SettingsPanels, TokenPanel,
        FiniteSetTheorems, TLAPS
-----------------------------------------------------------------------------
(* The fail2ban tab. *)

\* The interval that runs is the one the page holds, also after the page was left and
\* opened again: leaving stops it, and a new page holds none.
OneInterval ==
    /\ mounted \in BOOLEAN /\ f2bTimer \in BOOLEAN /\ mixed \in BOOLEAN
    /\ f2bTimer <=> mounted /\ tab = "fail2ban"
    /\ intervals = IF f2bTimer THEN 1 ELSE 0

\* Unless two lists were on the way at once, only the open list can still be answered.
OpenListAsked ==
    /\ mixed \/ detailView = None \/ detailAsked \subseteq {detailView}
    /\ mixed \/ detailView = None \/ detailData \in {detailView, None}

PanelsInv == OneInterval /\ OpenListAsked
LEMMA PanelsInvFirst == PanelsInit => PanelsInv
BY DEF PanelsInit, PanelsInv, OneInterval, OpenListAsked

LEMMA PanelsInvStays == PanelsInv /\ [PanelsNext]_panelVars => PanelsInv'
<1> SUFFICES ASSUME PanelsInv, [PanelsNext]_panelVars PROVE PanelsInv'
    OBVIOUS
<1> USE DEF PanelsInv, OneInterval, OpenListAsked
<1>1. CASE UNCHANGED panelVars
    BY <1>1 DEF panelVars, f2bVars
<1>2. CASE Leave
    <2>1. mounted' = FALSE /\ f2bTimer' = FALSE /\ mixed' = FALSE /\ detailView' = None
        BY <1>2 DEF Leave, stopF2BPolling
    <2>2. intervals' = 0
        BY <1>2 DEF Leave, stopF2BPolling
    <2> QED
        BY <2>1, <2>2
<1>3. CASE Enter
    BY <1>3 DEF Enter
<1>4. CASE loadFail2Ban
    BY <1>4 DEF loadFail2Ban
<1>5. CASE CloseDetail
    BY <1>5 DEF CloseDetail
<1>6. ASSUME NEW from, NEW to, RestoreStep(from, to) PROVE PanelsInv'
    BY <1>6 DEF RestoreStep, f2bVars
<1>7. CASE onFileSelected \/ confirmRestore \/ CancelRestore \/ executeRestore \/ RestoreFails
    BY <1>6, <1>7 DEF onFileSelected, confirmRestore, CancelRestore, executeRestore, RestoreFails
<1>8. CASE Restored
    BY <1>2, <1>8 DEF Restored
<1>9. ASSUME NEW t \in Tabs, setTab(t) PROVE PanelsInv'
    <2>1. CASE t = "fail2ban"
        BY <1>9, <2>1 DEF setTab, startF2BPolling
    <2>2. CASE t # "fail2ban"
        <3>1. mounted' = mounted /\ tab' = t /\ f2bTimer' = FALSE /\ mixed' = mixed
              /\ detailView' = detailView /\ detailAsked' = detailAsked /\ detailData' = detailData
            BY <1>9, <2>2 DEF setTab, stopF2BPolling
        <3>2. intervals' = 0
            BY <1>9, <2>2 DEF setTab, stopF2BPolling
        <3> QED
            BY <2>2, <3>1, <3>2
    <2> QED
        BY <2>1, <2>2
<1>10. ASSUME NEW d \in Detail, toggleF2BDetail(d) PROVE PanelsInv'
    BY <1>10 DEF toggleF2BDetail
<1>11. ASSUME NEW d \in Detail, DetailAnswered(d) PROVE PanelsInv'
    BY <1>11 DEF DetailAnswered
<1> QED
    BY <1>1, <1>2, <1>3, <1>4, <1>5, <1>7, <1>8, <1>9, <1>10, <1>11 DEF PanelsNext

\* fail2ban is polled by one interval while its tab is open and by none otherwise, and the
\* rows shown are those of the open list, for any lists and however often pages are opened.
THEOREM PollingHolds == PanelsSpec => []PanelsHold
<1>1. PanelsInv => PanelsHold
    BY DEF PanelsInv, OneInterval, OpenListAsked, PanelsHold
<1> QED
    BY <1>1, PanelsInvFirst, PanelsInvStays, PTL DEF PanelsSpec
-----------------------------------------------------------------------------
(* The tokens made on the page. *)

Token == [name : TokenName, number : Nat]
PostRecord == [pc : {"none", "sent", "answered"}, name : TokenName \cup {NoToken},
               row : Token \cup {NoToken}]

\* An answer carries a row of its request's name.
PostFits(p) ==
    /\ post[p] \in PostRecord
    /\ post[p].pc = "none" => post[p] = NoPost
    /\ post[p].pc = "sent" => post[p].name \in TokenName /\ post[p].row = NoToken
    /\ post[p].pc = "answered" => post[p].row \in rows /\ post[p].row.name = post[p].name

TokensTyped ==
    /\ rows \subseteq Token /\ made \in Nat
    /\ plaintext \in rows \cup {NoToken}
    /\ post \in [Post -> PostRecord]
    /\ \A p \in Post : PostFits(p)

OneOfAName == \A r, q \in rows : r.name = q.name => r = q

\* A plaintext can only be replaced by that of a token of the same name, that is by itself,
\* or by one of a request that crossed its own.
CrossedAreUnseen ==
    \A p \in Post : post[p].pc # "none" =>
        /\ \A q \in Post : post[q].pc # "none" /\ post[q].name # post[p].name =>
              post[p].name \in unseen
        /\ plaintext # NoToken /\ plaintext.name # post[p].name => plaintext.name \in unseen

TokensInv == TokensTyped /\ OneOfAName /\ CrossedAreUnseen /\ PlaintextSeen

\* Requests that were left behind are of names that are excused.
LeftAreUnseen == leftBehind \subseteq TokenName \cap unseen

LEMMA TokensInvFirst == TokensInit => TokensInv
<1> SUFFICES ASSUME TokensInit PROVE TokensInv
    OBVIOUS
<1>1. NoPost \in PostRecord /\ NoPost.pc = "none"
    BY DEF NoPost, PostRecord
<1>2. TokensTyped
    BY <1>1 DEF TokensInit, TokensTyped, PostFits
<1> QED
    BY <1>1, <1>2 DEF TokensInit, TokensInv, OneOfAName, CrossedAreUnseen, PlaintextSeen

\* The steps of one request: it becomes new, the other requests stay.
LEMMA PostStep ==
    ASSUME TokensTyped, NEW p \in Post, NEW new, post' = [post EXCEPT ![p] = new],
           new \in PostRecord,
           new.pc = "none" => new = NoPost,
           new.pc = "sent" => new.name \in TokenName /\ new.row = NoToken,
           new.pc = "answered" => new.row \in rows' /\ new.row.name = new.name,
           rows \subseteq rows', rows' \subseteq Token, made' \in Nat,
           plaintext' \in rows' \cup {NoToken}
    PROVE  TokensTyped' /\ post'[p] = new /\ \A q \in Post \ {p} : post'[q] = post[q]
<1>1. post'[p] = new /\ \A q \in Post \ {p} : post'[q] = post[q]
    BY DEF TokensTyped
<1>2. post' \in [Post -> PostRecord]
    BY DEF TokensTyped
<1>3. PostFits(p)'
    BY <1>1 DEF PostFits
<1>4. ASSUME NEW q \in Post \ {p} PROVE PostFits(q)'
    BY <1>1 DEF PostFits, TokensTyped
<1> QED
    BY <1>1, <1>2, <1>3, <1>4 DEF TokensTyped

LEMMA LeftStayUnseen == TokensInv /\ LeftAreUnseen /\ [TokensNext]_tokenVars => LeftAreUnseen'
<1> SUFFICES ASSUME TokensInv, LeftAreUnseen, [TokensNext]_tokenVars PROVE LeftAreUnseen'
    OBVIOUS
<1>1. CASE LeaveTokens
    <2>1. \A p \in Post : post[p].pc = "sent" => post[p].name \in TokenName
        BY DEF TokensInv, TokensTyped, PostFits
    <2>2. /\ leftBehind' = leftBehind \cup {post[p].name : p \in {q \in Post : post[q].pc = "sent"}}
          /\ unseen \subseteq unseen' /\ \A p \in Post : post[p].name \in unseen'
        BY <1>1 DEF LeaveTokens
    <2> QED
        BY <2>1, <2>2 DEF LeftAreUnseen
<1>2. ASSUME NEW n \in leftBehind, CreateLeftBehind(n) PROVE LeftAreUnseen'
    BY <1>2 DEF CreateLeftBehind, LeftAreUnseen
<1>3. CASE leftBehind' = leftBehind /\ unseen \subseteq unseen'
    BY <1>3 DEF LeftAreUnseen
<1>4. ASSUME NEW p \in Post, NEW n \in TokenName, createAPIToken(p, n)
      PROVE  leftBehind' = leftBehind /\ unseen \subseteq unseen'
    BY <1>4 DEF createAPIToken
<1>5. CASE UNCHANGED tokenVars \/ ShowCreate \/ dismissJustCreatedToken
    BY <1>3, <1>5 DEF tokenVars, ShowCreate, dismissJustCreatedToken
<1>6. ASSUME NEW p \in Post, CreateAPIToken(p) \/ TokenRefused(p) \/ TokenAnswered(p) \/ AnswerLost(p)
      PROVE  leftBehind' = leftBehind /\ unseen \subseteq unseen'
    BY <1>6 DEF CreateAPIToken, TokenRefused, TokenAnswered, AnswerLost
<1>7. ASSUME NEW r \in rows \ revoked, revokeAPIToken(r)
      PROVE  leftBehind' = leftBehind /\ unseen \subseteq unseen'
    BY <1>7 DEF revokeAPIToken
<1> QED
    BY <1>1, <1>2, <1>3, <1>4, <1>5, <1>6, <1>7 DEF TokensNext

LEMMA TokensInvStays == TokensInv /\ LeftAreUnseen /\ [TokensNext]_tokenVars => TokensInv'
<1> SUFFICES ASSUME TokensInv, LeftAreUnseen, [TokensNext]_tokenVars PROVE TokensInv'
    OBVIOUS
<1>0. TokensTyped /\ OneOfAName /\ CrossedAreUnseen /\ PlaintextSeen
    BY DEF TokensInv
<1>n. NoPost \in PostRecord /\ NoPost.pc = "none" /\ NoPost.row = NoToken /\ NoPost.name = NoToken
    BY DEF NoPost, PostRecord
<1>t. NoToken \notin TokenName /\ NoToken \notin Token
    BY TokenAssumption DEF Token
<1>1. CASE UNCHANGED <<rows, revoked, made, post, plaintext, dismissed, unseen>>
    BY <1>1, <1>0 DEF TokensInv, TokensTyped, PostFits, OneOfAName, CrossedAreUnseen, PlaintextSeen
<1>2. CASE UNCHANGED tokenVars \/ ShowCreate
    BY <1>1, <1>2 DEF tokenVars, ShowCreate
<1>3. CASE dismissJustCreatedToken
    BY <1>3, <1>0 DEF dismissJustCreatedToken, TokensInv, TokensTyped, PostFits, OneOfAName,
        CrossedAreUnseen, PlaintextSeen
<1>4. CASE LeaveTokens
    <2>1. post' = [p \in Post |-> NoPost] /\ plaintext' = NoToken
          /\ UNCHANGED <<rows, revoked, made, dismissed>>
        BY <1>4 DEF LeaveTokens
    <2>2. TokensTyped'
        BY <2>1, <1>0, <1>n DEF TokensTyped, PostFits
    <2>3. OneOfAName' /\ CrossedAreUnseen'
        BY <2>1, <1>0, <1>n DEF OneOfAName, CrossedAreUnseen
    <2>4. ASSUME NEW r \in rows \ revoked PROVE r \in dismissed \/ r.name \in unseen'
        <3>1. unseen \subseteq unseen' /\ (plaintext # NoToken => plaintext.name \in unseen')
              /\ \A p \in Post : post[p].name \in unseen'
            BY <1>4 DEF LeaveTokens
        <3>2. r # NoToken
            BY <1>0, <1>t DEF TokensTyped
        <3>3. ASSUME NEW p \in Post, post[p].row = r PROVE r.name = post[p].name
            BY <3>2, <3>3, <1>0, <1>n DEF TokensTyped, PostFits, PostRecord
        <3> QED
            BY <3>1, <3>2, <3>3, <1>0 DEF PlaintextSeen
    <2> QED
        BY <2>1, <2>2, <2>3, <2>4 DEF TokensInv, PlaintextSeen
<1>5. ASSUME NEW p \in Post, NEW n \in TokenName, createAPIToken(p, n) PROVE TokensInv'
    <2> DEFINE new == [pc |-> "sent", name |-> n, row |-> NoToken]
    <2>1. post' = [post EXCEPT ![p] = new] /\ post[p] = NoPost /\ plaintext = NoToken
          /\ UNCHANGED <<rows, revoked, made, plaintext, dismissed>>
        BY <1>5 DEF createAPIToken
    <2>2. new \in PostRecord
        BY DEF PostRecord
    <2>3. TokensTyped' /\ post'[p] = new /\ \A q \in Post \ {p} : post'[q] = post[q]
        BY <2>1, <2>2, <1>0, PostStep DEF TokensTyped
    <2>4. unseen \subseteq unseen'
          /\ \A q \in Post : post[q].name \notin {n, NoToken} => post[q].name \in unseen' /\ n \in unseen'
        BY <1>5 DEF createAPIToken
    <2>5. \A q \in Post : post[q].pc # "none" => post[q].name # NoToken
        BY <1>0, <1>t DEF TokensTyped, PostFits, PostRecord, Token
    <2>6. CrossedAreUnseen'
        BY <2>1, <2>3, <2>4, <2>5, <1>0 DEF CrossedAreUnseen
    <2>7. PlaintextSeen'
        BY <2>1, <2>3, <2>4, <1>0, <1>n, <1>t DEF PlaintextSeen, TokensTyped
    <2> QED
        BY <2>1, <2>3, <2>6, <2>7, <1>0 DEF TokensInv, OneOfAName
<1>6. ASSUME NEW p \in Post, CreateAPIToken(p) PROVE TokensInv'
    <2> DEFINE row == [name |-> post[p].name, number |-> made + 1]
               new == [post[p] EXCEPT !.pc = "answered", !.row = row]
    <2>1. post' = [post EXCEPT ![p] = new] /\ post[p].pc = "sent"
          /\ rows' = rows \cup {row} /\ made' = made + 1 /\ (\A r \in rows : r.name # row.name)
          /\ UNCHANGED <<revoked, plaintext, dismissed, unseen>>
        BY <1>6, <1>0 DEF CreateAPIToken, FreeName, TokensTyped, PostRecord
    <2>2. post[p] \in PostRecord /\ post[p].name \in TokenName /\ post[p].row = NoToken
        BY <2>1, <1>0 DEF TokensTyped, PostFits
    <2>3. row \in Token /\ row.name = post[p].name
        BY <2>2, <1>0 DEF Token, TokensTyped
    <2>4. new \in PostRecord /\ new.pc = "answered" /\ new.row = row /\ new.name = post[p].name
        BY <2>2, <2>3 DEF PostRecord
    <2>  HIDE DEF new, row
    <2>5. TokensTyped' /\ post'[p] = new /\ \A q \in Post \ {p} : post'[q] = post[q]
        <3>1. rows \subseteq rows' /\ rows' \subseteq Token /\ row \in rows'
            BY <2>1, <2>3, <1>0 DEF TokensTyped
        <3>2. made' \in Nat
            BY <2>1, <1>0 DEF TokensTyped
        <3>3. plaintext' \in rows' \cup {NoToken}
            BY <2>1, <3>1, <1>0 DEF TokensTyped
        <3> QED
            BY <2>1, <2>3, <2>4, <3>1, <3>2, <3>3, <1>0, PostStep
    <2>6. OneOfAName'
        BY <2>1, <1>0 DEF OneOfAName
    <2>7. CrossedAreUnseen'
        <3>1. \A q \in Post : post'[q].name = post[q].name /\ (post'[q].pc # "none" <=> post[q].pc # "none")
            BY <2>1, <2>4, <2>5
        <3>2. plaintext' = plaintext /\ unseen' = unseen
            BY <2>1
        <3> QED
            BY <3>1, <3>2, <1>0 DEF CrossedAreUnseen
    <2>8. PlaintextSeen'
        BY <2>1, <2>2, <2>4, <2>5, <1>0, <1>t DEF PlaintextSeen, TokensTyped
    <2> QED
        BY <2>5, <2>6, <2>7, <2>8 DEF TokensInv
<1>7. ASSUME NEW p \in Post, post' = [post EXCEPT ![p] = NoPost],
             UNCHANGED <<rows, revoked, made, dismissed>>, unseen \subseteq unseen'
      PROVE  /\ plaintext' \in rows \cup {NoToken} =>
                   TokensTyped' /\ OneOfAName'
             /\ post'[p] = NoPost /\ \A q \in Post \ {p} : post'[q] = post[q]
    <2>1. post'[p] = NoPost /\ \A q \in Post \ {p} : post'[q] = post[q]
        BY <1>7, <1>0 DEF TokensTyped
    <2>2. ASSUME plaintext' \in rows \cup {NoToken} PROVE TokensTyped'
        BY <2>2, <1>7, <1>0, <1>n, PostStep DEF TokensTyped
    <2> QED
        BY <2>1, <2>2, <1>7, <1>0 DEF OneOfAName
<1>8. ASSUME NEW p \in Post, TokenRefused(p) PROVE TokensInv'
    <2>1. post[p].pc = "sent" /\ post' = [post EXCEPT ![p] = NoPost]
          /\ UNCHANGED <<rows, revoked, made, plaintext, dismissed, unseen>>
        BY <1>8 DEF TokenRefused
    <2>2. TokensTyped' /\ OneOfAName' /\ post'[p] = NoPost /\ \A q \in Post \ {p} : post'[q] = post[q]
        BY <2>1, <1>7, <1>0 DEF TokensTyped
    <2>3. CrossedAreUnseen'
        BY <2>1, <2>2, <1>0, <1>n DEF CrossedAreUnseen
    <2>4. post[p].row = NoToken
        BY <2>1, <1>0 DEF TokensTyped, PostFits
    <2>5. PlaintextSeen'
        BY <2>1, <2>2, <2>4, <1>0, <1>t DEF PlaintextSeen, TokensTyped
    <2> QED
        BY <2>2, <2>3, <2>5 DEF TokensInv
<1>9. ASSUME NEW p \in Post, TokenAnswered(p) PROVE TokensInv'
    <2>1. post[p].pc = "answered" /\ post' = [post EXCEPT ![p] = NoPost] /\ plaintext' = post[p].row
          /\ UNCHANGED <<rows, revoked, made, dismissed, unseen>>
        BY <1>9 DEF TokenAnswered
    <2>2. post[p].row \in rows /\ post[p].row.name = post[p].name
        BY <2>1, <1>0 DEF TokensTyped, PostFits
    <2>3. TokensTyped' /\ OneOfAName' /\ post'[p] = NoPost /\ \A q \in Post \ {p} : post'[q] = post[q]
        BY <2>1, <2>2, <1>7
    <2>4. CrossedAreUnseen'
        BY <2>1, <2>2, <2>3, <1>0, <1>n DEF CrossedAreUnseen
    <2>5. plaintext # NoToken => plaintext = plaintext' \/ plaintext.name \in unseen
        BY <2>1, <2>2, <1>0 DEF CrossedAreUnseen, OneOfAName, TokensTyped
    <2>6. PlaintextSeen'
        BY <2>1, <2>3, <2>5, <1>0, <1>t DEF PlaintextSeen, TokensTyped
    <2> QED
        BY <2>3, <2>4, <2>6 DEF TokensInv
<1>10. ASSUME NEW p \in Post, AnswerLost(p) PROVE TokensInv'
    <2>1. post[p].pc = "answered" /\ post' = [post EXCEPT ![p] = NoPost]
          /\ unseen' = unseen \cup {post[p].name}
          /\ UNCHANGED <<rows, revoked, made, plaintext, dismissed>>
        BY <1>10 DEF AnswerLost
    <2>2. post[p].row \in rows /\ post[p].row.name = post[p].name
        BY <2>1, <1>0 DEF TokensTyped, PostFits
    <2>3. TokensTyped' /\ OneOfAName' /\ post'[p] = NoPost /\ \A q \in Post \ {p} : post'[q] = post[q]
        BY <2>1, <1>7, <1>0 DEF TokensTyped
    <2>4. CrossedAreUnseen'
        BY <2>1, <2>3, <1>0, <1>n DEF CrossedAreUnseen
    <2>6. PlaintextSeen'
        BY <2>1, <2>2, <2>3, <1>0 DEF PlaintextSeen
    <2> QED
        BY <2>3, <2>4, <2>6 DEF TokensInv
<1>11. ASSUME NEW r \in rows \ revoked, revokeAPIToken(r) PROVE TokensInv'
    BY <1>11, <1>0 DEF revokeAPIToken, TokensInv, TokensTyped, PostFits, OneOfAName,
        CrossedAreUnseen, PlaintextSeen
<1>12. ASSUME NEW n \in leftBehind, CreateLeftBehind(n) PROVE TokensInv'
    <2> DEFINE row == [name |-> n, number |-> made + 1]
    <2>1. n \in TokenName /\ n \in unseen /\ UNCHANGED <<revoked, post, plaintext, dismissed, unseen>>
        BY <1>12 DEF LeftAreUnseen, CreateLeftBehind
    <2>2. CASE UNCHANGED <<rows, made>>
        BY <1>1, <2>1, <2>2
    <2>3. CASE rows' = rows \cup {row} /\ made' = made + 1 /\ \A r \in rows : r.name # n
        <3>1. row \in Token /\ row.name = n /\ made' \in Nat
            BY <2>1, <2>3, <1>0 DEF Token, TokensTyped
        <3> HIDE DEF row
        <3>2. \A p \in Post : PostFits(p)'
            BY <2>1, <2>3, <1>0 DEF TokensTyped, PostFits
        <3>3. TokensTyped' /\ OneOfAName' /\ CrossedAreUnseen'
            BY <2>1, <2>3, <3>1, <3>2, <1>0 DEF TokensTyped, OneOfAName, CrossedAreUnseen
        <3>4. PlaintextSeen'
            BY <2>1, <2>3, <3>1, <1>0 DEF PlaintextSeen
        <3> QED
            BY <3>3, <3>4 DEF TokensInv
    <2> QED
        BY <1>12, <2>2, <2>3 DEF CreateLeftBehind, FreeName
<1> QED
    BY <1>12, <1>2, <1>3, <1>4, <1>5, <1>6, <1>8, <1>9, <1>10, <1>11 DEF TokensNext

\* Also when the form is sent twice, the plaintext of a token that works stays on the page
\* until it is dismissed, for any names and number of requests.
THEOREM PlaintextStays == TokensSpec => []PlaintextSeen
<1>1. TokensInv => PlaintextSeen
    BY DEF TokensInv
<1>2. TokensInit => LeftAreUnseen
    BY DEF TokensInit, LeftAreUnseen
<1> QED
    BY <1>1, <1>2, TokensInvFirst, TokensInvStays, LeftStayUnseen, PTL DEF TokensSpec
-----------------------------------------------------------------------------
(* The forms of the settings. *)

Shown == Value \cup {Mask}
Save == [pc : {"none", "put", "get", "got"}, value : Shown, typed : BOOLEAN,
         seen : {<<>>} \cup [Section -> Shown]]
Resting == {"none", "put"}

FormsTyped ==
    /\ stored \in [Section -> Value] /\ meant \in [Section -> Value]
    /\ settings \in [Section -> Shown] /\ form \in [Section -> Shown]
    /\ save \in [Section -> Save]

\* What is typed is no mask, and of the sections of one form only one is being saved.
SavesFit(s) ==
    /\ s \in typed => Field(s) \in Value
    /\ save[s].pc = "put" /\ save[s].typed => save[s].value \in Value
    /\ save[s].pc = "got" => save[s].seen \in [Section -> Shown]
    /\ s = General => save[s].pc \in Resting
    /\ save[s].pc # "none" => \A r \in Together(s) \ {s} : save[r].pc = "none"

\* Wherever the page has a value that nobody typed - its copy, a field, a save, an answer
\* on its way - it is the one the server would show.
Current(s) ==
    /\ stored[s] = meant[s]
    /\ s # General /\ save[s].pc \in Resting => settings[s] = handleGetSettings[s]
    /\ save[s].pc \in Resting /\ s \notin typed => Field(s) = handleGetSettings[s]
    /\ save[s].pc = "put" /\ ~save[s].typed => save[s].value = handleGetSettings[s]
    /\ s = General /\ save[s].pc = "put" /\ save[s].typed => s \in typed
    /\ \A r \in Section : save[r].pc = "got" => save[r].seen[s] = handleGetSettings[s]

FormsInv ==
    /\ FormsTyped
    /\ \A s \in Section : SavesFit(s)
    /\ \A s \in Section \ excused : Current(s)

LEMMA ShownSettings ==
    ASSUME stored \in [Section -> Value]
    PROVE  /\ handleGetSettings \in [Section -> Shown]
           /\ \A s \in Section : handleGetSettings[s] = IF s \in Secret THEN Mask ELSE stored[s]
BY DEF handleGetSettings, Shown

LEMMA TogetherWith ==
    ASSUME NEW s \in Section
    PROVE  /\ s \in Together(s) /\ Together(s) \subseteq Section
           /\ General \in Together(s) => s = General
           /\ \A r \in Together(s) : Together(r) = Together(s)
BY SectionAssumption DEF Together

LEMMA NoRequestIsSave == NoRequest \in Save /\ NoRequest.pc = "none"
BY DEF NoRequest, Save, Shown

LEMMA SaveStep ==
    ASSUME save \in [Section -> Save], NEW s \in Section, NEW new \in Save,
           save' = [save EXCEPT ![s] = new]
    PROVE  /\ save' \in [Section -> Save]
           /\ save'[s] = new
           /\ \A q \in Section \ {s} : save'[q] = save[q]
OBVIOUS

\* A section that is being saved by nobody more than before.
LEMMA StillAlone ==
    ASSUME NEW s \in Section, SavesFit(s), save'[s].pc # "none" => save[s].pc # "none",
           \A r \in Section : save[r].pc = "none" => save'[r].pc = "none"
    PROVE  save'[s].pc # "none" => \A r \in Together(s) \ {s} : save'[r].pc = "none"
BY TogetherWith DEF SavesFit

LEMMA FormsInvFirst == FormsInit => FormsInv
<1> SUFFICES ASSUME FormsInit PROVE FormsInv
    OBVIOUS
<1>1. stored \in [Section -> Value] /\ meant = stored
    BY SectionAssumption DEF FormsInit
<1>2. settings = handleGetSettings /\ form = handleGetSettings /\ typed = {}
      /\ save = [s \in Section |-> NoRequest]
    BY DEF FormsInit
<1>3. FormsTyped
    BY <1>1, <1>2, ShownSettings, NoRequestIsSave DEF FormsTyped
<1>4. ASSUME NEW s \in Section PROVE SavesFit(s)
    BY <1>2, NoRequestIsSave, TogetherWith DEF SavesFit, Resting
<1>5. ASSUME NEW s \in Section PROVE Current(s)
    BY <1>1, <1>2, NoRequestIsSave DEF Current, Field
<1> QED
    BY <1>3, <1>4, <1>5 DEF FormsInv

LEMMA FormsStutter == FormsInv /\ UNCHANGED formVars => FormsInv'
<1> SUFFICES ASSUME FormsInv, UNCHANGED formVars PROVE FormsInv'
    OBVIOUS
<1>1. handleGetSettings' = handleGetSettings /\ \A s \in Section : Field(s)' = Field(s)
    BY DEF formVars, handleGetSettings, Field
<1>2. FormsTyped' /\ \A s \in Section : SavesFit(s)'
    BY <1>1 DEF formVars, FormsInv, FormsTyped, SavesFit
<1>3. \A s \in Section \ excused' : Current(s)'
    BY <1>1 DEF formVars, FormsInv, Current
<1> QED
    BY <1>2, <1>3 DEF FormsInv

\* The steps that leave the server and the saves alone: typing and opening the tab.
LEMMA TypeKeeps ==
    ASSUME FormsInv, NEW s \in Section, NEW v \in Value, Type(s, v)
    PROVE  FormsInv'
<1>1. UNCHANGED <<stored, save, meant, excused>> /\ typed' = typed \cup {s}
    BY DEF Type
<1>2. handleGetSettings' = handleGetSettings
    BY <1>1 DEF handleGetSettings
<1>3. /\ settings' \in [Section -> Shown] /\ form' \in [Section -> Shown]
      /\ \A q \in Section : Field(q)' = IF q = s THEN v ELSE Field(q)
      /\ \A q \in Section \ {General} : settings'[q] = settings[q]
    BY SectionAssumption DEF Type, Field, FormsInv, FormsTyped, Shown
<1>4. FormsTyped'
    BY <1>1, <1>3 DEF FormsInv, FormsTyped
<1>5. ASSUME NEW q \in Section PROVE SavesFit(q)'
    BY <1>1, <1>3 DEF FormsInv, SavesFit
<1>6. ASSUME NEW q \in Section \ excused' PROVE Current(q)'
    BY <1>1, <1>2, <1>3 DEF FormsInv, Current
<1> QED
    BY <1>4, <1>5, <1>6 DEF FormsInv

LEMMA OpenAlertingKeeps == FormsInv /\ openAlerting => FormsInv'
<1> SUFFICES ASSUME FormsInv, openAlerting PROVE FormsInv'
    OBVIOUS
<1>1. UNCHANGED <<stored, save, meant, excused, settings>> /\ typed' = typed \ Alerting
    BY DEF openAlerting
<1>2. handleGetSettings' = handleGetSettings
    BY <1>1 DEF handleGetSettings
<1>3. /\ form' \in [Section -> Shown]
      /\ \A q \in Section : Field(q)' = IF q \in Alerting THEN settings[q] ELSE Field(q)
    BY SectionAssumption DEF openAlerting, Refill, Field, FormsInv, FormsTyped
<1>4. FormsTyped'
    BY <1>1, <1>3 DEF FormsInv, FormsTyped
<1>5. ASSUME NEW q \in Section PROVE SavesFit(q)'
    BY <1>1, <1>3 DEF FormsInv, SavesFit
<1>6. ASSUME NEW q \in Section \ excused' PROVE Current(q)'
    BY <1>1, <1>2, <1>3, SectionAssumption DEF FormsInv, Current
<1> QED
    BY <1>4, <1>5, <1>6 DEF FormsInv

LEMMA MountKeeps == FormsInv /\ Mount => FormsInv'
<1> SUFFICES ASSUME FormsInv, Mount PROVE FormsInv'
    OBVIOUS
<1>1. /\ UNCHANGED <<stored, save>> /\ meant' = stored /\ typed' = {}
      /\ settings' = handleGetSettings /\ form' = handleGetSettings
      /\ \A s \in Section : save[s].pc = "none"
    BY DEF Mount
<1>2. handleGetSettings' = handleGetSettings /\ stored \in [Section -> Value]
    BY <1>1 DEF handleGetSettings, FormsInv, FormsTyped
<1>4. FormsTyped'
    BY <1>1, <1>2, ShownSettings DEF FormsInv, FormsTyped
<1>5. ASSUME NEW q \in Section PROVE SavesFit(q)'
    BY <1>1, <1>2, TogetherWith DEF SavesFit, Resting
<1>6. ASSUME NEW q \in Section \ excused' PROVE Current(q)'
    BY <1>1, <1>2 DEF Current, Field
<1> QED
    BY <1>4, <1>5, <1>6 DEF FormsInv

\* The steps of one save that leave the server and the fields alone.
LEMMA ClickKeeps ==
    ASSUME FormsInv, NEW s \in Section, Click(s)
    PROVE  FormsInv'
<1> DEFINE new == [pc |-> "put", value |-> Field(s), typed |-> s \in typed, seen |-> <<>>]
<1>1. /\ UNCHANGED <<stored, settings, form, typed, meant, excused>>
      /\ save' = [save EXCEPT ![s] = new]
      /\ \A r \in Together(s) : save[r].pc = "none"
    BY DEF Click
<1>2. handleGetSettings' = handleGetSettings /\ \A q \in Section : Field(q)' = Field(q)
    BY <1>1 DEF handleGetSettings, Field
<1>3. Field(s) \in Shown
    BY DEF Field, FormsInv, FormsTyped
<1>4. new \in Save /\ new.pc = "put" /\ new.value = Field(s) /\ (new.typed <=> s \in typed)
    <2>1. PICK b \in BOOLEAN : b <=> s \in typed
        OBVIOUS
    <2>2. new = [pc |-> "put", value |-> Field(s), typed |-> b, seen |-> <<>>]
        BY <2>1
    <2> QED
        BY <1>3, <2>1, <2>2 DEF Save
<1> HIDE DEF new
<1>5. save' \in [Section -> Save] /\ save'[s] = new /\ \A q \in Section \ {s} : save'[q] = save[q]
    BY <1>1, <1>4, SaveStep DEF FormsInv, FormsTyped
<1>6. FormsTyped'
    BY <1>1, <1>5 DEF FormsInv, FormsTyped
<1>7. save[s].pc = "none"
    BY <1>1, TogetherWith
<1>8. ASSUME NEW q \in Section PROVE SavesFit(q)'
    <2>1. SavesFit(q)
        BY DEF FormsInv
    <2>2. CASE q = s
        <3>1. \A r \in Together(s) \ {s} : save'[r].pc = "none"
            BY <1>1, <1>5, TogetherWith
        <3> QED
            BY <2>1, <2>2, <3>1, <1>1, <1>2, <1>4, <1>5 DEF SavesFit, Resting
    <2>3. CASE q # s
        <3>1. save[q].pc # "none" => s \notin Together(q)
            BY <1>1, TogetherWith
        <3>2. save[q].pc # "none" => \A r \in Together(q) \ {q} : save'[r].pc = "none"
            BY <2>1, <3>1, <1>5, TogetherWith DEF SavesFit
        <3> QED
            BY <2>1, <2>3, <3>2, <1>1, <1>2, <1>5 DEF SavesFit
    <2> QED
        BY <2>2, <2>3
<1>9. ASSUME NEW q \in Section \ excused' PROVE Current(q)'
    <2>1. Current(q)
        BY <1>1 DEF FormsInv
    <2>2. \A r \in Section : save'[r].pc = "got" => save[r].pc = "got" /\ save'[r] = save[r]
        BY <1>4, <1>5
    <2>3. CASE q = s
        BY <2>1, <2>2, <2>3, <1>1, <1>2, <1>4, <1>5, <1>7 DEF Current, Resting
    <2>4. CASE q # s
        BY <2>1, <2>2, <2>4, <1>1, <1>2, <1>5 DEF Current
    <2> QED
        BY <2>3, <2>4
<1> QED
    BY <1>6, <1>8, <1>9 DEF FormsInv

LEMMA UpdateRefusedKeeps ==
    ASSUME FormsInv, NEW s \in Section, UpdateRefused(s)
    PROVE  FormsInv'
<1>1. /\ UNCHANGED <<stored, settings, form, typed, meant, excused>>
      /\ save' = [save EXCEPT ![s] = NoRequest] /\ save[s].pc = "put"
    BY DEF UpdateRefused
<1>2. handleGetSettings' = handleGetSettings /\ \A q \in Section : Field(q)' = Field(q)
    BY <1>1 DEF handleGetSettings, Field
<1>5. save' \in [Section -> Save] /\ save'[s] = NoRequest /\ \A q \in Section \ {s} : save'[q] = save[q]
    BY <1>1, NoRequestIsSave, SaveStep DEF FormsInv, FormsTyped
<1>6. FormsTyped'
    BY <1>1, <1>5 DEF FormsInv, FormsTyped
<1>8. ASSUME NEW q \in Section PROVE SavesFit(q)'
    <2>1. SavesFit(q)
        BY DEF FormsInv
    <2>2. save'[q].pc # "none" => \A r \in Together(q) \ {q} : save'[r].pc = "none"
        BY <2>1, <1>5, NoRequestIsSave, StillAlone
    <2> QED
        BY <2>1, <2>2, <1>1, <1>2, <1>5, NoRequestIsSave DEF SavesFit, Resting
<1>9. ASSUME NEW q \in Section \ excused' PROVE Current(q)'
    <2>1. Current(q)
        BY <1>1 DEF FormsInv
    <2>2. CASE q = s
        BY <2>1, <2>2, <1>1, <1>2, <1>5, NoRequestIsSave DEF Current, Resting
    <2>3. CASE q # s
        BY <2>1, <2>3, <1>1, <1>2, <1>5, NoRequestIsSave DEF Current
    <2> QED
        BY <2>2, <2>3
<1> QED
    BY <1>6, <1>8, <1>9 DEF FormsInv

LEMMA ServeSettingsKeeps ==
    ASSUME FormsInv, NEW s \in Section, ServeSettings(s)
    PROVE  FormsInv'
<1> DEFINE new == [save[s] EXCEPT !.pc = "got", !.seen = handleGetSettings]
<1>1. /\ UNCHANGED <<stored, settings, form, typed, meant, excused>>
      /\ save' = [save EXCEPT ![s] = new] /\ save[s].pc = "get"
    BY DEF ServeSettings
<1>2. handleGetSettings' = handleGetSettings /\ \A q \in Section : Field(q)' = Field(q)
    BY <1>1 DEF handleGetSettings, Field
<1>3. handleGetSettings \in [Section -> Shown] /\ save[s] \in Save
    BY ShownSettings DEF FormsInv, FormsTyped
<1>4. new \in Save /\ new.pc = "got" /\ new.seen = handleGetSettings
    BY <1>3 DEF Save
<1> HIDE DEF new
<1>5. save' \in [Section -> Save] /\ save'[s] = new /\ \A q \in Section \ {s} : save'[q] = save[q]
    BY <1>1, <1>4, SaveStep DEF FormsInv, FormsTyped
<1>6. FormsTyped'
    BY <1>1, <1>5 DEF FormsInv, FormsTyped
<1>7. s # General
    BY <1>1 DEF FormsInv, SavesFit, Resting
<1>8. ASSUME NEW q \in Section PROVE SavesFit(q)'
    <2>1. SavesFit(q)
        BY DEF FormsInv
    <2>2. save'[q].pc # "none" => \A r \in Together(q) \ {q} : save'[r].pc = "none"
        BY <2>1, <1>1, <1>4, <1>5, StillAlone
    <2>3. CASE q = s
        BY <2>1, <2>2, <2>3, <1>1, <1>2, <1>3, <1>4, <1>5, <1>7 DEF SavesFit
    <2>4. CASE q # s
        BY <2>1, <2>2, <2>4, <1>1, <1>2, <1>5 DEF SavesFit
    <2> QED
        BY <2>3, <2>4
<1>9. ASSUME NEW q \in Section \ excused' PROVE Current(q)'
    <2>1. Current(q)
        BY <1>1 DEF FormsInv
    <2>2. \A r \in Section : save'[r].pc = "got" => save'[r].seen[q] = handleGetSettings[q]
        BY <2>1, <1>4, <1>5 DEF Current
    <2>3. CASE q = s
        BY <2>1, <2>2, <2>3, <1>1, <1>2, <1>4, <1>5 DEF Current, Resting
    <2>4. CASE q # s
        BY <2>1, <2>2, <2>4, <1>1, <1>2, <1>5 DEF Current
    <2> QED
        BY <2>3, <2>4
<1> QED
    BY <1>6, <1>8, <1>9 DEF FormsInv

LEMMA LoadSettingsKeeps ==
    ASSUME FormsInv, NEW s \in Section, loadSettings(s)
    PROVE  FormsInv'
<1>1. /\ UNCHANGED <<stored, meant>> /\ save[s].pc = "got"
      /\ settings' = save[s].seen
      /\ form' = Refill(Together(s), settings')
      /\ typed' = typed \ (Together(s) \cup {General})
      /\ excused \subseteq excused'
      /\ save[General].pc = "put" => General \in excused'
      /\ save' = [save EXCEPT ![s] = NoRequest]
    BY DEF loadSettings
<1>2. handleGetSettings' = handleGetSettings
    BY <1>1 DEF handleGetSettings
<1>3. /\ settings' \in [Section -> Shown]
      /\ form' = [q \in Section |-> IF q \in Together(s) THEN settings'[q] ELSE form[q]]
      /\ form' \in [Section -> Shown]
    BY <1>1 DEF Refill, FormsInv, FormsTyped, SavesFit
<1>4. s # General
    BY <1>1 DEF FormsInv, SavesFit, Resting
<1>5. save' \in [Section -> Save] /\ save'[s] = NoRequest /\ \A q \in Section \ {s} : save'[q] = save[q]
    BY <1>1, NoRequestIsSave, SaveStep DEF FormsInv, FormsTyped
<1>6. FormsTyped'
    BY <1>1, <1>3, <1>5 DEF FormsInv, FormsTyped
<1>7. /\ Field(General)' = settings'[General]
      /\ \A q \in Section \ {General} :
            Field(q)' = IF q \in Together(s) THEN settings'[q] ELSE Field(q)
    BY <1>3 DEF Field
<1>8. ASSUME NEW q \in Section PROVE SavesFit(q)'
    <2>1. SavesFit(q)
        BY DEF FormsInv
    <2>2. save'[q].pc # "none" => \A r \in Together(q) \ {q} : save'[r].pc = "none"
        BY <2>1, <1>5, NoRequestIsSave, StillAlone
    <2>3. q \in typed' => q \in typed /\ Field(q)' = Field(q)
        BY <1>1, <1>7
    <2> QED
        BY <2>1, <2>2, <2>3, <1>5, NoRequestIsSave DEF SavesFit, Resting
<1>9. ASSUME NEW q \in Section \ excused' PROVE Current(q)'
    <2>1. Current(q) /\ settings'[q] = handleGetSettings[q]
        BY <1>1 DEF FormsInv, Current
    <2>2. \A r \in Section : save'[r].pc = "got" => save[r].pc = "got" /\ save'[r] = save[r]
        BY <1>5, NoRequestIsSave
    <2>3. CASE q = s
        BY <2>1, <2>2, <2>3, <1>1, <1>2, <1>4, <1>5, <1>7, NoRequestIsSave, TogetherWith DEF Current
    <2>4. CASE q = General
        <3>1. save'[q] = save[q] /\ save[q].pc # "put"
            BY <2>4, <1>1, <1>4, <1>5
        <3> QED
            BY <2>1, <2>2, <2>4, <3>1, <1>1, <1>2, <1>7 DEF Current
    <2>5. CASE q \notin {s, General}
        <3>1. save'[q] = save[q]
            BY <2>5, <1>5
        <3>2. q \notin typed' => q \in Together(s) \/ q \notin typed
            BY <2>5, <1>1
        <3> QED
            BY <2>1, <2>2, <2>5, <3>1, <3>2, <1>1, <1>2, <1>7 DEF Current
    <2> QED
        BY <2>3, <2>4, <2>5
<1> QED
    BY <1>6, <1>8, <1>9 DEF FormsInv

LEMMA LoadSettingsFailsKeeps ==
    ASSUME FormsInv, NEW s \in Section, loadSettingsFails(s)
    PROVE  FormsInv'
<1>1. /\ UNCHANGED <<stored, settings, meant>> /\ save[s].pc \in {"get", "got"}
      /\ form' = Refill(Together(s), settings)
      /\ typed' = typed \ Together(s)
      /\ excused' = excused \cup {s}
      /\ save' = [save EXCEPT ![s] = NoRequest]
    BY DEF loadSettingsFails
<1>2. handleGetSettings' = handleGetSettings
    BY <1>1 DEF handleGetSettings
<1>3. /\ form' = [q \in Section |-> IF q \in Together(s) THEN settings[q] ELSE form[q]]
      /\ form' \in [Section -> Shown]
    BY <1>1 DEF Refill, FormsInv, FormsTyped
<1>4. s # General /\ General \notin Together(s)
    BY <1>1, TogetherWith DEF FormsInv, SavesFit, Resting
<1>5. save' \in [Section -> Save] /\ save'[s] = NoRequest /\ \A q \in Section \ {s} : save'[q] = save[q]
    BY <1>1, NoRequestIsSave, SaveStep DEF FormsInv, FormsTyped
<1>6. FormsTyped'
    BY <1>1, <1>3, <1>5 DEF FormsInv, FormsTyped
<1>7. \A q \in Section : Field(q)' = IF q \in Together(s) THEN settings[q] ELSE Field(q)
    BY <1>1, <1>3, <1>4 DEF Field
<1>8. ASSUME NEW q \in Section PROVE SavesFit(q)'
    <2>1. SavesFit(q)
        BY DEF FormsInv
    <2>2. save'[q].pc # "none" => \A r \in Together(q) \ {q} : save'[r].pc = "none"
        BY <2>1, <1>5, NoRequestIsSave, StillAlone
    <2>3. q \in typed' => q \in typed /\ Field(q)' = Field(q)
        BY <1>1, <1>7
    <2> QED
        BY <2>1, <2>2, <2>3, <1>5, NoRequestIsSave DEF SavesFit, Resting
<1>9. ASSUME NEW q \in Section \ excused' PROVE Current(q)'
    <2>1. Current(q) /\ q # s /\ save'[q] = save[q]
        BY <1>1, <1>5 DEF FormsInv
    <2>2. \A r \in Section : save'[r].pc = "got" => save[r].pc = "got" /\ save'[r] = save[r]
        BY <1>5, NoRequestIsSave
    <2>3. CASE q \in Together(s)
        <3>1. save[q].pc = "none" /\ q # General
            BY <2>1, <2>3, <1>1, <1>4 DEF FormsInv, SavesFit
        <3> QED
            BY <2>1, <2>2, <2>3, <3>1, <1>1, <1>2, <1>7 DEF Current, Resting
    <2>4. CASE q \notin Together(s)
        BY <2>1, <2>2, <2>4, <1>1, <1>2, <1>7 DEF Current
    <2> QED
        BY <2>3, <2>4
<1> QED
    BY <1>6, <1>8, <1>9 DEF FormsInv

\* The two writes on the server.
LEMMA HandleUpdateKeeps ==
    ASSUME FormsInv, NEW s \in Section, handleUpdateSettings(s)
    PROVE  FormsInv'
<1> DEFINE v == save[s].value
           new == IF s = General THEN NoRequest ELSE [save[s] EXCEPT !.pc = "get"]
<1>1. /\ UNCHANGED <<settings, form, typed>> /\ save[s].pc = "put"
      /\ stored' = [stored EXCEPT ![s] = Written(s, v)]
      /\ meant' = [meant EXCEPT ![s] = IF save[s].typed THEN v ELSE @]
      /\ excused \subseteq excused'
      /\ \A r \in Section : save[r].pc = "got" => s \in excused'
      /\ save' = [save EXCEPT ![s] = new]
    BY DEF handleUpdateSettings
<1>2. \A q \in Section : Field(q)' = Field(q)
    BY <1>1 DEF Field
<1>3. v \in Shown /\ (save[s].typed => v \in Value) /\ save[s] \in Save
    BY <1>1 DEF FormsInv, FormsTyped, SavesFit, Save
<1>4. new \in Save /\ new.pc = IF s = General THEN "none" ELSE "get"
    BY <1>3, NoRequestIsSave DEF Save
<1>5. save' \in [Section -> Save] /\ save'[s] = new /\ \A q \in Section \ {s} : save'[q] = save[q]
    <2> HIDE DEF new
    <2> QED
        BY <1>1, <1>4, SaveStep DEF FormsInv, FormsTyped
<1> HIDE DEF new, v
<1>6. /\ stored' \in [Section -> Value] /\ stored'[s] = Written(s, v)
      /\ \A q \in Section \ {s} : stored'[q] = stored[q]
    BY <1>1, <1>3 DEF Written, Shown, FormsInv, FormsTyped
<1>7. /\ meant' \in [Section -> Value] /\ meant'[s] = IF save[s].typed THEN v ELSE meant[s]
      /\ \A q \in Section \ {s} : meant'[q] = meant[q]
    BY <1>1, <1>3 DEF FormsInv, FormsTyped
<1>8. FormsTyped'
    BY <1>1, <1>5, <1>6, <1>7 DEF FormsInv, FormsTyped
<1>9. ASSUME NEW q \in Section PROVE SavesFit(q)'
    <2>1. SavesFit(q)
        BY DEF FormsInv
    <2>2. save'[q].pc # "none" => \A r \in Together(q) \ {q} : save'[r].pc = "none"
        BY <2>1, <1>1, <1>4, <1>5, StillAlone
    <2>3. CASE q = s
        BY <2>1, <2>2, <2>3, <1>1, <1>2, <1>4, <1>5 DEF SavesFit, Resting
    <2>4. CASE q # s
        BY <2>1, <2>2, <2>4, <1>1, <1>2, <1>5 DEF SavesFit
    <2> QED
        BY <2>3, <2>4
<1>10. /\ handleGetSettings'[s] = IF s \in Secret THEN Mask ELSE stored'[s]
       /\ \A q \in Section \ {s} : handleGetSettings'[q] = handleGetSettings[q]
    BY <1>6 DEF handleGetSettings
<1>11. ASSUME NEW q \in Section \ excused' PROVE Current(q)'
    <2>1. Current(q)
        BY <1>1 DEF FormsInv
    <2>2. \A r \in Section : save'[r].pc = "got" => save[r].pc = "got" /\ save'[r] = save[r]
        BY <1>4, <1>5
    <2>3. CASE q # s
        BY <2>1, <2>2, <2>3, <1>1, <1>2, <1>5, <1>6, <1>7, <1>10 DEF Current
    <2>4. CASE q = s
        <3>1. \A r \in Section : save'[r].pc # "got"
            BY <2>2, <2>4, <1>1
        <3>2. CASE save[s].typed
            <4>1. stored'[s] = v /\ meant'[s] = v
                BY <3>2, <1>3, <1>6, <1>7, SectionAssumption DEF Written
            <4>2. s = General => s \in typed
                BY <3>2, <2>1, <2>4, <1>1 DEF Current
            <4> QED
                BY <3>1, <2>4, <4>1, <4>2, <1>1, <1>2, <1>4, <1>5 DEF Current, Resting
        <3>3. CASE ~save[s].typed
            <4>1. v = handleGetSettings[s] /\ stored[s] = meant[s]
                BY <3>3, <2>1, <2>4, <1>1 DEF Current, v
            <4>2. handleGetSettings[s] = IF s \in Secret THEN Mask ELSE stored[s]
                BY ShownSettings DEF FormsInv, FormsTyped
            <4>3. stored'[s] = stored[s] /\ meant'[s] = meant[s]
                BY <3>3, <4>1, <4>2, <1>6, <1>7 DEF Written
            <4>4. handleGetSettings'[s] = handleGetSettings[s]
                BY <4>2, <4>3, <1>10
            <4> QED
                BY <3>1, <2>1, <2>4, <4>1, <4>3, <4>4, <1>1, <1>2, <1>4, <1>5 DEF Current, Resting
        <3> QED
            BY <3>2, <3>3
    <2> QED
        BY <2>3, <2>4
<1> QED
    BY <1>8, <1>9, <1>11 DEF FormsInv

LEMMA OtherSavesKeeps ==
    ASSUME FormsInv, NEW s \in Section, NEW v \in Value, OtherSaves(s, v)
    PROVE  FormsInv'
<1>1. /\ UNCHANGED <<settings, form, save, typed>>
      /\ stored' = [stored EXCEPT ![s] = v] /\ meant' = [meant EXCEPT ![s] = v]
      /\ excused' = excused \cup {s}
    BY DEF OtherSaves
<1>2. \A q \in Section : Field(q)' = Field(q)
    BY <1>1 DEF Field
<1>3. \A q \in Section \ {s} : handleGetSettings'[q] = handleGetSettings[q]
    BY <1>1 DEF handleGetSettings, FormsInv, FormsTyped
<1>4. FormsTyped'
    BY <1>1 DEF FormsInv, FormsTyped
<1>5. ASSUME NEW q \in Section PROVE SavesFit(q)'
    BY <1>1, <1>2 DEF FormsInv, SavesFit
<1>6. ASSUME NEW q \in Section \ excused' PROVE Current(q)'
    <2>1. Current(q) /\ q # s /\ stored'[q] = stored[q] /\ meant'[q] = meant[q]
        BY <1>1 DEF FormsInv, FormsTyped
    <2> QED
        BY <2>1, <1>1, <1>2, <1>3 DEF Current
<1> QED
    BY <1>4, <1>5, <1>6 DEF FormsInv

LEMMA FormsInvStays == FormsInv /\ [FormsNext]_formVars => FormsInv'
BY FormsStutter, TypeKeeps, OpenAlertingKeeps, MountKeeps, ClickKeeps, UpdateRefusedKeeps,
   ServeSettingsKeeps, LoadSettingsKeeps, LoadSettingsFailsKeeps, HandleUpdateKeeps,
   OtherSavesKeeps DEF FormsNext

\* Saving puts nothing old back, for any sections and values and any number of saves: where
\* nobody else saved, no load failed and no save crossed an answer, the server has what was
\* last chosen.
THEOREM ChosenStays == FormsSpec => []SavedStays
<1>1. FormsInv => SavedStays
    BY DEF FormsInv, Current, SavedStays
<1> QED
    BY <1>1, FormsInvFirst, FormsInvStays, PTL DEF FormsSpec
-----------------------------------------------------------------------------
(* The saved backups. *)

Items(s) == {s[i] : i \in DOMAIN s}
JobRecord == [op : {"none", "save", "delete"},
              pc : {"none", "remove", "read", "prune", "index", "write"},
              file : Nat, entries : Seq(Nat), page : BOOLEAN]

\* Files whose entries are about to be written.
AboutToBeListed ==
    {job[j].file : j \in {k \in Job : job[k].op = "save" /\ job[k].pc \in {"index", "write"}}}
Settled == files \ (astray \cup AboutToBeListed)

JobFits(j) ==
    /\ job[j].op = "none" <=> job[j] = NoJob
    /\ job[j].pc = "none" <=> job[j] = NoJob
    /\ job[j].pc = "prune" => job[j].op = "save"
    /\ job[j].pc = "remove" => job[j].op = "delete"
    /\ job[j].pc \in {"index", "write"} => Len(job[j].entries) <= MaxCopies

BackupsTyped ==
    /\ second \in Nat /\ files \subseteq Nat /\ shown \subseteq Nat
    /\ index \in Seq(Nat) /\ Len(index) <= MaxCopies
    /\ job \in [Job -> JobRecord]
    /\ \A j \in Job : JobFits(j)

\* A save that does not work alone is astray.
AloneOrAstray ==
    \A j, k \in Job : j # k /\ job[j] # NoJob /\ job[k].op = "save" => job[k].file \in astray

\* What a job is going to write lists every backup that is settled, and the one it saves;
\* what is being deleted does not come back.
EntriesCover(j) ==
    /\ job[j].pc \in {"prune", "index", "write"} => Settled \subseteq Items(job[j].entries)
    /\ job[j].pc \in {"index", "write"} /\ job[j].op = "save" => job[j].file \in Items(job[j].entries)
    /\ job[j].pc \in {"read", "index", "write"} /\ job[j].op = "delete" =>
          job[j].file \notin files \ astray

BackupsInv ==
    /\ BackupsTyped
    /\ AloneOrAstray
    /\ Writing \/ Settled \subseteq Items(index)
    /\ \A j \in Job : EntriesCover(j)

LEMMA ItemsOfTail ==
    ASSUME NEW s \in Seq(Nat), Len(s) > 0
    PROVE  /\ Tail(s) \in Seq(Nat) /\ Len(Tail(s)) = Len(s) - 1
           /\ Items(s) \ {Head(s)} \subseteq Items(Tail(s))
<1>1. Tail(s) \in Seq(Nat) /\ Len(Tail(s)) = Len(s) - 1 /\ Head(s) = s[1]
      /\ \A i \in 1 .. Len(s) - 1 : Tail(s)[i] = s[i + 1]
    OBVIOUS
<1>2. ASSUME NEW i \in DOMAIN s, s[i] # Head(s) PROVE s[i] \in Items(Tail(s))
    <2>1. i - 1 \in 1 .. Len(s) - 1 /\ (i - 1) + 1 = i
        BY <1>1, <1>2
    <2>2. i - 1 \in DOMAIN Tail(s) /\ Tail(s)[i - 1] = s[i]
        BY <1>1, <2>1
    <2> QED
        BY <2>2 DEF Items
<1> QED
    BY <1>1, <1>2 DEF Items

LEMMA ItemsOfAppend ==
    ASSUME NEW s \in Seq(Nat), NEW f \in Nat
    PROVE  /\ Append(s, f) \in Seq(Nat) /\ Len(Append(s, f)) = Len(s) + 1
           /\ Items(s) \cup {f} \subseteq Items(Append(s, f))
<1> DEFINE t == Append(s, f)
<1>1. t \in Seq(Nat) /\ Len(t) = Len(s) + 1 /\ t[Len(s) + 1] = f
      /\ \A i \in 1 .. Len(s) : t[i] = s[i]
    OBVIOUS
<1>2. Len(s) + 1 \in DOMAIN t /\ \A i \in DOMAIN s : i \in DOMAIN t /\ t[i] = s[i]
    BY <1>1
<1> HIDE DEF t
<1>3. f \in Items(t) /\ \A i \in DOMAIN s : s[i] \in Items(t)
    BY <1>1, <1>2 DEF Items
<1> QED
    BY <1>1, <1>3 DEF Items, t

\* Picking entries in their order keeps all that are picked: the places are as many as
\* the picked entries and no two are the same.
LEMMA ItemsKept ==
    ASSUME NEW s \in Seq(Nat), NEW kept \in SUBSET (DOMAIN s),
           NEW place \in [1 .. Cardinality(kept) -> kept],
           \A m, n \in DOMAIN place : m < n => place[m] < place[n],
           NEW e, e = [n \in DOMAIN place |-> s[place[n]]]
    PROVE  /\ e \in Seq(Nat) /\ Len(e) <= Len(s)
           /\ Items(e) = {s[i] : i \in kept}
<1> DEFINE c == Cardinality(kept)
<1>1. IsFiniteSet(kept) /\ c \in Nat /\ c <= Len(s)
    <2>0. Len(s) \in Nat /\ DOMAIN s = 1 .. Len(s)
        OBVIOUS
    <2>1. IsFiniteSet(1 .. Len(s)) /\ Cardinality(1 .. Len(s)) = IF 1 > Len(s) THEN 0 ELSE Len(s) - 1 + 1
        BY <2>0, FS_Interval
    <2>2. Cardinality(1 .. Len(s)) = Len(s)
        BY <2>0, <2>1
    <2>3. IsFiniteSet(kept) /\ Cardinality(kept) <= Cardinality(1 .. Len(s))
        BY <2>0, <2>1, FS_Subset
    <2>4. Cardinality(kept) \in Nat
        BY <2>3, FS_CardinalityType
    <2> QED
        BY <2>2, <2>3, <2>4
<1>2. DOMAIN place = 1 .. c /\ \A n \in 1 .. c : place[n] \in kept /\ place[n] \in Nat
    OBVIOUS
<1> HIDE DEF c
<1>3. IsFiniteSet(1 .. c) /\ Cardinality(1 .. c) = c
    BY <1>1, FS_Interval
<1>4. place \in Injection(1 .. c, kept)
    <2>1. ASSUME NEW m \in 1 .. c, NEW n \in 1 .. c, m # n PROVE place[m] # place[n]
        <3>1. m < n \/ n < m
            BY <2>1, <1>1
        <3> QED
            BY <3>1, <1>2
    <2> QED
        BY <2>1, <1>2 DEF Injection, IsInjective, c
<1>5. place \in Surjection(1 .. c, kept)
    BY <1>1, <1>3, <1>4, FS_Injection DEF c
<1>6. \A i \in kept : \E n \in 1 .. c : place[n] = i
    BY <1>5 DEF Surjection
<1>7. e \in Seq(Nat) /\ Len(e) = c /\ DOMAIN e = 1 .. c
    BY <1>1, <1>2
<1>8. \A n \in 1 .. c : e[n] = s[place[n]]
    BY <1>2
<1>9. Items(e) \subseteq {s[i] : i \in kept}
    BY <1>2, <1>7, <1>8 DEF Items
<1>10. ASSUME NEW i \in kept PROVE s[i] \in Items(e)
    <2>1. PICK n \in 1 .. c : place[n] = i
        BY <1>6
    <2> QED
        BY <2>1, <1>7, <1>8 DEF Items
<1> QED
    BY <1>1, <1>7, <1>9, <1>10

LEMMA TornTyped == Torn \in Seq(Nat) /\ Len(Torn) = 1 /\ Len(Torn) <= MaxCopies
<1>1. Torn \in Seq(Nat) /\ Len(Torn) = 1
    BY DEF Torn
<1> QED
    BY <1>1, MaxCopiesAssumption

LEMMA NothingListed == <<>> \in Seq(Nat) /\ Len(<<>>) <= MaxCopies
<1>1. <<>> \in Seq(Nat) /\ Len(<<>>) = 0
    OBVIOUS
<1> QED
    BY <1>1, MaxCopiesAssumption

LEMMA BackupsInvFirst == BackupsInit => BackupsInv
<1> SUFFICES ASSUME BackupsInit PROVE BackupsInv
    OBVIOUS
<1>1. NoJob \in JobRecord /\ NoJob.op = "none" /\ NoJob.pc = "none"
    BY DEF NoJob, JobRecord
<1>2. index \in Seq(Nat) /\ Len(index) = 0
    BY DEF BackupsInit
<1>3. BackupsTyped
    BY <1>1, <1>2, MaxCopiesAssumption DEF BackupsInit, BackupsTyped, JobFits
<1>4. Settled = {} /\ AloneOrAstray
    BY <1>1 DEF BackupsInit, Settled, AloneOrAstray
<1>5. \A j \in Job : EntriesCover(j)
    BY <1>1 DEF BackupsInit, EntriesCover
<1> QED
    BY <1>3, <1>4, <1>5 DEF BackupsInv

\* One job moves on, the others stay.
LEMMA JobStep ==
    ASSUME job \in [Job -> JobRecord], NEW j \in Job, NEW new \in JobRecord,
           job' = [job EXCEPT ![j] = new]
    PROVE  /\ job' \in [Job -> JobRecord] /\ job'[j] = new
           /\ \A k \in Job \ {j} : job'[k] = job[k]
OBVIOUS

LEMMA OthersFit ==
    ASSUME NEW k \in Job, JobFits(k), job'[k] = job[k]
    PROVE  JobFits(k)'
BY DEF JobFits

LEMMA OthersCover ==
    ASSUME NEW k \in Job, EntriesCover(k), job'[k] = job[k], Settled' \subseteq Settled,
           job[k].op = "delete" /\ job[k].file \in files' \ astray' => job[k].file \in files \ astray
    PROVE  EntriesCover(k)'
BY DEF EntriesCover

LEMMA StartKeeps ==
    ASSUME BackupsInv, NEW j \in Job, NEW new \in JobRecord, Start(j, new),
           (new.op = "save" /\ new.pc = "read") \/ (new.op = "delete" /\ new.pc = "remove"),
           UNCHANGED <<second, files, index, shown>>
    PROVE  BackupsInv'
<1>1. job[j] = NoJob /\ job' = [job EXCEPT ![j] = new]
      /\ astray' = IF Working = {} THEN astray
                   ELSE astray \cup Saved \cup (IF new.op = "save" THEN {new.file} ELSE {})
    BY DEF Start
<1>n. NoJob.op = "none" /\ NoJob.pc = "none"
    BY DEF NoJob
<1>2. job' \in [Job -> JobRecord] /\ job'[j] = new /\ \A k \in Job \ {j} : job'[k] = job[k]
    BY <1>1, JobStep DEF BackupsInv, BackupsTyped
<1>3. JobFits(j)'
    BY <1>2, <1>n DEF JobFits
<1>4. BackupsTyped'
    BY <1>2, <1>3, OthersFit DEF BackupsInv, BackupsTyped
<1>5. AloneOrAstray'
    <2>1. CASE Working = {}
        BY <2>1, <1>1, <1>2, <1>n DEF Working, AloneOrAstray
    <2>2. CASE Working # {}
        <3>1. \A k \in Job \ {j} : job'[k].op = "save" => job'[k].file \in astray'
            BY <2>2, <1>1, <1>2 DEF Saved
        <3>2. new.op = "save" => new.file \in astray'
            BY <2>2, <1>1
        <3> QED
            BY <3>1, <3>2, <1>2 DEF AloneOrAstray
    <2> QED
        BY <2>1, <2>2
<1>6. astray \subseteq astray' /\ AboutToBeListed \subseteq AboutToBeListed'
    BY <1>1, <1>2, <1>n DEF AboutToBeListed
<1>7. Settled' \subseteq Settled
    BY <1>6 DEF Settled
<1>8. ASSUME NEW k \in Job PROVE EntriesCover(k)'
    <2>1. CASE k = j
        BY <2>1, <1>2 DEF EntriesCover
    <2>2. CASE k # j
        BY <2>2, <1>2, <1>6, <1>7, OthersCover DEF BackupsInv
    <2> QED
        BY <2>1, <2>2
<1>9. Writing => Writing'
    BY <1>1, <1>2, <1>n DEF Writing
<1> QED
    BY <1>4, <1>5, <1>7, <1>8, <1>9 DEF BackupsInv

\* A job ends that leaves no file behind but those astray, and the index as it was or,
\* where it was being written, in some state.
LEMMA EndKeeps ==
    ASSUME BackupsInv, NEW j \in Job, End(j), UNCHANGED <<second, files, shown>>,
           astray \subseteq astray', index' \in {index, Torn},
           job[j].pc # "write" => index' = index,
           job[j].pc = "write" => files \subseteq astray',
           job[j].op = "save" /\ job[j].pc = "index" => job[j].file \in astray'
    PROVE  BackupsInv'
<1>n. NoJob \in JobRecord /\ NoJob.op = "none" /\ NoJob.pc = "none"
    BY DEF NoJob, JobRecord
<1>2. job' \in [Job -> JobRecord] /\ job'[j] = NoJob /\ \A k \in Job \ {j} : job'[k] = job[k]
    BY <1>n, JobStep DEF BackupsInv, BackupsTyped, End
<1>3. JobFits(j)'
    BY <1>2, <1>n DEF JobFits
<1>4. BackupsTyped'
    <2>1. index' \in Seq(Nat) /\ Len(index') <= MaxCopies
        BY TornTyped DEF BackupsInv, BackupsTyped
    <2> QED
        BY <2>1, <1>2, <1>3, OthersFit DEF BackupsInv, BackupsTyped
<1>5. AloneOrAstray'
    BY <1>2, <1>n DEF AloneOrAstray, BackupsInv
<1>7. Settled' \subseteq Settled
    <2>1. CASE job[j].pc = "write"
        BY <2>1 DEF Settled
    <2>2. CASE job[j].pc # "write"
        <3>1. AboutToBeListed \subseteq AboutToBeListed' \cup astray'
            BY <2>2, <1>2 DEF AboutToBeListed
        <3> QED
            BY <3>1 DEF Settled
    <2> QED
        BY <2>1, <2>2
<1>8. ASSUME NEW k \in Job PROVE EntriesCover(k)'
    <2>1. CASE k = j
        BY <2>1, <1>2, <1>n DEF EntriesCover
    <2>2. CASE k # j
        BY <2>2, <1>2, <1>7, OthersCover DEF BackupsInv
    <2> QED
        BY <2>1, <2>2
<1>9. Writing' \/ Settled' \subseteq Items(index')
    <2>1. CASE job[j].pc = "write"
        BY <2>1 DEF Settled
    <2>2. CASE job[j].pc # "write"
        <3>1. Writing => Writing'
            BY <2>2, <1>2 DEF Writing
        <3> QED
            BY <2>2, <3>1, <1>7 DEF BackupsInv
    <2> QED
        BY <2>1, <2>2
<1> QED
    BY <1>4, <1>5, <1>8, <1>9 DEF BackupsInv

\* Steps of a job that are no end of it: what they keep.
LEMMA MoveKeeps ==
    ASSUME BackupsInv, NEW j \in Job, NEW new \in JobRecord, job' = [job EXCEPT ![j] = new],
           job[j] # NoJob, new # NoJob, new.op = job[j].op, new.file = job[j].file, new.op # "none",
           new.pc # "none", new.pc = "prune" => new.op = "save",
           new.pc = "remove" => new.op = "delete", job[j].pc # "write",
           new.pc \in {"index", "write"} => Len(new.entries) <= MaxCopies,
           new.op = "save" /\ job[j].pc = "index" => new.pc \in {"index", "write"},
           index' = index \/ (new.pc = "write" /\ index' = <<>>),
           UNCHANGED <<second, shown>>, astray \subseteq astray', files' \subseteq Nat,
           files' \subseteq files \/ (new.op = "save" /\ new.pc = "index"
                                        /\ files' = files \cup {new.file})
    PROVE  /\ BackupsTyped' /\ AloneOrAstray' /\ Settled' \subseteq Settled
           /\ job'[j] = new
           /\ EntriesCover(j)' => BackupsInv'
<1>1. job' \in [Job -> JobRecord] /\ job'[j] = new /\ \A k \in Job \ {j} : job'[k] = job[k]
    BY JobStep DEF BackupsInv, BackupsTyped
<1>2. JobFits(j)'
    BY <1>1 DEF JobFits
<1>3. BackupsTyped'
    <2>1. index' \in Seq(Nat) /\ Len(index') <= MaxCopies
        <3>1. CASE index' = index
            BY <3>1 DEF BackupsInv, BackupsTyped
        <3>2. CASE index' = <<>>
            BY <3>2, NothingListed
        <3> QED
            BY <3>1, <3>2
    <2> QED
        BY <2>1, <1>1, <1>2, OthersFit DEF BackupsInv, BackupsTyped
<1>4. AloneOrAstray'
    BY <1>1 DEF AloneOrAstray, BackupsInv
<1>5. AboutToBeListed \subseteq AboutToBeListed'
    BY <1>1 DEF AboutToBeListed
<1>6. new.op = "save" /\ new.pc = "index" => new.file \in AboutToBeListed'
    BY <1>1 DEF AboutToBeListed
<1>7. Settled' \subseteq Settled
    BY <1>5, <1>6 DEF Settled
<1>8. ASSUME NEW k \in Job \ {j} PROVE EntriesCover(k)'
    <2>1. job[k].op = "delete" => job[k] # NoJob
        BY DEF NoJob
    <2>2. job[k].op = "delete" /\ new.op = "save" => new.file \in astray
        BY <2>1 DEF BackupsInv, AloneOrAstray
    <2> QED
        BY <2>2, <1>1, <1>7, OthersCover DEF BackupsInv
<1>9. Writing => Writing'
    BY <1>1 DEF Writing
<1>10. new.pc = "write" => Writing'
    BY <1>1 DEF Writing
<1>11. Writing' \/ Settled' \subseteq Items(index')
    BY <1>7, <1>9, <1>10 DEF BackupsInv
<1> QED
    BY <1>1, <1>3, <1>4, <1>7, <1>8, <1>11 DEF BackupsInv

LEMMA ReadIndexKeeps ==
    ASSUME BackupsInv, NEW j \in Job, ReadIndex(j)
    PROVE  BackupsInv'
<1> DEFINE kept == {i \in loadBackupIndex : job[j].op = "delete" => index[i] # job[j].file}
<1>1. /\ UNCHANGED <<second, files, index, shown>> /\ job[j].pc = "read"
      /\ astray' = IF Writing THEN astray \cup files ELSE astray
    BY DEF ReadIndex
<1>2. /\ job[j] \in JobRecord /\ JobFits(j) /\ EntriesCover(j) /\ index \in Seq(Nat)
      /\ Len(index) <= MaxCopies /\ files \subseteq Nat
      /\ Writing \/ Settled \subseteq Items(index)
    BY DEF BackupsInv, BackupsTyped
<1>3. kept \in SUBSET (DOMAIN index)
    BY DEF loadBackupIndex
<1>4. PICK place \in [1 .. Cardinality(kept) -> kept] :
          /\ \A m, n \in DOMAIN place : m < n => place[m] < place[n]
          /\ job' = [job EXCEPT ![j].pc = IF job[j].op = "save" THEN "prune" ELSE "index",
                                ![j].entries = [n \in DOMAIN place |-> index[place[n]]]]
    BY DEF ReadIndex
<1>5. PICK e : e = [n \in DOMAIN place |-> index[place[n]]]
    OBVIOUS
<1> HIDE DEF kept
<1>6. e \in Seq(Nat) /\ Len(e) <= Len(index) /\ Items(e) = {index[i] : i \in kept}
    BY <1>2, <1>3, <1>4, <1>5, ItemsKept
<1>7. PICK new : new = [job[j] EXCEPT !.pc = IF job[j].op = "save" THEN "prune" ELSE "index",
                                      !.entries = e]
    OBVIOUS
<1>8. /\ new \in JobRecord /\ new.op = job[j].op /\ new.file = job[j].file /\ new.entries = e
      /\ new.pc = IF job[j].op = "save" THEN "prune" ELSE "index"
    BY <1>2, <1>6, <1>7 DEF JobRecord
<1>9. job' = [job EXCEPT ![j] = new]
    BY <1>2, <1>4, <1>5, <1>7 DEF JobRecord, BackupsInv, BackupsTyped
<1>10. Len(new.entries) <= MaxCopies
    BY <1>2, <1>6, <1>8, MaxCopiesAssumption
<1>11. job[j].op # "none" /\ job[j] # NoJob /\ new # NoJob
    BY <1>1, <1>2, <1>8 DEF JobFits, NoJob
<1>12. /\ BackupsTyped' /\ AloneOrAstray' /\ Settled' \subseteq Settled /\ job'[j] = new
       /\ EntriesCover(j)' => BackupsInv'
    BY <1>1, <1>2, <1>8, <1>9, <1>10, <1>11, MoveKeeps
<1>13. Settled' \subseteq {index[i] : i \in kept}
    <2>1. CASE Writing
        BY <2>1, <1>1 DEF Settled
    <2>2. ASSUME ~Writing, NEW f \in Settled PROVE f \in {index[i] : i \in kept}
        <3>1. PICK i \in DOMAIN index : index[i] = f
            BY <2>2, <1>2 DEF Items
        <3>2. f \in files \ astray
            BY <2>2 DEF Settled
        <3>3. job[j].op = "delete" => f # job[j].file
            BY <1>1, <1>2, <3>2 DEF EntriesCover
        <3> QED
            BY <3>1, <3>2, <3>3 DEF kept, loadBackupIndex
    <2> QED
        BY <2>1, <2>2, <1>12
<1>14. job[j].op = "delete" => job[j].file \notin files' \ astray'
    BY <1>1, <1>2 DEF EntriesCover
<1> QED
    BY <1>6, <1>8, <1>12, <1>13, <1>14 DEF EntriesCover

LEMMA ReadIndexFailsKeeps ==
    ASSUME BackupsInv, NEW j \in Job, ReadIndexFails(j)
    PROVE  BackupsInv'
<1>1. /\ UNCHANGED <<second, files, index, shown>> /\ job[j].pc = "read"
      /\ astray' = astray \cup files
      /\ job' = [job EXCEPT ![j].pc = IF job[j].op = "save" THEN "prune" ELSE "index",
                            ![j].entries = <<>>]
    BY DEF ReadIndexFails
<1>2. job[j] \in JobRecord /\ JobFits(j) /\ files \subseteq Nat
    BY DEF BackupsInv, BackupsTyped
<1>3. PICK new : new = [job[j] EXCEPT !.pc = IF job[j].op = "save" THEN "prune" ELSE "index",
                                      !.entries = <<>>]
    OBVIOUS
<1>4. /\ new \in JobRecord /\ new.op = job[j].op /\ new.file = job[j].file /\ new.entries = <<>>
      /\ new.pc = IF job[j].op = "save" THEN "prune" ELSE "index"
    BY <1>2, <1>3, NothingListed DEF JobRecord
<1>5. job' = [job EXCEPT ![j] = new]
    BY <1>1, <1>2, <1>3 DEF JobRecord, BackupsInv, BackupsTyped
<1>6. Len(new.entries) <= MaxCopies
    BY <1>4, NothingListed
<1>7. job[j].op # "none" /\ job[j] # NoJob /\ new # NoJob
    BY <1>1, <1>2, <1>4 DEF JobFits, NoJob
<1>8. job'[j] = new /\ (EntriesCover(j)' => BackupsInv')
    BY <1>1, <1>2, <1>4, <1>5, <1>6, <1>7, MoveKeeps
<1>9. Settled' = {} /\ files' \ astray' = {}
    BY <1>1 DEF Settled
<1> QED
    BY <1>4, <1>8, <1>9 DEF EntriesCover

LEMMA PruneKeeps ==
    ASSUME BackupsInv, NEW j \in Job, Prune(j)
    PROVE  BackupsInv'
<1> DEFINE e == job[j].entries
           new == [job[j] EXCEPT !.entries = Tail(e)]
<1>1. /\ UNCHANGED <<second, index, shown, astray>> /\ job[j].pc = "prune" /\ Len(e) >= MaxCopies
      /\ files' = files \ {Head(e)} /\ job' = [job EXCEPT ![j].entries = Tail(@)]
    BY DEF Prune, Full
<1>2. job[j] \in JobRecord /\ JobFits(j) /\ EntriesCover(j) /\ files \subseteq Nat
    BY DEF BackupsInv, BackupsTyped
<1>3. e \in Seq(Nat) /\ Len(e) > 0
    BY <1>1, <1>2, MaxCopiesAssumption DEF JobRecord
<1>4. Tail(e) \in Seq(Nat) /\ Items(e) \ {Head(e)} \subseteq Items(Tail(e))
    BY <1>3, ItemsOfTail
<1>5. job' = [job EXCEPT ![j] = new]
    BY <1>1, <1>2 DEF BackupsInv, BackupsTyped
<1>6. new \in JobRecord /\ new.op = job[j].op /\ new.file = job[j].file /\ new.pc = "prune"
      /\ new.entries = Tail(e)
    BY <1>1, <1>2, <1>4 DEF JobRecord
<1> HIDE DEF new, e
<1>7. job[j] # NoJob /\ new # NoJob /\ job[j].op = "save"
    BY <1>1, <1>2, <1>6 DEF JobFits, NoJob
<1>8. /\ BackupsTyped' /\ AloneOrAstray' /\ Settled' \subseteq Settled /\ job'[j] = new
      /\ EntriesCover(j)' => BackupsInv'
    BY <1>1, <1>2, <1>5, <1>6, <1>7, MoveKeeps
<1>9. Settled' \subseteq Items(new.entries)
    <2>1. Settled \subseteq Items(e)
        BY <1>1, <1>2 DEF EntriesCover, e
    <2>2. Head(e) \notin Settled'
        BY <1>1 DEF Settled
    <2> QED
        BY <2>1, <2>2, <1>4, <1>6, <1>8
<1> QED
    BY <1>6, <1>7, <1>8, <1>9 DEF EntriesCover

LEMMA PruneFailsKeeps ==
    ASSUME BackupsInv, NEW j \in Job, PruneFails(j)
    PROVE  BackupsInv'
<1> DEFINE e == job[j].entries
           new == [job[j] EXCEPT !.entries = Tail(e)]
<1>1. /\ UNCHANGED <<second, files, index, shown>> /\ job[j].pc = "prune" /\ Len(e) >= MaxCopies
      /\ astray' = astray \cup {Head(e)} /\ job' = [job EXCEPT ![j].entries = Tail(@)]
    BY DEF PruneFails, Full
<1>2. job[j] \in JobRecord /\ JobFits(j) /\ EntriesCover(j) /\ files \subseteq Nat
    BY DEF BackupsInv, BackupsTyped
<1>3. e \in Seq(Nat) /\ Len(e) > 0
    BY <1>1, <1>2, MaxCopiesAssumption DEF JobRecord
<1>4. Tail(e) \in Seq(Nat) /\ Items(e) \ {Head(e)} \subseteq Items(Tail(e))
    BY <1>3, ItemsOfTail
<1>5. job' = [job EXCEPT ![j] = new]
    BY <1>1, <1>2 DEF BackupsInv, BackupsTyped
<1>6. new \in JobRecord /\ new.op = job[j].op /\ new.file = job[j].file /\ new.pc = "prune"
      /\ new.entries = Tail(e)
    BY <1>1, <1>2, <1>4 DEF JobRecord
<1> HIDE DEF new, e
<1>7. job[j] # NoJob /\ new # NoJob /\ job[j].op = "save"
    BY <1>1, <1>2, <1>6 DEF JobFits, NoJob
<1>8. /\ BackupsTyped' /\ AloneOrAstray' /\ Settled' \subseteq Settled /\ job'[j] = new
      /\ EntriesCover(j)' => BackupsInv'
    BY <1>1, <1>2, <1>5, <1>6, <1>7, MoveKeeps
<1>9. Settled' \subseteq Items(new.entries)
    <2>1. Settled \subseteq Items(e)
        BY <1>1, <1>2 DEF EntriesCover, e
    <2>2. Head(e) \notin Settled'
        BY <1>1 DEF Settled
    <2> QED
        BY <2>1, <2>2, <1>4, <1>6, <1>8
<1> QED
    BY <1>6, <1>7, <1>8, <1>9 DEF EntriesCover

LEMMA TruncateIndexKeeps ==
    ASSUME BackupsInv, NEW j \in Job, TruncateIndex(j)
    PROVE  BackupsInv'
<1> DEFINE new == [job[j] EXCEPT !.pc = "write"]
<1>1. /\ UNCHANGED <<second, files, shown, astray>> /\ job[j].pc = "index"
      /\ index' = <<>> /\ job' = [job EXCEPT ![j].pc = "write"]
    BY DEF TruncateIndex, Move
<1>2. job[j] \in JobRecord /\ JobFits(j) /\ EntriesCover(j) /\ files \subseteq Nat
    BY DEF BackupsInv, BackupsTyped
<1>3. job' = [job EXCEPT ![j] = new]
    BY <1>1, <1>2 DEF BackupsInv, BackupsTyped
<1>4. new \in JobRecord /\ new.op = job[j].op /\ new.file = job[j].file /\ new.pc = "write"
      /\ new.entries = job[j].entries
    BY <1>1, <1>2 DEF JobRecord
<1> HIDE DEF new
<1>5. job[j] # NoJob /\ new # NoJob /\ new.op # "none" /\ Len(new.entries) <= MaxCopies
    BY <1>1, <1>2, <1>4 DEF JobFits, NoJob
<1>6. Settled' \subseteq Settled /\ job'[j] = new /\ (EntriesCover(j)' => BackupsInv')
    BY <1>1, <1>2, <1>3, <1>4, <1>5, MoveKeeps
<1> QED
    BY <1>1, <1>2, <1>4, <1>6 DEF EntriesCover

LEMMA WriteFileKeeps ==
    ASSUME BackupsInv, NEW j \in Job, WriteFile(j)
    PROVE  BackupsInv'
<1> DEFINE e == job[j].entries
           new == [job[j] EXCEPT !.pc = "index", !.entries = Append(e, job[j].file)]
<1>1. /\ UNCHANGED <<second, index, shown, astray>> /\ job[j].pc = "prune" /\ ~(Len(e) >= MaxCopies)
      /\ files' = files \cup {job[j].file}
      /\ job' = [job EXCEPT ![j].pc = "index", ![j].entries = Append(@, job[j].file)]
    BY DEF WriteFile, Full
<1>2. job[j] \in JobRecord /\ JobFits(j) /\ EntriesCover(j) /\ files \subseteq Nat
    BY DEF BackupsInv, BackupsTyped
<1>3. e \in Seq(Nat) /\ job[j].file \in Nat
    BY <1>2 DEF JobRecord
<1>4. /\ Append(e, job[j].file) \in Seq(Nat) /\ Len(Append(e, job[j].file)) = Len(e) + 1
      /\ Items(e) \cup {job[j].file} \subseteq Items(Append(e, job[j].file))
    BY <1>3, ItemsOfAppend
<1>5. job' = [job EXCEPT ![j] = new]
    BY <1>1, <1>2 DEF BackupsInv, BackupsTyped
<1>6. new \in JobRecord /\ new.op = job[j].op /\ new.file = job[j].file /\ new.pc = "index"
      /\ new.entries = Append(e, job[j].file)
    BY <1>1, <1>2, <1>4 DEF JobRecord
<1> HIDE DEF new, e
<1>7. job[j] # NoJob /\ new # NoJob /\ job[j].op = "save"
    BY <1>1, <1>2, <1>6 DEF JobFits, NoJob
<1>l. Len(new.entries) <= MaxCopies
    BY <1>1, <1>3, <1>4, <1>6, MaxCopiesAssumption
<1>8. /\ BackupsTyped' /\ AloneOrAstray' /\ Settled' \subseteq Settled /\ job'[j] = new
      /\ EntriesCover(j)' => BackupsInv'
    <2>1. files' \subseteq Nat
        BY <1>1, <1>2, <1>3
    <2> QED
        BY <2>1, <1>1, <1>2, <1>5, <1>6, <1>7, <1>l, MoveKeeps
<1>9. Settled' \subseteq Items(new.entries)
    <2>1. Settled \subseteq Items(e)
        BY <1>1, <1>2 DEF EntriesCover, e
    <2> QED
        BY <2>1, <1>4, <1>6, <1>8
<1> QED
    BY <1>4, <1>6, <1>7, <1>8, <1>9 DEF EntriesCover

LEMMA RemoveFileKeeps ==
    ASSUME BackupsInv, NEW j \in Job, RemoveFile(j)
    PROVE  BackupsInv'
<1> DEFINE new == [job[j] EXCEPT !.pc = "read"]
<1>1. /\ UNCHANGED <<second, index, shown, astray>> /\ job[j].pc = "remove"
      /\ files' = files \ {job[j].file} /\ job' = [job EXCEPT ![j].pc = "read"]
    BY DEF RemoveFile, Move
<1>2. job[j] \in JobRecord /\ JobFits(j) /\ files \subseteq Nat
    BY DEF BackupsInv, BackupsTyped
<1>5. job' = [job EXCEPT ![j] = new]
    BY <1>1, <1>2 DEF BackupsInv, BackupsTyped
<1>6. new \in JobRecord /\ new.op = job[j].op /\ new.file = job[j].file /\ new.pc = "read"
    BY <1>1, <1>2 DEF JobRecord
<1> HIDE DEF new
<1>7. job[j] # NoJob /\ new # NoJob /\ job[j].op = "delete"
    BY <1>1, <1>2, <1>6 DEF JobFits, NoJob
<1>8. /\ BackupsTyped' /\ AloneOrAstray' /\ Settled' \subseteq Settled /\ job'[j] = new
      /\ EntriesCover(j)' => BackupsInv'
    BY <1>1, <1>2, <1>5, <1>6, <1>7, MoveKeeps
<1> QED
    BY <1>1, <1>6, <1>8 DEF EntriesCover

LEMMA SaveIndexKeeps ==
    ASSUME BackupsInv, NEW j \in Job, saveBackupIndex(j)
    PROVE  BackupsInv'
<1>1. /\ UNCHANGED <<second, files, shown>> /\ job[j].pc = "write" /\ astray \subseteq astray'
      /\ \/ index' = job[j].entries
         \/ index' = Torn /\ astray' = astray \cup files
      /\ job' = [job EXCEPT ![j] = NoJob]
    BY DEF saveBackupIndex, End
<1>n. NoJob \in JobRecord /\ NoJob.op = "none" /\ NoJob.pc = "none"
    BY DEF NoJob, JobRecord
<1>2. job' \in [Job -> JobRecord] /\ job'[j] = NoJob /\ \A k \in Job \ {j} : job'[k] = job[k]
    BY <1>1, <1>n, JobStep DEF BackupsInv, BackupsTyped
<1>3. job[j] \in JobRecord /\ JobFits(j) /\ EntriesCover(j)
    BY DEF BackupsInv, BackupsTyped
<1>4. index' \in Seq(Nat) /\ Len(index') <= MaxCopies
    BY <1>1, <1>3, TornTyped DEF JobRecord, JobFits
<1>5. JobFits(j)'
    BY <1>2, <1>n DEF JobFits
<1>6. BackupsTyped'
    BY <1>1, <1>2, <1>4, <1>5, OthersFit DEF BackupsInv, BackupsTyped
<1>7. AloneOrAstray'
    BY <1>1, <1>2, <1>n DEF AloneOrAstray, BackupsInv
<1>8. AboutToBeListed \subseteq AboutToBeListed' \cup (IF job[j].op = "save" THEN {job[j].file} ELSE {})
    BY <1>2 DEF AboutToBeListed
<1>9. Settled' \subseteq Settled \cup (IF job[j].op = "save" THEN {job[j].file} ELSE {})
    BY <1>1, <1>8 DEF Settled
<1>10. Settled' \subseteq Items(index')
    <2>1. CASE index' = job[j].entries
        BY <2>1, <1>1, <1>3, <1>9 DEF EntriesCover
    <2>2. CASE astray' = astray \cup files
        BY <2>2, <1>1 DEF Settled
    <2> QED
        BY <2>1, <2>2, <1>1
<1>11. ASSUME NEW k \in Job PROVE EntriesCover(k)'
    <2>1. CASE k = j
        BY <2>1, <1>2, <1>n DEF EntriesCover
    <2>2. CASE k # j /\ job[k] = NoJob
        BY <2>2, <1>2, <1>n DEF EntriesCover
    <2>3. CASE k # j /\ job[k] # NoJob
        <3>1. job[j].op = "save" => job[j].file \in astray
            BY <2>3 DEF BackupsInv, AloneOrAstray
        <3>2. Settled' \subseteq Settled
            BY <3>1, <1>1, <1>9 DEF Settled
        <3> QED
            BY <2>3, <3>2, <1>1, <1>2, OthersCover DEF BackupsInv
    <2> QED
        BY <2>1, <2>2, <2>3
<1> QED
    BY <1>6, <1>7, <1>10, <1>11 DEF BackupsInv

LEMMA BackupsInvStays == BackupsInv /\ [BackupsNext]_backupVars => BackupsInv'
<1> SUFFICES ASSUME BackupsInv, [BackupsNext]_backupVars PROVE BackupsInv'
    OBVIOUS
<1>1. ASSUME UNCHANGED <<files, index, job, astray>>, second' \in Nat, shown' \subseteq Nat
      PROVE  BackupsInv'
    <2>1. Settled' = Settled
        BY <1>1 DEF Settled, AboutToBeListed
    <2>2. BackupsTyped' /\ AloneOrAstray'
        BY <1>1 DEF BackupsInv, BackupsTyped, JobFits, AloneOrAstray
    <2>3. \A j \in Job : EntriesCover(j)'
        BY <1>1, <2>1 DEF BackupsInv, EntriesCover
    <2> QED
        BY <1>1, <2>1, <2>2, <2>3 DEF BackupsInv, Writing
<1>2. second \in Nat /\ shown \subseteq Nat /\ Listed \subseteq Nat
    BY DEF BackupsInv, BackupsTyped, Listed, loadBackupIndex
<1>3. CASE UNCHANGED backupVars
    BY <1>3, <1>1, <1>2 DEF backupVars
<1>4. CASE Tick
    BY <1>4, <1>1, <1>2 DEF Tick
<1>5. CASE Expand
    BY <1>5, <1>1, <1>2 DEF Expand
<1>6. CASE fetchSavedBackups
    BY <1>6, <1>1, <1>2 DEF fetchSavedBackups
<1>n. NoJob \in JobRecord
    BY DEF NoJob, JobRecord
<1>7. ASSUME NEW page \in BOOLEAN, NEW new, new = NewSave(page)
      PROVE  new \in JobRecord /\ new.op = "save" /\ new.pc = "read"
    <2>1. new = [NoJob EXCEPT !.op = "save", !.pc = "read", !.file = second, !.page = page]
        BY <1>7 DEF NewSave
    <2> QED
        BY <2>1, <1>2, <1>n DEF JobRecord
<1>8. ASSUME NEW j \in Job, handleSaveFullBackup(j) PROVE BackupsInv'
    <2>1. PICK new : new = NewSave(TRUE)
        OBVIOUS
    <2>2. Start(j, new) /\ UNCHANGED <<second, files, index, shown>>
        BY <1>8, <2>1 DEF handleSaveFullBackup
    <2>3. new \in JobRecord /\ new.op = "save" /\ new.pc = "read"
        BY <2>1, <1>7
    <2> QED
        BY <2>2, <2>3, StartKeeps
<1>9. ASSUME NEW j \in Job, autoSaveBackupCopy(j) PROVE BackupsInv'
    <2>1. PICK new : new = NewSave(FALSE)
        OBVIOUS
    <2>2. Start(j, new) /\ UNCHANGED <<second, files, index, shown>>
        BY <1>9, <2>1 DEF autoSaveBackupCopy
    <2>3. new \in JobRecord /\ new.op = "save" /\ new.pc = "read"
        BY <2>1, <1>7
    <2> QED
        BY <2>2, <2>3, StartKeeps
<1>10. ASSUME NEW j \in Job, NEW f \in shown, deleteSavedBackup(j, f) PROVE BackupsInv'
    <2>1. PICK new : new = [NoJob EXCEPT !.op = "delete", !.pc = "remove", !.file = f, !.page = TRUE]
        OBVIOUS
    <2>2. Start(j, new) /\ UNCHANGED <<second, files, index, shown>>
        BY <1>10, <2>1 DEF deleteSavedBackup
    <2>3. new \in JobRecord /\ new.op = "delete" /\ new.pc = "remove"
        BY <2>1, <1>2, <1>n DEF JobRecord
    <2> QED
        BY <2>2, <2>3, StartKeeps
<1>11. ASSUME NEW j \in Job, JobFails(j) PROVE BackupsInv'
    <2>1. End(j) /\ UNCHANGED <<second, files, shown>> /\ astray' = astray \cup Abandoned(j)
          /\ index' \in {index, Torn} /\ (job[j].pc # "write" => index' = index)
        BY <1>11 DEF JobFails
    <2>2. CASE job[j].pc = "write"
        BY <2>1, <2>2, EndKeeps DEF Abandoned
    <2>3. CASE job[j].op = "save" /\ job[j].pc = "index"
        BY <2>1, <2>3, EndKeeps DEF Abandoned
    <2>4. CASE job[j].pc # "write" /\ ~(job[j].op = "save" /\ job[j].pc = "index")
        BY <2>1, <2>4, EndKeeps
    <2> QED
        BY <2>2, <2>3, <2>4
<1>12. ASSUME NEW j \in Job, NoSuchFile(j) PROVE BackupsInv'
    <2>1. End(j) /\ UNCHANGED <<second, files, index, shown, astray>> /\ job[j].pc = "remove"
        BY <1>12 DEF NoSuchFile
    <2> QED
        BY <2>1, EndKeeps
<1> QED
    BY <1>3, <1>4, <1>5, <1>6, <1>8, <1>9, <1>10, <1>11, <1>12, ReadIndexKeeps,
       ReadIndexFailsKeeps, PruneKeeps, PruneFailsKeeps, WriteFileKeeps, TruncateIndexKeeps,
       RemoveFileKeeps, SaveIndexKeeps DEF BackupsNext

\* For any limit and any number of jobs: never more than backup_max_copies are listed,
\* whatever overlaps or fails; and while the index is not being written, the backups in
\* the directory are in it, those aside whose save is under way or ran beside another
\* job, or that an overlap or a failure left without their entry.
THEOREM IndexStaysMatched == BackupsSpec => []IndexMatchesFiles
<1>1. ASSUME BackupsInv PROVE IndexMatchesFiles
    <2> DEFINE settled == files \ (astray \cup Saved)
    <2>1. index \in Seq(Nat) /\ Len(index) \in Nat /\ Len(index) <= MaxCopies
        BY <1>1 DEF BackupsInv, BackupsTyped
    <2>2. IsFiniteSet(Items(index)) /\ Cardinality(Items(index)) <= Len(index)
        <3>1. index \in Surjection(1 .. Len(index), Items(index)) /\ Len(index) \in Nat
            BY <2>1 DEF Surjection, Items
        <3>2. ExistsSurjection(1 .. Len(index), Items(index))
            BY <3>1 DEF ExistsSurjection
        <3> QED
            BY <3>1, <3>2, FS_NatSurjection, FS_SurjCardinalityBound
    <2>3. ASSUME NEW few, few \subseteq Items(index) PROVE Cardinality(few) <= MaxCopies
        <3>1. Cardinality(few) <= Cardinality(Items(index)) /\ IsFiniteSet(few)
            BY <2>2, <2>3, FS_Subset
        <3>2. Cardinality(few) \in Nat /\ Cardinality(Items(index)) \in Nat
            BY <2>2, <3>1, FS_CardinalityType
        <3> QED
            BY <2>1, <2>2, <3>1, <3>2, MaxCopiesAssumption
    <2>4. Listed \subseteq Items(index)
        BY DEF Items, Listed, loadBackupIndex
    <2>5. ~Writing => settled \subseteq Items(index)
        BY <1>1 DEF BackupsInv, Settled, AboutToBeListed, Saved
    <2>6. ~Writing => settled \subseteq Listed
        BY <2>5 DEF Items, Listed, loadBackupIndex
    <2> QED
        BY <2>3, <2>4, <2>5, <2>6 DEF IndexMatchesFiles
<1> QED
    BY <1>1, BackupsInvFirst, BackupsInvStays, PTL DEF BackupsSpec
-----------------------------------------------------------------------------
(* The categories. *)

Key == {SLAKey(n) : n \in Name}
Tag == [op : {"none", "delete", "rename", "target", "threshold"},
        pc : {"none", "targets", "threshold", "option", "write"},
        option : Option \cup {"none"}, target : Tagged \cup {"none"}, old : Name, new : Name]

\* What a request carries at each of its statements.
TagFits(h) ==
    /\ server[h].op = "none" => server[h] = NoTag
    /\ server[h].op = "delete" =>
          server[h].pc \in {"targets", "threshold", "option"} /\ server[h].new = server[h].old
    /\ server[h].op = "rename" =>
          server[h].pc \in {"option", "targets", "threshold"} /\ server[h].new # server[h].old
    /\ Writes(server[h]) =>
          /\ server[h].option \in Option /\ server[h].old # Other
          /\ value[server[h].option] # Other
    /\ server[h].op \in {"target", "threshold"} =>
          server[h].pc = "write" /\ server[h].new = server[h].old
    /\ server[h].op = "target" => server[h].target \in Tagged

TagsTyped ==
    /\ value \in [Option -> Name \cup {"unborn", "gone"}]
    /\ category \in [Tagged -> Name]
    /\ sla \subseteq Key
    /\ server \in [Server -> Tag]
    /\ \A o \in chosen : o \in Option /\ value[o] # "unborn"
    /\ \A h \in Server : TagFits(h)

\* Names are unique, Other stays, and a key that two options have is loose.
NamesHold ==
    /\ \A o, p \in Alive : value[o] = value[p] => o = p
    /\ Other \in Names
    /\ \A o, p \in Alive : o # p /\ SLAKey(value[o]) = SLAKey(value[p]) => SLAKey(value[o]) \in loose

\* Requests that may disturb each other leave what they touch loose.
CrossedAreLoose ==
    \A g, h \in Active :
        g # h /\ Touched(server[g]) \cap Touched(server[h]) # {} /\ (Writes(server[g]) \/ Writes(server[h])) =>
            Touched(server[g]) \cup Touched(server[h]) \subseteq loose

\* What a request has done so far, and what it has found, still holds.
OldKey(h) == SLAKey(server[h].old)
NewKey(h) == SLAKey(server[h].new)

OldNameGone(h) ==
    At(h, "delete", "threshold") \/ At(h, "delete", "option") \/ At(h, "rename", "threshold") =>
        server[h].old \in loose \/ \A t \in Tagged : category[t] # server[h].old

OldKeyGone(h) == At(h, "delete", "option") => OldKey(h) \in loose \/ OldKey(h) \notin sla

StillNamed(h) == At(h, "rename", "option") =>
    value[server[h].option] = server[h].old \/ OldKey(h) \in loose

NewNameThere(h) ==
    server[h].op \in {"target", "threshold"} \/ (server[h].op = "rename" /\ HalfDone(h)) =>
        server[h].new \in Names \/ WithKeys({server[h].new}) \subseteq loose

\* Nobody else has the keys.
OldKeyAlone(h) == Writes(server[h]) => \A p \in Alive : SLAKey(value[p]) = OldKey(h) =>
    \/ OldKey(h) \in loose
    \/ /\ p = server[h].option
       /\ value[p] = IF HalfDone(h) THEN server[h].new ELSE server[h].old

NewKeyAlone(h) == server[h].op = "rename" /\ HalfDone(h) /\ server[h].new # Other =>
    \A p \in Alive : SLAKey(value[p]) = NewKey(h) =>
        NewKey(h) \in loose \/ (p = server[h].option /\ value[p] = server[h].new)

ThresholdKept(h) ==
    (/\ server[h].op = "rename" /\ HalfDone(h)
     /\ server[h].option \in chosen /\ value[server[h].option] = server[h].new) =>
        {OldKey(h), NewKey(h)} \cap (sla \cup loose) # {}

TagHolds(h) ==
    /\ OldNameGone(h) /\ OldKeyGone(h) /\ StillNamed(h) /\ NewNameThere(h)
    /\ OldKeyAlone(h) /\ NewKeyAlone(h) /\ ThresholdKept(h)

\* The property, with the requests that have written something for those under way.
Unsettled == loose \cup UNION {Touched(server[h]) : h \in {g \in Server : HalfDone(g)}}
CategoriesKept ==
    /\ \A t \in Tagged : category[t] \in Names \cup Unsettled
    /\ sla \subseteq {SLAKey(n) : n \in Names} \cup Unsettled
    /\ \A o \in chosen \cap Alive : SLAKey(value[o]) \in sla \cup Unsettled

TagsInv ==
    /\ TagsTyped /\ NamesHold /\ CrossedAreLoose
    /\ \A h \in Server : TagHolds(h)
    /\ CategoriesKept

LEMMA NamesAndKeys == Key \cap Name = {} /\ "unborn" \notin Name /\ "gone" \notin Name /\ Other \in Name
BY NameAssumption DEF Key

LEMMA NoTagIsTag == NoTag \in Tag /\ NoTag.op = "none" /\ NoTag.pc = "none" /\ ~Writes(NoTag)
BY NamesAndKeys DEF NoTag, Tag, Writes

LEMMA TouchedIs ==
    ASSUME NEW r \in Tag
    PROVE  /\ r.old # Other => r.old \in Touched(r) /\ SLAKey(r.old) \in Touched(r)
           /\ r.new # Other => r.new \in Touched(r) /\ SLAKey(r.new) \in Touched(r)
           /\ \A n \in Name : n \in Touched(r) => n # Other /\ n \in {r.old, r.new}
           /\ \A n \in Name : SLAKey(n) \in Touched(r) =>
                 \/ r.old # Other /\ SLAKey(n) = SLAKey(r.old)
                 \/ r.new # Other /\ SLAKey(n) = SLAKey(r.new)
           /\ Touched(r) \subseteq Name \cup Key
<1>1. r.old \in Name /\ r.new \in Name
    BY DEF Tag
<1>2. Touched(r) = ({r.old, r.new} \ {Other}) \cup {SLAKey(n) : n \in {r.old, r.new} \ {Other}}
    BY DEF Touched, WithKeys
<1> QED
    BY <1>1, <1>2, NamesAndKeys DEF Key

LEMMA WithItsKey == \A n : WithKeys({n}) = {n, SLAKey(n)}
BY DEF WithKeys

LEMMA TagsInvFirst == TagsInit => TagsInv
<1> SUFFICES ASSUME TagsInit PROVE TagsInv
    OBVIOUS
<1>1. PICK first \in SUBSET Option :
          /\ FirstNames \in [first -> Name]
          /\ Other \in {FirstNames[o] : o \in first}
          /\ \A o, p \in first : FirstNames[o] = FirstNames[p] => o = p
    BY NameAssumption
<1>2. value = [o \in Option |-> IF o \in DOMAIN FirstNames THEN FirstNames[o] ELSE "unborn"]
      /\ category = [t \in Tagged |-> Other] /\ sla = {} /\ chosen = {}
      /\ server = [h \in Server |-> NoTag]
    BY DEF TagsInit
<1>3. /\ value \in [Option -> Name \cup {"unborn", "gone"}]
      /\ \A o \in first : value[o] = FirstNames[o]
      /\ Alive = first
    BY <1>1, <1>2, NamesAndKeys DEF Alive
<1>4. TagsTyped
    BY <1>2, <1>3, NoTagIsTag, NamesAndKeys DEF TagsTyped, TagFits
<1>5. NamesHold
    <2>1. Other \in Names
        BY <1>1, <1>3 DEF Names
    <2>2. loose = {SLAKey(value[o]) : o \in {p \in Alive :
                    \E q \in Alive \ {p} : SLAKey(value[q]) = SLAKey(value[p])}}
        BY DEF TagsInit
    <2> QED
        BY <1>1, <1>3, <2>1, <2>2 DEF NamesHold
<1>6. CrossedAreLoose
    BY <1>2 DEF CrossedAreLoose, Active
<1>7. ASSUME NEW h \in Server PROVE TagHolds(h)
    BY <1>2, NoTagIsTag DEF TagHolds, OldNameGone, OldKeyGone, StillNamed, NewNameThere, OldKeyAlone,
        NewKeyAlone, ThresholdKept, At
<1>8. CategoriesKept
    BY <1>2, <1>5 DEF CategoriesKept, NamesHold
<1> QED
    BY <1>4, <1>5, <1>6, <1>7, <1>8 DEF TagsInv

LEMMA CrossedKept ==
    ASSUME CrossedAreLoose, loose \subseteq loose',
           \A h \in Server : \/ server'[h] = NoTag
                             \/ /\ server[h] # NoTag /\ server'[h].op = server[h].op
                                /\ server'[h].old = server[h].old /\ server'[h].new = server[h].new
    PROVE  CrossedAreLoose'
<1> SUFFICES ASSUME NEW g \in Active', NEW h \in Active', g # h,
                    Touched(server'[g]) \cap Touched(server'[h]) # {},
                    Writes(server'[g]) \/ Writes(server'[h])
             PROVE  Touched(server'[g]) \cup Touched(server'[h]) \subseteq loose'
    BY DEF CrossedAreLoose
<1>1. g \in Active /\ h \in Active
    BY DEF Active
<1>2. /\ Touched(server'[g]) = Touched(server[g]) /\ Touched(server'[h]) = Touched(server[h])
      /\ (Writes(server'[g]) <=> Writes(server[g])) /\ (Writes(server'[h]) <=> Writes(server[h]))
    BY DEF Active, Touched, Writes
<1> QED
    BY <1>1, <1>2 DEF CrossedAreLoose

LEMMA UnsettledGrows ==
    ASSUME NEW h \in Server, loose \subseteq loose', \A g \in Server \ {h} : server'[g] = server[g]
    PROVE  /\ HalfDone(h)' => Touched(server'[h]) \subseteq Unsettled'
           /\ Unsettled \subseteq Unsettled' \cup (IF HalfDone(h) THEN Touched(server[h]) ELSE {})
BY DEF Unsettled, HalfDone

LEMMA NoTagHolds ==
    ASSUME NEW h \in Server, server'[h] = NoTag
    PROVE  TagFits(h)' /\ TagHolds(h)' /\ ~HalfDone(h)'
BY NoTagIsTag DEF TagFits, TagHolds, OldNameGone, OldKeyGone, StillNamed, NewNameThere,
   OldKeyAlone, NewKeyAlone, ThresholdKept, At, HalfDone, Writes

\* The requests that do not take the step, if the option has the name it had.
LEMMA OthersKeep ==
    ASSUME NEW h \in Server, TagFits(h), TagHolds(h), server'[h] = server[h],
           value' = value, loose \subseteq loose',
           \A t \in Tagged : category'[t] = category[t] \/ category'[t] # server[h].old
                             \/ server[h].old \in loose'
                             \/ ~Writes(server[h]),
           Writes(server[h]) /\ OldKey(h) \in sla' \ sla => OldKey(h) \in loose',
           Writes(server[h]) =>
               \A k \in {OldKey(h), NewKey(h)} : k \in sla => k \in sla' \cup loose',
           \A o \in chosen' \ chosen : SLAKey(value[o]) \in sla'
    PROVE  TagFits(h)' /\ TagHolds(h)'
<1>0. /\ Alive' = Alive /\ Names' = Names /\ OldKey(h)' = OldKey(h) /\ NewKey(h)' = NewKey(h)
      /\ (HalfDone(h)' <=> HalfDone(h))
    BY DEF Alive, Names, OldKey, NewKey, HalfDone
<1>1. TagFits(h)'
    BY DEF TagFits, Writes
<1>2. OldNameGone(h)'
    BY DEF TagHolds, OldNameGone, At, Writes
<1>3. OldKeyGone(h)'
    BY <1>0 DEF TagHolds, OldKeyGone, At, Writes
<1>4. StillNamed(h)' /\ NewNameThere(h)'
    BY <1>0 DEF TagHolds, StillNamed, NewNameThere, At
<1>5. OldKeyAlone(h)' /\ NewKeyAlone(h)'
    BY <1>0 DEF TagHolds, OldKeyAlone, NewKeyAlone
<1>6. ThresholdKept(h)'
    <2>1. SUFFICES ASSUME server[h].op = "rename", HalfDone(h), server[h].option \in chosen',
                          value[server[h].option] = server[h].new
                   PROVE  {OldKey(h), NewKey(h)} \cap (sla' \cup loose') # {}
        BY <1>0 DEF ThresholdKept
    <2>2. CASE server[h].option \in chosen
        BY <2>1, <2>2 DEF TagHolds, ThresholdKept, Writes
    <2>3. CASE server[h].option \notin chosen
        BY <2>1, <2>3 DEF NewKey
    <2> QED
        BY <2>2, <2>3
<1> QED
    BY <1>1, <1>2, <1>3, <1>4, <1>5, <1>6 DEF TagHolds

\* What is left of the invariant, when the request that takes the step and the others fit.
LEMMA StepKeeps ==
    ASSUME TagsInv, NEW h \in Server, loose \subseteq loose',
           server' \in [Server -> Tag], \A g \in Server \ {h} : server'[g] = server[g],
           \/ server'[h] = NoTag
           \/ /\ server[h] # NoTag /\ server'[h].op = server[h].op
              /\ server'[h].old = server[h].old /\ server'[h].new = server[h].new,
           value' \in [Option -> Name \cup {"unborn", "gone"}], category' \in [Tagged -> Name],
           sla' \subseteq Key, \A o \in chosen' : o \in Option /\ value'[o] # "unborn",
           \A g \in Server : TagFits(g)' /\ TagHolds(g)',
           NamesHold', CategoriesKept'
    PROVE  TagsInv'
<1>1. TagsTyped'
    BY DEF TagsTyped
<1>2. \A g \in Server \ {h} : server'[g] = NoTag \/ server[g] # NoTag
    OBVIOUS
<1>3. CrossedAreLoose'
    BY <1>2, CrossedKept DEF TagsInv
<1> QED
    BY <1>1, <1>3 DEF TagsInv

LEMMA TagsStutter == TagsInv /\ UNCHANGED tagVars => TagsInv'
<1> SUFFICES ASSUME TagsInv, UNCHANGED tagVars PROVE TagsInv'
    OBVIOUS
<1>1. UNCHANGED <<value, category, sla, server, chosen, loose>>
    BY DEF tagVars
<1>2. ASSUME NEW h \in Server PROVE TagFits(h)' /\ TagHolds(h)' /\ (HalfDone(h)' <=> HalfDone(h))
    BY <1>1, OthersKeep DEF TagsInv, TagsTyped, HalfDone
<1>3. CrossedAreLoose' /\ NamesHold'
    BY <1>1 DEF TagsInv, CrossedAreLoose, Active, NamesHold, Alive, Names
<1>4. CategoriesKept' /\ TagsTyped'
    BY <1>1, <1>2 DEF TagsInv, CategoriesKept, Unsettled, Alive, Names, TagsTyped
<1> QED
    BY <1>2, <1>3, <1>4 DEF TagsInv

LEMMA BeginKeeps ==
    ASSUME TagsInv, NEW h \in Server, NEW request \in Tag, request.op # "none", Begin(h, request),
           server'[h] = request => TagFits(h)' /\ TagHolds(h)' /\ ~HalfDone(h)'
    PROVE  TagsInv'
<1>1. /\ server[h] = NoTag /\ server' = [server EXCEPT ![h] = request]
      /\ loose' = loose \cup Clash(request) /\ UNCHANGED <<value, category, sla, chosen>>
    BY DEF Begin
<1>2. server' \in [Server -> Tag] /\ server'[h] = request /\ \A g \in Server \ {h} : server'[g] = server[g]
    BY <1>1 DEF TagsInv, TagsTyped
<1>3. ASSUME NEW g \in Server PROVE TagFits(g)' /\ TagHolds(g)'
    BY <1>1, <1>2, OthersKeep DEF TagsInv, TagsTyped
<1>4. TagsTyped'
    BY <1>1, <1>2, <1>3 DEF TagsInv, TagsTyped
<1>5. NamesHold'
    BY <1>1 DEF TagsInv, NamesHold, Names, Alive
<1>6. CategoriesKept'
    <2>1. ~HalfDone(h)
        BY <1>1, NoTagIsTag DEF HalfDone
    <2>2. Unsettled \subseteq Unsettled'
        BY <1>1, <1>2, <2>1, UnsettledGrows
    <2> QED
        BY <1>1, <2>2 DEF TagsInv, CategoriesKept, Names, Alive
<1>7. \A g \in Server \ {h} : server[g] # NoTag /\ Touched(server[g]) \cap Touched(request) # {}
                                /\ (Writes(server[g]) \/ Writes(request)) =>
          Touched(request) \cup Touched(server[g]) \subseteq loose'
    BY <1>1 DEF Clash, Active
<1>8. CrossedAreLoose'
    <2> SUFFICES ASSUME NEW f \in Active', NEW g \in Active', f # g,
                        Touched(server'[f]) \cap Touched(server'[g]) # {},
                        Writes(server'[f]) \/ Writes(server'[g])
                 PROVE  Touched(server'[f]) \cup Touched(server'[g]) \subseteq loose'
        BY DEF CrossedAreLoose
    <2>1. CASE f = h \/ g = h
        BY <2>1, <1>2, <1>7 DEF Active
    <2>2. CASE f # h /\ g # h
        <3>1. f \in Active /\ g \in Active /\ server'[f] = server[f] /\ server'[g] = server[g]
            BY <2>2, <1>2 DEF Active
        <3> QED
            BY <3>1, <1>1 DEF TagsInv, CrossedAreLoose
    <2> QED
        BY <2>1, <2>2
<1> QED
    BY <1>3, <1>4, <1>5, <1>6, <1>8 DEF TagsInv

\* Requests arrive.
LEMMA DeleteTagKeeps ==
    ASSUME TagsInv, NEW h \in Server, NEW o \in Option, deleteTag(h, o)
    PROVE  TagsInv'
<1>1. PICK r : r = [NoTag EXCEPT !.op = "delete", !.pc = "targets", !.option = o,
                                 !.old = value[o], !.new = value[o]]
    OBVIOUS
<1>2. o \in Alive /\ value[o] # Other /\ value[o] \in Name /\ Begin(h, r)
    BY <1>1 DEF deleteTag, Alive
<1>3. /\ r \in Tag /\ r.op = "delete" /\ r.pc = "targets" /\ r.option = o
      /\ r.old = value[o] /\ r.new = value[o]
    BY <1>1, <1>2, NoTagIsTag DEF Tag
<1>4. value' = value /\ loose \subseteq loose' /\ Alive' = Alive
    BY <1>2 DEF Begin, Alive
<1>5. ASSUME server'[h] = r PROVE TagFits(h)' /\ TagHolds(h)' /\ ~HalfDone(h)'
    <2>1. TagFits(h)' /\ ~HalfDone(h)'
        BY <1>2, <1>3, <1>4, <1>5 DEF TagFits, Writes, HalfDone
    <2>2. OldKeyAlone(h)'
        BY <1>2, <1>3, <1>4, <1>5, <2>1 DEF OldKeyAlone, OldKey, TagsInv, NamesHold
    <2> QED
        BY <1>3, <1>5, <2>1, <2>2 DEF TagHolds, OldNameGone, OldKeyGone, StillNamed, NewNameThere,
            NewKeyAlone, ThresholdKept, At
<1> QED
    BY <1>2, <1>3, <1>5, BeginKeeps

LEMMA SaveRenameKeeps ==
    ASSUME TagsInv, NEW h \in Server, NEW o \in Option, NEW n \in Name, saveRenameCategory(h, o, n)
    PROVE  TagsInv'
<1>1. PICK r : r = [NoTag EXCEPT !.op = "rename", !.pc = "option", !.option = o,
                                 !.old = value[o], !.new = n]
    OBVIOUS
<1>2. o \in Alive /\ value[o] # Other /\ value[o] # n /\ value[o] \in Name /\ Begin(h, r)
    BY <1>1 DEF saveRenameCategory, Alive
<1>3. /\ r \in Tag /\ r.op = "rename" /\ r.pc = "option" /\ r.option = o
      /\ r.old = value[o] /\ r.new = n
    BY <1>1, <1>2, NoTagIsTag DEF Tag
<1>4. value' = value /\ loose \subseteq loose' /\ Alive' = Alive
    BY <1>2 DEF Begin, Alive
<1>5. ASSUME server'[h] = r PROVE TagFits(h)' /\ TagHolds(h)' /\ ~HalfDone(h)'
    <2>1. TagFits(h)' /\ ~HalfDone(h)'
        BY <1>2, <1>3, <1>4, <1>5 DEF TagFits, Writes, HalfDone
    <2>2. OldKeyAlone(h)'
        BY <1>2, <1>3, <1>4, <1>5, <2>1 DEF OldKeyAlone, OldKey, TagsInv, NamesHold
    <2>3. StillNamed(h)'
        BY <1>3, <1>4, <1>5 DEF StillNamed
    <2> QED
        BY <1>3, <1>5, <2>1, <2>2, <2>3 DEF TagHolds, OldNameGone, OldKeyGone, NewNameThere,
            NewKeyAlone, ThresholdKept, At
<1> QED
    BY <1>2, <1>3, <1>5, BeginKeeps

LEMMA LookupKeeps ==
    ASSUME TagsInv, NEW h \in Server, NEW n \in Names, NEW r \in Tag, Begin(h, r),
           r.op \in {"target", "threshold"}, r.pc = "write", r.old = n, r.new = n,
           r.op = "target" => r.target \in Tagged
    PROVE  TagsInv'
<1>1. value' = value /\ Names' = Names
    BY DEF Begin, Names, Alive
<1>2. ASSUME server'[h] = r PROVE TagFits(h)' /\ TagHolds(h)' /\ ~HalfDone(h)'
    <2>1. TagFits(h)' /\ ~HalfDone(h)' /\ NewNameThere(h)'
        BY <1>1, <1>2 DEF TagFits, Writes, HalfDone, NewNameThere
    <2> QED
        BY <1>2, <2>1 DEF TagHolds, OldNameGone, OldKeyGone, StillNamed, OldKeyAlone,
            NewKeyAlone, ThresholdKept, At, Writes
<1> QED
    BY <1>2, BeginKeeps

LEMMA ValidateKeeps ==
    ASSUME TagsInv, NEW h \in Server, NEW t \in Tagged, NEW n \in Name, ValidateCategory(h, t, n)
    PROVE  TagsInv'
<1>1. PICK r : r = [NoTag EXCEPT !.op = "target", !.pc = "write", !.target = t, !.old = n, !.new = n]
    OBVIOUS
<1>2. /\ r \in Tag /\ r.op = "target" /\ r.pc = "write" /\ r.target = t /\ r.old = n /\ r.new = n
    BY <1>1, NoTagIsTag DEF Tag
<1>3. n \in Names /\ Begin(h, r)
    BY <1>1 DEF ValidateCategory
<1> QED
    BY <1>2, <1>3, LookupKeeps

LEMMA IsSLAKeyKeeps ==
    ASSUME TagsInv, NEW h \in Server, NEW n \in Name, isSLAKey(h, n)
    PROVE  TagsInv'
<1>1. PICK r : r = [NoTag EXCEPT !.op = "threshold", !.pc = "write", !.old = n, !.new = n]
    OBVIOUS
<1>2. /\ r \in Tag /\ r.op = "threshold" /\ r.pc = "write" /\ r.old = n /\ r.new = n
    BY <1>1, NoTagIsTag DEF Tag
<1>3. n \in Names /\ Begin(h, r)
    BY <1>1 DEF isSLAKey
<1> QED
    BY <1>2, <1>3, LookupKeeps

\* A name or a key that two requests touch is loose when one of them writes.
LEMMA CrossedName ==
    ASSUME TagsInv, NEW g \in Server, NEW h \in Server, g # h, server[g] # NoTag,
           Writes(server[h]), server[h].old \in {server[g].old, server[g].new}
    PROVE  server[h].old \in loose
<1>1. server[g] \in Tag /\ server[h] \in Tag /\ server[h].old # Other
    BY DEF TagsInv, TagsTyped, TagFits
<1>2. server[h].old \in Touched(server[g]) /\ server[h].old \in Touched(server[h])
    BY <1>1, TouchedIs
<1>3. g \in Active /\ h \in Active
    BY NoTagIsTag DEF Active
<1> QED
    BY <1>2, <1>3 DEF TagsInv, CrossedAreLoose

LEMMA OtherKeyLoose ==
    ASSUME TagsInv, NEW h \in Server, Writes(server[h]), OldKey(h) = SLAKey(Other)
    PROVE  OldKey(h) \in loose
<1>1. PICK p \in Alive : value[p] = Other
    BY DEF TagsInv, NamesHold, Names
<1>2. value[server[h].option] # Other
    BY DEF TagsInv, TagsTyped, TagFits
<1> QED
    BY <1>1, <1>2 DEF TagsInv, TagHolds, OldKeyAlone

LEMMA CrossedKey ==
    ASSUME TagsInv, NEW g \in Server, NEW h \in Server, g # h, server[g] # NoTag,
           Writes(server[h]), NEW m \in {server[g].old, server[g].new}, SLAKey(m) = OldKey(h)
    PROVE  OldKey(h) \in loose
<1>1. server[g] \in Tag /\ server[h] \in Tag /\ server[h].old # Other
    BY DEF TagsInv, TagsTyped, TagFits
<1>2. OldKey(h) \in Touched(server[h]) /\ (m # Other => OldKey(h) \in Touched(server[g]))
    BY <1>1, TouchedIs DEF OldKey
<1>3. g \in Active /\ h \in Active
    BY NoTagIsTag DEF Active
<1>4. CASE m # Other
    BY <1>2, <1>3, <1>4 DEF TagsInv, CrossedAreLoose
<1>5. CASE m = Other
    BY <1>5, OtherKeyLoose
<1> QED
    BY <1>4, <1>5

\* A request ends that has written nothing, or whose names and keys are loose.
LEMMA AnswerKeeps ==
    ASSUME TagsInv, NEW h \in Server, server' = [server EXCEPT ![h] = NoTag],
           UNCHANGED <<value, category, sla, chosen>>, loose \subseteq loose',
           HalfDone(h) => Touched(server[h]) \subseteq loose'
    PROVE  TagsInv'
<1>1. server' \in [Server -> Tag] /\ server'[h] = NoTag /\ \A g \in Server \ {h} : server'[g] = server[g]
    BY NoTagIsTag DEF TagsInv, TagsTyped
<1>2. ASSUME NEW g \in Server PROVE TagFits(g)' /\ TagHolds(g)'
    BY <1>1, NoTagHolds, OthersKeep DEF TagsInv, TagsTyped
<1>3. NamesHold'
    BY DEF TagsInv, NamesHold, Names, Alive
<1>4. Unsettled \subseteq Unsettled'
    BY <1>1, UnsettledGrows DEF Unsettled
<1>5. CategoriesKept'
    BY <1>4 DEF TagsInv, CategoriesKept, Names, Alive
<1> QED
    BY <1>1, <1>2, <1>3, <1>5, StepKeeps DEF TagsInv, TagsTyped

\* A request goes on to its next statement.
LEMMA GoesOn ==
    ASSUME server \in [Server -> Tag], NEW h \in Server,
           NEW pc \in {"threshold", "option", "targets"}, Goes(h, pc)
    PROVE  /\ server' \in [Server -> Tag] /\ \A g \in Server \ {h} : server'[g] = server[g]
           /\ server'[h].pc = pc /\ server'[h].op = server[h].op /\ server'[h].option = server[h].option
           /\ server'[h].old = server[h].old /\ server'[h].new = server[h].new
           /\ Touched(server'[h]) = Touched(server[h])
<1>1. PICK r : r = [server[h] EXCEPT !.pc = pc]
    OBVIOUS
<1>2. r \in Tag /\ r.pc = pc /\ r.op = server[h].op /\ r.option = server[h].option
      /\ r.old = server[h].old /\ r.new = server[h].new
    BY <1>1 DEF Tag
<1>3. server' = [server EXCEPT ![h] = r]
    BY <1>1 DEF Goes
<1> QED
    BY <1>2, <1>3 DEF Touched

LEMMA CheckInUseKeeps ==
    ASSUME TagsInv, NEW h \in Server, CheckInUse(h)
    PROVE  TagsInv'
<1>1. At(h, "delete", "targets") /\ UNCHANGED <<value, category, sla, chosen, loose>>
    BY DEF CheckInUse
<1>2. CASE Answers(h)
    BY <1>1, <1>2, AnswerKeeps DEF Answers, At, HalfDone
<1>3. CASE Goes(h, "threshold") /\ \A t \in Tagged : category[t] # server[h].old
    <2>0. server \in [Server -> Tag]
        BY DEF TagsInv, TagsTyped
    <2>1. /\ server' \in [Server -> Tag] /\ \A g \in Server \ {h} : server'[g] = server[g]
          /\ server'[h].pc = "threshold" /\ server'[h].op = "delete"
          /\ server'[h].option = server[h].option
          /\ server'[h].old = server[h].old /\ server'[h].new = server[h].new
        BY <1>1, <1>3, <2>0, GoesOn DEF At
    <2>2. /\ server[h].op = "delete" /\ server[h].pc = "targets" /\ server[h] # NoTag
          /\ Writes(server[h]) /\ TagFits(h) /\ TagHolds(h)
        BY <1>1, NoTagIsTag DEF At, Writes, TagsInv, TagsTyped
    <2>3. Names' = Names /\ Alive' = Alive /\ NamesHold'
        BY <1>1 DEF TagsInv, NamesHold, Names, Alive
    <2>4. TagFits(h)' /\ ~HalfDone(h)' /\ ~HalfDone(h)
        BY <1>1, <2>1, <2>2 DEF TagFits, Writes, HalfDone
    <2>5. OldKeyAlone(h)'
        BY <1>1, <2>1, <2>2, <2>3, <2>4 DEF TagHolds, OldKeyAlone, OldKey, Writes
    <2>6. OldNameGone(h)'
        BY <1>1, <1>3, <2>1 DEF OldNameGone
    <2>7. TagHolds(h)'
        BY <2>1, <2>5, <2>6 DEF TagHolds, OldKeyGone, StillNamed, NewNameThere, NewKeyAlone,
            ThresholdKept, At
    <2>8. ASSUME NEW g \in Server PROVE TagFits(g)' /\ TagHolds(g)'
        BY <1>1, <2>1, <2>4, <2>7, OthersKeep DEF TagsInv, TagsTyped
    <2>9. Unsettled \subseteq Unsettled'
        BY <1>1, <2>1, <2>4, UnsettledGrows
    <2>10. CategoriesKept'
        BY <1>1, <2>3, <2>9 DEF TagsInv, CategoriesKept
    <2> QED
        BY <1>1, <2>1, <2>2, <2>3, <2>8, <2>10, StepKeeps DEF TagsInv, TagsTyped
<1> QED
    BY <1>2, <1>3 DEF CheckInUse

LEMMA DeleteThresholdKeeps ==
    ASSUME TagsInv, NEW h \in Server, DeleteThreshold(h)
    PROVE  TagsInv'
<1>1. /\ server[h].op = "delete" /\ server[h].pc = "threshold" /\ Goes(h, "option")
      /\ sla' = sla \ {OldKey(h)} /\ UNCHANGED <<value, category, chosen, loose>>
    BY DEF DeleteThreshold, At, OldKey
<1>2. server \in [Server -> Tag] /\ TagFits(h) /\ TagHolds(h) /\ Writes(server[h]) /\ server[h] # NoTag
    BY <1>1, NoTagIsTag DEF TagsInv, TagsTyped, Writes
<1>3. /\ server' \in [Server -> Tag] /\ \A g \in Server \ {h} : server'[g] = server[g]
      /\ server'[h].pc = "option" /\ server'[h].op = "delete"
      /\ server'[h].option = server[h].option
      /\ server'[h].old = server[h].old /\ server'[h].new = server[h].new
      /\ Touched(server'[h]) = Touched(server[h])
    BY <1>1, <1>2, GoesOn
<1>4. Names' = Names /\ Alive' = Alive /\ NamesHold'
    BY <1>1 DEF TagsInv, NamesHold, Names, Alive
<1>5. TagFits(h)' /\ HalfDone(h)' /\ ~HalfDone(h) /\ OldKey(h)' = OldKey(h)
    BY <1>1, <1>2, <1>3 DEF TagFits, Writes, HalfDone, OldKey
<1>6. OldKeyAlone(h)'
    BY <1>1, <1>2, <1>3, <1>4, <1>5 DEF TagHolds, OldKeyAlone, Writes, TagFits
<1>7. OldNameGone(h)' /\ OldKeyGone(h)'
    BY <1>1, <1>2, <1>3, <1>5 DEF TagHolds, OldNameGone, OldKeyGone, At
<1>8. TagHolds(h)'
    BY <1>3, <1>6, <1>7 DEF TagHolds, StillNamed, NewNameThere, NewKeyAlone, ThresholdKept, At
<1>9. ASSUME NEW g \in Server \ {h} PROVE TagFits(g)' /\ TagHolds(g)'
    <2>1. Writes(server[g]) => server[g] # NoTag /\ \A k \in {OldKey(g), NewKey(g)} :
              k = OldKey(h) => k \in loose
        BY <1>2, NoTagIsTag, CrossedKey DEF OldKey, NewKey
    <2> QED
        BY <1>1, <1>3, <2>1, OthersKeep DEF TagsInv, TagsTyped
<1>10. Unsettled \cup Touched(server[h]) \subseteq Unsettled'
    BY <1>1, <1>3, <1>5, UnsettledGrows
<1>11. OldKey(h) \in Touched(server[h])
    BY <1>2, TouchedIs DEF OldKey, TagFits
<1>12. CategoriesKept'
    BY <1>1, <1>4, <1>10, <1>11 DEF TagsInv, CategoriesKept
<1> QED
    BY <1>1, <1>2, <1>3, <1>4, <1>5, <1>8, <1>9, <1>12, StepKeeps DEF TagsInv, TagsTyped

LEMMA RenameTargetsKeeps ==
    ASSUME TagsInv, NEW h \in Server, RenameTargets(h)
    PROVE  TagsInv'
<1>1. /\ server[h].op = "rename" /\ server[h].pc = "targets" /\ Goes(h, "threshold")
      /\ category' = [t \in Tagged |->
             IF category[t] = server[h].old THEN server[h].new ELSE category[t]]
      /\ UNCHANGED <<value, sla, chosen, loose>>
    BY DEF RenameTargets, At
<1>2. server \in [Server -> Tag] /\ TagFits(h) /\ TagHolds(h) /\ Writes(server[h]) /\ server[h] # NoTag
    BY <1>1, NoTagIsTag DEF TagsInv, TagsTyped, Writes
<1>3. /\ server' \in [Server -> Tag] /\ \A g \in Server \ {h} : server'[g] = server[g]
      /\ server'[h].pc = "threshold" /\ server'[h].op = "rename"
      /\ server'[h].option = server[h].option
      /\ server'[h].old = server[h].old /\ server'[h].new = server[h].new
      /\ Touched(server'[h]) = Touched(server[h])
    BY <1>1, <1>2, GoesOn
<1>4. Names' = Names /\ Alive' = Alive /\ NamesHold'
    BY <1>1 DEF TagsInv, NamesHold, Names, Alive
<1>5. TagFits(h)' /\ HalfDone(h)' /\ HalfDone(h) /\ OldKey(h)' = OldKey(h) /\ NewKey(h)' = NewKey(h)
    BY <1>1, <1>2, <1>3 DEF TagFits, Writes, HalfDone, OldKey, NewKey
<1>6. OldKeyAlone(h)' /\ NewKeyAlone(h)' /\ ThresholdKept(h)' /\ NewNameThere(h)'
    BY <1>1, <1>2, <1>3, <1>4, <1>5
       DEF TagHolds, OldKeyAlone, NewKeyAlone, ThresholdKept, NewNameThere, Writes
<1>7. category' \in [Tagged -> Name] /\ OldNameGone(h)'
    BY <1>1, <1>2, <1>3 DEF TagsInv, TagsTyped, Tag, OldNameGone, TagFits
<1>8. TagHolds(h)'
    BY <1>3, <1>6, <1>7 DEF TagHolds, StillNamed, OldKeyGone, At
<1>9. ASSUME NEW g \in Server \ {h} PROVE TagFits(g)' /\ TagHolds(g)'
    <2>1. Writes(server[g]) /\ server[g].old = server[h].new => server[g].old \in loose
        BY <1>2, CrossedName
    <2>2. \A t \in Tagged : category'[t] = category[t] \/ category'[t] = server[h].new
        BY <1>1 DEF TagsInv, TagsTyped
    <2> QED
        BY <1>1, <1>3, <2>1, <2>2, OthersKeep DEF TagsInv, TagsTyped
<1>10. Unsettled \cup Touched(server[h]) \subseteq Unsettled'
    BY <1>1, <1>3, <1>5, UnsettledGrows
<1>11. server[h].new \in Names \cup Touched(server[h])
    BY <1>2, TouchedIs DEF TagsInv, NamesHold
<1>12. CategoriesKept'
    <2>1. \A t \in Tagged : category'[t] = category[t] \/ category'[t] = server[h].new
        BY <1>1 DEF TagsInv, TagsTyped
    <2> QED
        BY <1>1, <1>4, <1>10, <1>11, <2>1 DEF TagsInv, CategoriesKept
<1> QED
    BY <1>1, <1>2, <1>3, <1>4, <1>5, <1>7, <1>8, <1>9, <1>12, StepKeeps DEF TagsInv, TagsTyped

LEMMA WriteTargetKeeps ==
    ASSUME TagsInv, NEW h \in Server, WriteTarget(h)
    PROVE  TagsInv'
<1>1. /\ server[h].op = "target" /\ server' = [server EXCEPT ![h] = NoTag]
      /\ category' = [category EXCEPT ![server[h].target] = server[h].new]
      /\ UNCHANGED <<value, sla, chosen, loose>>
    BY DEF WriteTarget, At, Answers
<1>2. server[h] \in Tag /\ TagFits(h) /\ TagHolds(h) /\ server[h] # NoTag /\ ~HalfDone(h)
    BY <1>1, NoTagIsTag DEF TagsInv, TagsTyped, HalfDone
<1>3. server' \in [Server -> Tag] /\ server'[h] = NoTag /\ \A g \in Server \ {h} : server'[g] = server[g]
    BY <1>1, NoTagIsTag DEF TagsInv, TagsTyped
<1>4. Names' = Names /\ Alive' = Alive /\ NamesHold'
    BY <1>1 DEF TagsInv, NamesHold, Names, Alive
<1>5. category' \in [Tagged -> Name]
      /\ \A t \in Tagged : category'[t] = category[t] \/ category'[t] = server[h].new
    BY <1>1, <1>2 DEF TagsInv, TagsTyped, Tag
<1>6. ASSUME NEW g \in Server PROVE TagFits(g)' /\ TagHolds(g)'
    <2>1. CASE g = h
        BY <2>1, <1>3, NoTagHolds
    <2>2. CASE g # h
        <3>1. Writes(server[g]) /\ server[g].old = server[h].new => server[g].old \in loose
            BY <2>2, <1>2, CrossedName
        <3> QED
            BY <1>1, <1>3, <1>5, <2>2, <3>1, OthersKeep DEF TagsInv, TagsTyped
    <2> QED
        BY <2>1, <2>2
<1>7. Unsettled \subseteq Unsettled' /\ loose \subseteq Unsettled'
    BY <1>1, <1>2, <1>3, UnsettledGrows DEF Unsettled
<1>8. server[h].new \in Names \cup loose
    BY <1>1, <1>2, WithItsKey DEF TagHolds, NewNameThere
<1>9. CategoriesKept'
    BY <1>1, <1>4, <1>5, <1>7, <1>8 DEF TagsInv, CategoriesKept
<1> QED
    BY <1>1, <1>3, <1>4, <1>5, <1>6, <1>9, StepKeeps DEF TagsInv, TagsTyped

LEMMA WriteThresholdKeeps ==
    ASSUME TagsInv, NEW h \in Server, WriteThreshold(h)
    PROVE  TagsInv'
<1>1. /\ server[h].op = "threshold" /\ server' = [server EXCEPT ![h] = NoTag]
      /\ sla' = sla \cup {NewKey(h)}
      /\ chosen' = chosen \cup {o \in Alive : SLAKey(value[o]) = NewKey(h)}
      /\ UNCHANGED <<value, category, loose>>
    BY DEF WriteThreshold, At, Answers, NewKey
<1>2. server[h] \in Tag /\ TagFits(h) /\ TagHolds(h) /\ server[h] # NoTag /\ ~HalfDone(h)
    BY <1>1, NoTagIsTag DEF TagsInv, TagsTyped, HalfDone
<1>3. server' \in [Server -> Tag] /\ server'[h] = NoTag /\ \A g \in Server \ {h} : server'[g] = server[g]
    BY <1>1, NoTagIsTag DEF TagsInv, TagsTyped
<1>4. Names' = Names /\ Alive' = Alive /\ NamesHold'
    BY <1>1 DEF TagsInv, NamesHold, Names, Alive
<1>5. sla' \subseteq Key
    BY <1>1, <1>2 DEF TagsInv, TagsTyped, Tag, Key, NewKey
<1>6. \A o \in chosen' : o \in Option /\ value'[o] # "unborn"
    BY <1>1, NamesAndKeys DEF TagsInv, TagsTyped, Alive
<1>7. ASSUME NEW g \in Server PROVE TagFits(g)' /\ TagHolds(g)'
    <2>1. CASE g = h
        BY <2>1, <1>3, NoTagHolds
    <2>2. CASE g # h
        <3>1. Writes(server[g]) /\ OldKey(g) = NewKey(h) => OldKey(g) \in loose
            BY <2>2, <1>2, CrossedKey DEF NewKey
        <3> QED
            BY <1>1, <1>3, <2>2, <3>1, OthersKeep DEF TagsInv, TagsTyped
    <2> QED
        BY <2>1, <2>2
<1>8. Unsettled \subseteq Unsettled' /\ loose \subseteq Unsettled'
    BY <1>1, <1>2, <1>3, UnsettledGrows DEF Unsettled
<1>9. NewKey(h) \in {SLAKey(n) : n \in Names} \cup loose
    BY <1>1, <1>2, WithItsKey DEF TagHolds, NewNameThere, NewKey
<1>10. CategoriesKept'
    BY <1>1, <1>4, <1>8, <1>9 DEF TagsInv, CategoriesKept
<1> QED
    BY <1>1, <1>3, <1>4, <1>5, <1>6, <1>7, <1>10, StepKeeps DEF TagsInv, TagsTyped

LEMMA StatementFailsKeeps ==
    ASSUME TagsInv, NEW h \in Server, StatementFails(h)
    PROVE  TagsInv'
BY AnswerKeeps DEF StatementFails, Answers

LEMMA RenameThresholdKeeps ==
    ASSUME TagsInv, NEW h \in Server, RenameThreshold(h)
    PROVE  TagsInv'
<1>1. /\ server[h].op = "rename" /\ server[h].pc = "threshold"
      /\ server' = [server EXCEPT ![h] = NoTag]
      /\ sla' = IF OldKey(h) \in sla /\ NewKey(h) \notin sla
                THEN (sla \ {OldKey(h)}) \cup {NewKey(h)} ELSE sla
      /\ loose' = IF OldKey(h) \in loose \/ (OldKey(h) # NewKey(h) /\ {OldKey(h), NewKey(h)} \subseteq sla)
                  THEN loose \cup {OldKey(h), NewKey(h)} ELSE loose
      /\ UNCHANGED <<value, category, chosen>>
    BY DEF RenameThreshold, At, Answers, OldKey, NewKey
<1>2. /\ server[h] \in Tag /\ TagFits(h) /\ TagHolds(h) /\ server[h] # NoTag /\ HalfDone(h)
      /\ Writes(server[h]) /\ server[h].old # Other
    BY <1>1, NoTagIsTag DEF TagsInv, TagsTyped, HalfDone, Writes, TagFits
<1>3. server' \in [Server -> Tag] /\ server'[h] = NoTag /\ \A g \in Server \ {h} : server'[g] = server[g]
    BY <1>1, NoTagIsTag DEF TagsInv, TagsTyped
<1>4. Names' = Names /\ Alive' = Alive /\ loose \subseteq loose' /\ NamesHold'
    BY <1>1 DEF TagsInv, NamesHold, Names, Alive
<1>5. OldKey(h) \in Key /\ NewKey(h) \in Key /\ sla' \subseteq Key
    BY <1>1, <1>2 DEF TagsInv, TagsTyped, Tag, Key, OldKey, NewKey
<1>6. ASSUME NEW g \in Server PROVE TagFits(g)' /\ TagHolds(g)'
    <2>1. CASE g = h
        BY <2>1, <1>3, NoTagHolds
    <2>2. CASE g # h
        <3>1. Writes(server[g]) /\ OldKey(g) = NewKey(h) => OldKey(g) \in loose
            BY <2>2, <1>2, CrossedKey DEF NewKey
        <3>2. Writes(server[g]) => \A k \in {OldKey(g), NewKey(g)} : k = OldKey(h) => k \in loose
            BY <2>2, <1>2, NoTagIsTag, CrossedKey DEF OldKey, NewKey
        <3>3. sla' \ sla \subseteq {NewKey(h)} /\ sla \ sla' \subseteq {OldKey(h)}
            BY <1>1
        <3> QED
            BY <1>1, <1>3, <1>4, <2>2, <3>1, <3>2, <3>3, OthersKeep DEF TagsInv, TagsTyped
    <2> QED
        BY <2>1, <2>2
<1>7. Unsettled \subseteq Unsettled' \cup Touched(server[h]) /\ loose' \subseteq Unsettled'
    BY <1>3, <1>4, UnsettledGrows DEF Unsettled
<1>8. \A k \in Key : k \in Touched(server[h]) =>
          \/ k = OldKey(h)
          \/ k = NewKey(h) /\ server[h].new # Other
    BY <1>2, TouchedIs DEF OldKey, NewKey, Key
<1>9. /\ server[h].new \in Names \cup loose'
      /\ NewKey(h) \in {SLAKey(n) : n \in Names} \cup loose'
    BY <1>1, <1>2, <1>4, WithItsKey DEF TagHolds, NewNameThere, NewKey
<1>10. ASSUME NEW t \in Tagged PROVE category[t] \in Names \cup Unsettled'
    <2>1. category[t] \in Names \cup Unsettled' \cup Touched(server[h]) /\ category[t] \in Name
        BY <1>7 DEF TagsInv, CategoriesKept, TagsTyped
    <2>2. category[t] \in Touched(server[h]) => category[t] \in {server[h].old, server[h].new}
        BY <2>1, <1>2, TouchedIs
    <2>3. category[t] = server[h].old => category[t] \in loose
        BY <1>1, <1>2 DEF TagHolds, OldNameGone, At
    <2> QED
        BY <2>1, <2>2, <2>3, <1>4, <1>7, <1>9
<1>11. ASSUME NEW k \in sla' PROVE k \in {SLAKey(n) : n \in Names} \cup Unsettled'
    <2>1. CASE k = NewKey(h)
        BY <2>1, <1>7, <1>9
    <2>2. CASE k # NewKey(h) /\ k = OldKey(h)
        BY <2>2, <1>1, <1>7
    <2>3. CASE k \notin {NewKey(h), OldKey(h)}
        <3>1. k \in sla /\ k \in Key /\ k \notin Touched(server[h])
            BY <2>3, <1>1, <1>5, <1>8
        <3> QED
            BY <3>1, <1>7 DEF TagsInv, CategoriesKept
    <2> QED
        BY <2>1, <2>2, <2>3
<1>12. ASSUME NEW p \in chosen \cap Alive PROVE SLAKey(value[p]) \in sla' \cup Unsettled'
    <2> DEFINE k == SLAKey(value[p])
    <2>1. k \in Key /\ k \in sla \cup Unsettled
        BY DEF TagsInv, CategoriesKept, Alive, Key
    <2>2. CASE k = OldKey(h) /\ OldKey(h) # NewKey(h)
        <3>1. OldKey(h) \in loose
            BY <1>1, <1>2, <2>2 DEF TagHolds, OldKeyAlone, NewKey
        <3> QED
            BY <2>2, <3>1, <1>4, <1>7
    <2>3. CASE k = NewKey(h) /\ server[h].new = Other
        <3>1. OldKey(h) = NewKey(h) => OldKey(h) \in loose
            BY <1>2, <2>3, OtherKeyLoose DEF NewKey
        <3>2. NewKey(h) \in sla => NewKey(h) \in sla'
            BY <1>1
        <3> QED
            BY <2>1, <2>3, <3>1, <3>2, <1>4, <1>7, <1>8
    <2>4. CASE k = NewKey(h) /\ server[h].new # Other
        <3>1. NewKey(h) \in loose \/ (p = server[h].option /\ value[p] = server[h].new)
            BY <2>4, <1>1, <1>2 DEF TagHolds, NewKeyAlone
        <3>2. p = server[h].option /\ value[p] = server[h].new =>
                  {OldKey(h), NewKey(h)} \cap (sla \cup loose) # {}
            BY <1>1, <1>2 DEF TagHolds, ThresholdKept
        <3>3. {OldKey(h), NewKey(h)} \cap (sla \cup loose) # {} => NewKey(h) \in sla' \cup loose'
            BY <1>1
        <3> QED
            BY <2>4, <3>1, <3>2, <3>3, <1>4, <1>7
    <2>5. CASE k \notin {OldKey(h), NewKey(h)}
        <3>1. k \in sla => k \in sla'
            BY <2>5, <1>1
        <3>2. k \in Unsettled => k \in Unsettled'
            BY <2>1, <2>5, <1>7, <1>8
        <3> QED
            BY <2>1, <3>1, <3>2
    <2> QED
        BY <2>2, <2>3, <2>4, <2>5
<1>13. CategoriesKept'
    BY <1>1, <1>4, <1>10, <1>11, <1>12 DEF CategoriesKept
<1> QED
    BY <1>1, <1>3, <1>4, <1>5, <1>6, <1>13, StepKeeps DEF TagsInv, TagsTyped

\* The requests that do not take the step, when an option gets another name or goes.
LEMMA OthersKeepNamed ==
    ASSUME TagsInv, NEW h \in Server, server'[h] = server[h], UNCHANGED <<category, sla, chosen>>,
           loose \subseteq loose',
           NEW p \in Option, NEW n \in (Name \ {Other}) \cup {"gone"},
           value' = [value EXCEPT ![p] = n],
           n \in Name /\ Writes(server[h])
               /\ (n \in Touched(server[h]) \/ SLAKey(n) \in Touched(server[h])) =>
                     Touched(server[h]) \subseteq loose',
           value[p] \in Name /\ server[h] # NoTag /\ value[p] \in {server[h].old, server[h].new} =>
               value[p] \in loose' /\ SLAKey(value[p]) \in loose'
    PROVE  TagFits(h)' /\ TagHolds(h)'
<1>0. server[h] \in Tag /\ TagFits(h) /\ TagHolds(h)
    BY DEF TagsInv, TagsTyped
<1>1. value'[p] = n /\ (\A q \in Option \ {p} : value'[q] = value[q]) /\ n # Other
      /\ OldKey(h)' = OldKey(h) /\ NewKey(h)' = NewKey(h) /\ (HalfDone(h)' <=> HalfDone(h))
    BY NamesAndKeys DEF TagsInv, TagsTyped, OldKey, NewKey, HalfDone
<1>2. TagFits(h)'
    BY <1>0, <1>1 DEF TagFits, Writes
<1>3. OldNameGone(h)' /\ OldKeyGone(h)'
    BY <1>0, <1>1 DEF TagHolds, OldNameGone, OldKeyGone, At
<1>4. server[h].op # "none" => server[h] # NoTag
    BY NoTagIsTag
<1>5. Writes(server[h]) => server[h].old # Other /\ server[h].option \in Option
    BY <1>0 DEF TagFits
<1>6. StillNamed(h)'
    <2> SUFFICES ASSUME At(h, "rename", "option")
                 PROVE  value'[server[h].option] = server[h].old \/ OldKey(h) \in loose'
        BY <1>1 DEF StillNamed, At
    <2>1. server[h].option \in Option /\ server[h].old \in Name
        BY <1>0, <1>5 DEF At, Writes, Tag
    <2>2. CASE server[h].option = p /\ value[p] = server[h].old
        BY <2>1, <2>2, <1>4 DEF At, OldKey
    <2> QED
        BY <2>1, <2>2, <1>0, <1>1 DEF TagHolds, StillNamed
<1>7. NewNameThere(h)'
    <2> SUFFICES ASSUME server[h].op \in {"target", "threshold"}
                        \/ (server[h].op = "rename" /\ HalfDone(h)),
                        server[h].new \in Names
                 PROVE  server[h].new \in Names' \/ WithKeys({server[h].new}) \subseteq loose'
        BY <1>0, <1>1 DEF NewNameThere, TagHolds
    <2>1. PICK q \in Alive : value[q] = server[h].new
        BY DEF Names
    <2>2. CASE q = p
        BY <2>1, <2>2, <1>4, WithItsKey DEF Alive
    <2>3. CASE q # p
        BY <2>1, <2>3, <1>1 DEF Names, Alive
    <2> QED
        BY <2>2, <2>3
<1>8. OldKeyAlone(h)'
    <2> SUFFICES ASSUME Writes(server[h]), NEW q \in Alive', SLAKey(value'[q]) = OldKey(h)
                 PROVE  \/ OldKey(h) \in loose'
                        \/ /\ q = server[h].option
                           /\ value'[q] = IF HalfDone(h) THEN server[h].new ELSE server[h].old
        BY <1>1 DEF OldKeyAlone
    <2>1. CASE q = p
        <3>1. n \in Name /\ SLAKey(n) = OldKey(h) /\ OldKey(h) \in Touched(server[h])
            BY <2>1, <1>0, <1>1, <1>5, TouchedIs DEF Alive, OldKey
        <3> QED
            BY <3>1
    <2>2. CASE q # p
        <3>1. q \in Alive /\ value'[q] = value[q]
            BY <2>2, <1>1 DEF Alive
        <3> QED
            BY <3>1, <1>0 DEF TagHolds, OldKeyAlone
    <2> QED
        BY <2>1, <2>2
<1>9. NewKeyAlone(h)'
    <2> SUFFICES ASSUME server[h].op = "rename", HalfDone(h), server[h].new # Other,
                        NEW q \in Alive', SLAKey(value'[q]) = NewKey(h)
                 PROVE  NewKey(h) \in loose' \/ (q = server[h].option /\ value'[q] = server[h].new)
        BY <1>1 DEF NewKeyAlone
    <2>1. CASE q = p
        <3>1. n \in Name /\ SLAKey(n) = NewKey(h) /\ NewKey(h) \in Touched(server[h])
            BY <2>1, <1>0, <1>1, TouchedIs DEF Alive, NewKey
        <3> QED
            BY <3>1 DEF Writes
    <2>2. CASE q # p
        <3>1. q \in Alive /\ value'[q] = value[q]
            BY <2>2, <1>1 DEF Alive
        <3> QED
            BY <3>1, <1>0 DEF TagHolds, NewKeyAlone
    <2> QED
        BY <2>1, <2>2
<1>10. ThresholdKept(h)'
    <2> SUFFICES ASSUME server[h].op = "rename", HalfDone(h), server[h].option \in chosen,
                        value'[server[h].option] = server[h].new
                 PROVE  {OldKey(h), NewKey(h)} \cap (sla \cup loose') # {}
        BY <1>1 DEF ThresholdKept
    <2>1. server[h].option \in Option /\ server[h].new \in Name
        BY <1>0, <1>5 DEF Writes, Tag
    <2>2. CASE server[h].option = p
        <3>1. n = server[h].new /\ n \in Touched(server[h]) /\ NewKey(h) \in Touched(server[h])
            BY <2>1, <2>2, <1>0, <1>1, TouchedIs DEF NewKey
        <3> QED
            BY <2>1, <3>1 DEF Writes
    <2>3. CASE server[h].option # p
        BY <2>1, <2>3, <1>0, <1>1 DEF TagHolds, ThresholdKept
    <2> QED
        BY <2>2, <2>3
<1> QED
    BY <1>2, <1>3, <1>6, <1>7, <1>8, <1>9, <1>10 DEF TagHolds

\* A name that an option gets or loses in a request's step is loose for the others.
LEMMA NameCrossed ==
    ASSUME TagsInv, NEW h \in Server, Writes(server[h]), NEW g \in Server \ {h}, server[g] # NoTag,
           NEW x, x \in Touched(server[h]), x \in Touched(server[g])
    PROVE  Touched(server[g]) \cup Touched(server[h]) \subseteq loose
BY NoTagIsTag DEF TagsInv, CrossedAreLoose, Active

LEMMA NameLeaves ==
    ASSUME TagsInv, NEW h \in Server, Writes(server[h]), NEW g \in Server \ {h}, server[g] # NoTag,
           NEW v \in Name, v # Other, v \in {server[g].old, server[g].new},
           loose \subseteq loose', v # server[h].old => WithKeys({v}) \subseteq loose'
    PROVE  v \in loose' /\ SLAKey(v) \in loose'
<1>1. server[g] \in Tag /\ server[h] \in Tag
    BY DEF TagsInv, TagsTyped
<1>2. v \in Touched(server[g]) /\ (v = server[h].old => {v, SLAKey(v)} \subseteq Touched(server[h]))
    BY <1>1, TouchedIs
<1>3. CASE v = server[h].old
    BY <1>2, <1>3, NameCrossed
<1>4. CASE v # server[h].old
    BY <1>4, WithItsKey
<1> QED
    BY <1>3, <1>4

LEMMA DeleteOptionKeeps ==
    ASSUME TagsInv, NEW h \in Server, DeleteOption(h)
    PROVE  TagsInv'
<1> DEFINE o == server[h].option
           v == value[o]
<1>1. /\ server[h].op = "delete" /\ server[h].pc = "option"
      /\ server' = [server EXCEPT ![h] = NoTag]
      /\ value' = [value EXCEPT ![o] = "gone"]
      /\ loose' = loose \cup Renamed(h)
      /\ UNCHANGED <<category, sla, chosen>>
    BY DEF DeleteOption, At, Answers
<1>2. /\ server[h] \in Tag /\ TagFits(h) /\ TagHolds(h) /\ server[h] # NoTag /\ HalfDone(h)
      /\ Writes(server[h]) /\ server[h].old # Other /\ server[h].new = server[h].old
      /\ o \in Option /\ v # Other
    BY <1>1, NoTagIsTag DEF TagsInv, TagsTyped, HalfDone, Writes, TagFits
<1>3. server' \in [Server -> Tag] /\ server'[h] = NoTag /\ \A g \in Server \ {h} : server'[g] = server[g]
    BY <1>1, NoTagIsTag DEF TagsInv, TagsTyped
<1>4. v \in Name /\ v # server[h].old => v \in loose' /\ SLAKey(v) \in loose' /\ WithKeys({v}) \subseteq loose'
    BY <1>1, WithItsKey DEF Renamed
<1> HIDE DEF o, v
<1>5. /\ value' \in [Option -> Name \cup {"unborn", "gone"}] /\ value'[o] = "gone"
      /\ \A q \in Option \ {o} : value'[q] = value[q]
    BY <1>1, <1>2 DEF TagsInv, TagsTyped
<1>6. Alive' = Alive \ {o}
    BY <1>2, <1>5, NamesAndKeys DEF Alive
<1>7. \A n \in Names : n \in Names' \/ (n = v /\ v \in Name)
    BY <1>5, <1>6 DEF Names, Alive, v
<1>8. NamesHold'
    <2>1. Other \in Names'
        BY <1>2, <1>7 DEF TagsInv, NamesHold
    <2> QED
        BY <2>1, <1>1, <1>5, <1>6 DEF TagsInv, NamesHold, Alive
<1>9. ASSUME NEW g \in Server PROVE TagFits(g)' /\ TagHolds(g)'
    <2>1. CASE g = h
        BY <2>1, <1>3, NoTagHolds
    <2>2. CASE g # h
        <3>1. v \in Name /\ server[g] # NoTag /\ v \in {server[g].old, server[g].new} =>
                  v \in loose' /\ SLAKey(v) \in loose'
            BY <2>2, <1>1, <1>2, <1>4, NameLeaves
        <3>2. "gone" \notin Name /\ loose \subseteq loose' /\ server'[g] = server[g]
            BY <2>2, <1>1, <1>3, NamesAndKeys
        <3> QED
            BY <1>1, <1>2, <3>1, <3>2, OthersKeepNamed DEF v
    <2> QED
        BY <2>1, <2>2
<1>10. Unsettled \subseteq Unsettled' \cup Touched(server[h]) /\ loose' \subseteq Unsettled'
    BY <1>1, <1>3, UnsettledGrows DEF Unsettled
<1>11. /\ \A n \in Name : n \in Touched(server[h]) => n = server[h].old
       /\ \A k \in Key : k \in Touched(server[h]) => k = OldKey(h)
    BY <1>2, TouchedIs DEF OldKey, Key
<1>12. ASSUME NEW t \in Tagged PROVE category[t] \in Names' \cup Unsettled'
    <2>1. category[t] \in Name /\ category[t] \in Names \cup Unsettled
        BY DEF TagsInv, TagsTyped, CategoriesKept
    <2>2. category[t] = server[h].old => category[t] \in loose
        BY <1>1, <1>2 DEF TagHolds, OldNameGone, At
    <2> QED
        BY <2>1, <2>2, <1>1, <1>4, <1>7, <1>10, <1>11
<1>13. ASSUME NEW k \in sla PROVE k \in {SLAKey(n) : n \in Names'} \cup Unsettled'
    <2>1. k \in Key /\ k \in {SLAKey(n) : n \in Names} \cup Unsettled
        BY DEF TagsInv, TagsTyped, CategoriesKept
    <2>2. k = OldKey(h) => k \in loose
        BY <1>1, <1>2 DEF TagHolds, OldKeyGone, At
    <2>3. CASE k \in Unsettled
        BY <2>1, <2>2, <2>3, <1>1, <1>10, <1>11
    <2>4. CASE \E n \in Names : k = SLAKey(n)
        <3>1. PICK n \in Names : k = SLAKey(n)
            BY <2>4
        <3>2. n = v /\ v = server[h].old => k = OldKey(h)
            BY <3>1 DEF OldKey
        <3> QED
            BY <3>1, <3>2, <2>2, <1>1, <1>4, <1>7, <1>10
    <2> QED
        BY <2>1, <2>3, <2>4
<1>14. ASSUME NEW p \in chosen \cap Alive' PROVE SLAKey(value[p]) \in sla \cup Unsettled'
    <2>1. p \in Alive \ {o} /\ SLAKey(value[p]) \in Key /\ SLAKey(value[p]) \in sla \cup Unsettled
        BY <1>6 DEF TagsInv, CategoriesKept, Alive, Key
    <2>2. SLAKey(value[p]) = OldKey(h) => OldKey(h) \in loose
        BY <2>1, <1>2 DEF TagHolds, OldKeyAlone, o
    <2> QED
        BY <2>1, <2>2, <1>1, <1>10, <1>11
<1>15. CategoriesKept'
    <2>1. \A p \in Alive' : value'[p] = value[p]
        BY <1>5, <1>6 DEF Alive
    <2> QED
        BY <1>1, <1>12, <1>13, <1>14, <2>1 DEF CategoriesKept
<1>16. \A p \in chosen' : p \in Option /\ value'[p] # "unborn"
    BY <1>1, <1>5 DEF TagsInv, TagsTyped
<1> QED
    BY <1>1, <1>3, <1>5, <1>8, <1>9, <1>15, <1>16, StepKeeps DEF TagsInv, TagsTyped

\* The option is there and its name is free.
LEMMA RenameThereKeeps ==
    ASSUME TagsInv, NEW h \in Server, RenameOption(h), server[h].option \in Alive,
           ~ \E p \in Alive \ {server[h].option} : value[p] = server[h].new
    PROVE  TagsInv'
<1> DEFINE o == server[h].option
           n == server[h].new
           v == value[o]
<1>1. /\ server[h].op = "rename" /\ server[h].pc = "option" /\ Goes(h, "targets")
      /\ value' = [value EXCEPT ![o] = n]
      /\ loose' = loose \cup Shared(o, n) \cup Renamed(h)
      /\ UNCHANGED <<category, sla, chosen>>
    BY DEF RenameOption, At
<1>2. /\ server \in [Server -> Tag] /\ server[h] \in Tag /\ TagFits(h) /\ TagHolds(h)
      /\ server[h] # NoTag /\ ~HalfDone(h) /\ Writes(server[h])
      /\ server[h].old # Other /\ n # server[h].old
      /\ o \in Option /\ v # Other /\ v \in Name /\ n \in Name
    BY <1>1, NoTagIsTag DEF TagsInv, TagsTyped, HalfDone, Writes, TagFits, Alive, Tag
<1>3. /\ server' \in [Server -> Tag] /\ \A g \in Server \ {h} : server'[g] = server[g]
      /\ server'[h].pc = "targets" /\ server'[h].op = "rename"
      /\ server'[h].option = o
      /\ server'[h].old = server[h].old /\ server'[h].new = n
      /\ Touched(server'[h]) = Touched(server[h])
    BY <1>1, <1>2, GoesOn
<1>4. v # server[h].old => v \in loose' /\ SLAKey(v) \in loose' /\ WithKeys({v}) \subseteq loose'
    BY <1>1, <1>2, WithItsKey DEF Renamed
<1>5. \A q \in Alive \ {o} : value[q] # n /\ (SLAKey(value[q]) = SLAKey(n) => SLAKey(n) \in loose')
    BY <1>1 DEF Shared
<1>6. n # Other
    BY <1>2, <1>5 DEF TagsInv, NamesHold, Names
<1>7. /\ OldKey(h)' = OldKey(h) /\ NewKey(h)' = SLAKey(n) /\ HalfDone(h)'
      /\ loose \subseteq loose'
    BY <1>1, <1>3 DEF OldKey, NewKey, HalfDone
<1>8. /\ v = server[h].old => v \in Touched(server[h]) /\ SLAKey(v) \in Touched(server[h])
      /\ n \in Touched(server[h]) /\ SLAKey(n) \in Touched(server[h])
      /\ OldKey(h) \in Touched(server[h]) /\ (v = server[h].old => OldKey(h) = SLAKey(v))
    BY <1>2, <1>6, TouchedIs DEF OldKey
<1>o. server[h].option = o /\ value[o] = v /\ o \in Alive
    OBVIOUS
<1> HIDE DEF o, n, v
<1>9. /\ value' \in [Option -> Name \cup {"unborn", "gone"}] /\ value'[o] = n
      /\ \A q \in Option \ {o} : value'[q] = value[q]
    BY <1>1, <1>2 DEF TagsInv, TagsTyped
<1>10. Alive' = Alive
    BY <1>2, <1>9, <1>o DEF Alive
<1>11. n \in Names' /\ \A m \in Names : m \in Names' \/ m = v
    BY <1>9, <1>10, <1>o DEF Names, Alive
<1>12. NamesHold'
    <2>1. Other \in Names'
        BY <1>2, <1>11 DEF TagsInv, NamesHold
    <2>2. \A p \in Alive \ {o} : value'[p] = value[p]
        BY <1>9 DEF Alive
    <2>3. \A p, q \in Alive \ {o} : value[p] = value[q] => p = q
        BY DEF TagsInv, NamesHold
    <2>4. \A p, q \in Alive \ {o} : p # q /\ SLAKey(value[p]) = SLAKey(value[q]) => SLAKey(value[p]) \in loose'
        BY <1>7 DEF TagsInv, NamesHold
    <2>5. \A p, q \in Alive' : value'[p] = value'[q] => p = q
        BY <2>2, <2>3, <1>5, <1>9, <1>10
    <2>6. \A p, q \in Alive' : p # q /\ SLAKey(value'[p]) = SLAKey(value'[q]) => SLAKey(value'[p]) \in loose'
        BY <2>2, <2>4, <1>5, <1>9, <1>10
    <2> QED
        BY <2>1, <2>5, <2>6 DEF NamesHold
<1>13. TagFits(h)'
    BY <1>2, <1>3, <1>6, <1>9 DEF TagFits, Writes
<1>14. NewNameThere(h)' /\ OldKeyAlone(h)' /\ NewKeyAlone(h)'
    <2>1. NewNameThere(h)'
        BY <1>3, <1>11 DEF NewNameThere
    <2>2. \A q \in Alive \ {o} : value'[q] = value[q]
        BY <1>9 DEF Alive
    <2>3. \A q \in Alive \ {o} : SLAKey(value[q]) = OldKey(h) => OldKey(h) \in loose'
        BY <1>2, <1>7, <1>o DEF TagHolds, OldKeyAlone
    <2>4. OldKeyAlone(h)'
        BY <2>2, <2>3, <1>3, <1>7, <1>9, <1>10 DEF OldKeyAlone
    <2>5. NewKeyAlone(h)'
        BY <2>2, <1>3, <1>5, <1>7, <1>9, <1>10 DEF NewKeyAlone
    <2> QED
        BY <2>1, <2>4, <2>5
<1>15. ThresholdKept(h)'
    <2>1. SUFFICES ASSUME o \in chosen PROVE OldKey(h) \in sla \cup loose'
        BY <1>1, <1>3, <1>7 DEF ThresholdKept
    <2>2. CASE v # server[h].old
        BY <2>2, <1>1, <1>2, <1>7, <1>o DEF TagHolds, StillNamed, At
    <2>3. CASE v = server[h].old
        <3>1. OldKey(h) \in sla \cup Unsettled
            BY <2>1, <2>3, <1>8, <1>o DEF TagsInv, CategoriesKept
        <3>2. ASSUME NEW g \in Server, HalfDone(g), OldKey(h) \in Touched(server[g])
              PROVE  OldKey(h) \in loose
            <4>1. g # h /\ server[g] # NoTag
                BY <3>2, <1>2, NoTagIsTag DEF HalfDone
            <4> QED
                BY <3>2, <4>1, <1>2, <1>8, NameCrossed
        <3> QED
            BY <3>1, <3>2, <1>7 DEF Unsettled
    <2> QED
        BY <2>2, <2>3
<1>16. TagHolds(h)'
    BY <1>3, <1>14, <1>15 DEF TagHolds, OldNameGone, OldKeyGone, StillNamed, At
<1>17. ASSUME NEW g \in Server \ {h} PROVE TagFits(g)' /\ TagHolds(g)'
    <2>1. server[g] # NoTag /\ v \in {server[g].old, server[g].new} =>
              v \in loose' /\ SLAKey(v) \in loose'
        BY <1>2, <1>4, <1>7, NameLeaves
    <2>2. Writes(server[g]) /\ (n \in Touched(server[g]) \/ SLAKey(n) \in Touched(server[g])) =>
              Touched(server[g]) \subseteq loose'
        <3>1. Writes(server[g]) => server[g] # NoTag
            BY NoTagIsTag
        <3> QED
            BY <3>1, <1>2, <1>7, <1>8, NameCrossed
    <2> QED
        BY <1>1, <1>2, <1>3, <1>6, <1>7, <2>1, <2>2, <1>o, OthersKeepNamed
<1>18. Unsettled \cup Touched(server[h]) \subseteq Unsettled' /\ loose' \subseteq Unsettled'
    BY <1>2, <1>3, <1>7, UnsettledGrows DEF Unsettled
<1>19. v \in Unsettled' /\ SLAKey(v) \in Unsettled' /\ SLAKey(n) \in Unsettled'
    BY <1>4, <1>8, <1>18
<1>20. CategoriesKept'
    <2>1. \A t \in Tagged : category[t] \in Names' \cup Unsettled'
        BY <1>11, <1>18, <1>19 DEF TagsInv, CategoriesKept
    <2>2. sla \subseteq {SLAKey(m) : m \in Names'} \cup Unsettled'
        BY <1>11, <1>18, <1>19 DEF TagsInv, CategoriesKept
    <2>3. \A q \in chosen \cap Alive : SLAKey(value'[q]) \in sla \cup Unsettled'
        BY <1>9, <1>18, <1>19 DEF TagsInv, CategoriesKept, Alive
    <2> QED
        BY <2>1, <2>2, <2>3, <1>1, <1>10 DEF CategoriesKept
<1>21. \A p \in chosen' : p \in Option /\ value'[p] # "unborn"
    BY <1>1, <1>2, <1>9, NamesAndKeys DEF TagsInv, TagsTyped
<1>22. \A g \in Server : TagFits(g)' /\ TagHolds(g)'
    BY <1>13, <1>16, <1>17
<1>23. category' \in [Tagged -> Name] /\ sla' \subseteq Key
    BY <1>1 DEF TagsInv, TagsTyped
<1>24. server[h] # NoTag /\ server'[h].op = server[h].op
       /\ server'[h].old = server[h].old /\ server'[h].new = server[h].new
    BY <1>1, <1>2, <1>3 DEF n
<1> QED
    BY <1>3, <1>7, <1>9, <1>12, <1>20, <1>21, <1>22, <1>23, <1>24, StepKeeps

LEMMA RenameOptionKeeps ==
    ASSUME TagsInv, NEW h \in Server, RenameOption(h)
    PROVE  TagsInv'
<1> DEFINE o == server[h].option
           n == server[h].new
<1>1. CASE o \in Alive /\ \E p \in Alive \ {o} : value[p] = n
    <2>1. Answers(h) /\ UNCHANGED <<value, loose, category, sla, chosen>> /\ ~HalfDone(h)
        BY <1>1 DEF RenameOption, At, HalfDone
    <2> QED
        BY <2>1, AnswerKeeps DEF Answers
<1>2. CASE o \in Alive /\ ~ \E p \in Alive \ {o} : value[p] = n
    BY <1>2, RenameThereKeeps
<1>3. CASE o \notin Alive
    <2>1. /\ server[h].op = "rename" /\ server[h].pc = "option" /\ Goes(h, "targets")
          /\ value' = value /\ loose \subseteq loose' /\ Touched(server[h]) \subseteq loose'
          /\ UNCHANGED <<category, sla, chosen>>
        BY <1>3 DEF RenameOption, At
    <2>2. /\ server \in [Server -> Tag] /\ server[h] \in Tag /\ TagFits(h) /\ TagHolds(h)
          /\ server[h] # NoTag /\ ~HalfDone(h) /\ server[h].old # Other
        BY <2>1, NoTagIsTag DEF TagsInv, TagsTyped, HalfDone, Writes, TagFits
    <2>3. /\ server' \in [Server -> Tag] /\ \A g \in Server \ {h} : server'[g] = server[g]
          /\ server'[h].pc = "targets" /\ server'[h].op = "rename"
          /\ server'[h].option = server[h].option
          /\ server'[h].old = server[h].old /\ server'[h].new = server[h].new
        BY <2>1, <2>2, GoesOn
    <2>4. Names' = Names /\ Alive' = Alive /\ NamesHold'
        BY <2>1 DEF TagsInv, NamesHold, Names, Alive
    <2>5. OldKey(h)' = OldKey(h) /\ NewKey(h)' = NewKey(h) /\ TagFits(h)'
        BY <2>1, <2>2, <2>3 DEF OldKey, NewKey, TagFits, Writes
    <2>6. OldKey(h) \in loose' /\ (server[h].new # Other => server[h].new \in loose' /\ NewKey(h) \in loose')
        BY <2>1, <2>2, TouchedIs DEF OldKey, NewKey
    <2>7. NewNameThere(h)'
        <3>1. Other \in Names
            BY DEF TagsInv, NamesHold
        <3> QED
            BY <2>3, <2>4, <2>6, <3>1, WithItsKey DEF NewNameThere, NewKey
    <2>8. OldKeyAlone(h)' /\ NewKeyAlone(h)' /\ ThresholdKept(h)'
        BY <2>3, <2>5, <2>6 DEF OldKeyAlone, NewKeyAlone, ThresholdKept
    <2>9. TagHolds(h)'
        BY <2>3, <2>7, <2>8 DEF TagHolds, OldNameGone, OldKeyGone, StillNamed, At
    <2>10. ASSUME NEW g \in Server PROVE TagFits(g)' /\ TagHolds(g)'
        BY <2>1, <2>3, <2>5, <2>9, OthersKeep DEF TagsInv, TagsTyped
    <2>11. Unsettled \subseteq Unsettled'
        BY <2>1, <2>2, <2>3, UnsettledGrows
    <2>12. CategoriesKept'
        BY <2>1, <2>4, <2>11 DEF TagsInv, CategoriesKept
    <2> QED
        BY <2>1, <2>2, <2>3, <2>4, <2>10, <2>12, StepKeeps DEF TagsInv, TagsTyped
<1> QED
    BY <1>1, <1>2, <1>3

LEMMA AddTagKeeps ==
    ASSUME TagsInv, NEW o \in Option, NEW n \in Name, addTag(o, n)
    PROVE  TagsInv'
<1>1. PICK r : r = [NoTag EXCEPT !.op = "rename", !.old = n, !.new = n]
    OBVIOUS
<1>2. /\ value[o] = "unborn" /\ n \notin Names /\ value' = [value EXCEPT ![o] = n]
      /\ loose' = loose \cup Shared(o, n) \cup Clash(r)
      /\ UNCHANGED <<category, sla, server, chosen>>
    BY <1>1 DEF addTag
<1>3. r \in Tag /\ r.op = "rename" /\ r.old = n /\ r.new = n /\ Writes(r)
    BY <1>1, NoTagIsTag DEF Tag, Writes
<1>4. n # Other /\ n \in Touched(r) /\ SLAKey(n) \in Touched(r)
    BY <1>2, <1>3, TouchedIs DEF TagsInv, NamesHold
<1>5. /\ value' \in [Option -> Name \cup {"unborn", "gone"}] /\ value'[o] = n
      /\ \A q \in Option \ {o} : value'[q] = value[q]
    BY <1>2 DEF TagsInv, TagsTyped
<1>6. Alive' = Alive \cup {o} /\ o \notin Alive /\ Names' = Names \cup {n}
    BY <1>2, <1>5, NamesAndKeys DEF Alive, Names
<1>7. \A q \in Alive : value'[q] = value[q] /\ value[q] # n
                       /\ (SLAKey(value[q]) = SLAKey(n) => SLAKey(n) \in loose')
    BY <1>2, <1>5, <1>6 DEF Shared, Names, Alive
<1>8. NamesHold'
    <2>1. \A p, q \in Alive : value[p] = value[q] => p = q
        BY DEF TagsInv, NamesHold
    <2>2. \A p, q \in Alive : p # q /\ SLAKey(value[p]) = SLAKey(value[q]) => SLAKey(value[p]) \in loose'
        BY <1>2 DEF TagsInv, NamesHold
    <2>3. Other \in Names'
        BY <1>6 DEF TagsInv, NamesHold
    <2>4. \A p, q \in Alive' : value'[p] = value'[q] => p = q
        BY <2>1, <1>5, <1>6, <1>7
    <2>5. \A p, q \in Alive' : p # q /\ SLAKey(value'[p]) = SLAKey(value'[q]) => SLAKey(value'[p]) \in loose'
        BY <2>2, <1>5, <1>6, <1>7
    <2> QED
        BY <2>3, <2>4, <2>5 DEF NamesHold
<1>9. ASSUME NEW g \in Server PROVE TagFits(g)' /\ TagHolds(g)'
    <2>1. Writes(server[g]) /\ (n \in Touched(server[g]) \/ SLAKey(n) \in Touched(server[g])) =>
              Touched(server[g]) \subseteq loose'
        <3>1. Writes(server[g]) => g \in Active
            BY NoTagIsTag DEF Active
        <3> QED
            BY <3>1, <1>2, <1>3, <1>4 DEF Clash
    <2>2. value[o] \notin Name /\ loose \subseteq loose' /\ server'[g] = server[g]
        BY <1>2, NamesAndKeys
    <2> QED
        BY <1>2, <1>4, <2>1, <2>2, OthersKeepNamed
<1>10. CrossedAreLoose'
    BY <1>2, CrossedKept DEF TagsInv
<1>11. TagsTyped'
    <2>1. \A p \in chosen' : p \in Option /\ value'[p] # "unborn"
        BY <1>2, <1>5, NamesAndKeys DEF TagsInv, TagsTyped
    <2> QED
        BY <1>2, <1>5, <1>9, <2>1 DEF TagsInv, TagsTyped
<1>12. Unsettled \subseteq Unsettled'
    BY <1>2 DEF Unsettled, HalfDone
<1>13. CategoriesKept'
    <2>1. o \notin chosen
        BY <1>2 DEF TagsInv, TagsTyped
    <2> QED
        BY <1>2, <1>6, <1>7, <1>12, <2>1 DEF TagsInv, CategoriesKept
<1> QED
    BY <1>8, <1>9, <1>10, <1>11, <1>13 DEF TagsInv

LEMMA TagsInvStays == TagsInv /\ [TagsNext]_tagVars => TagsInv'
BY TagsStutter, AddTagKeeps, DeleteTagKeeps, SaveRenameKeeps, ValidateKeeps, IsSLAKeyKeeps,
   CheckInUseKeeps, DeleteThresholdKeeps, DeleteOptionKeeps, RenameOptionKeeps, RenameTargetsKeeps,
   RenameThresholdKeeps, WriteTargetKeeps, WriteThresholdKeeps, StatementFailsKeeps DEF TagsNext

\* Targets, thresholds and options agree, for any options, names, keys and any number of
\* requests at a time, except where requests crossed or failed halfway or two names have
\* the same key.
THEOREM CategoriesAgree == TagsSpec => []CategoriesHold
<1>1. ASSUME TagsInv PROVE CategoriesHold
    <2>1. \A h \in Server : HalfDone(h) => h \in Active
        BY NoTagIsTag DEF HalfDone, Active
    <2>2. Unsettled \subseteq Between
        BY <2>1 DEF Unsettled, Between
    <2> QED
        BY <1>1, <2>2 DEF TagsInv, CategoriesKept, CategoriesHold
<1> QED
    BY <1>1, TagsInvFirst, TagsInvStays, PTL DEF TagsSpec
===============================================================================
