------------------------------ MODULE BoardsProofs ------------------------------
(***************************************************************************)
(* Proofs about what the pages show: the bars of the dashboard and the SOC *)
(* board, the filters and saved searches of the target pages, the logs     *)
(* that are read a page at a time and the figures computed from an answer. *)
(***************************************************************************)
EXTENDS Boards, TargetFilters, PagedLists, Figures, FiniteSetTheorems, SequenceTheorems, TLAPS
-----------------------------------------------------------------------------
(* Pages of a list. *)

\* A page that is not beyond the last one begins within the list.
LEMMA PagesCover ==
    ASSUME NEW n \in Nat, NEW len \in Nat \ {0}, NEW p \in Nat \ {0}, p <= (n + len - 1) \div len
    PROVE  (p - 1) * len \in Nat /\ (p - 1) * len < n /\ p * len = (p - 1) * len + len
<1> DEFINE q == (n + len - 1) \div len
<1>1. q \in Int /\ len * q <= n + len - 1
  OBVIOUS
<1>2. len * p <= len * q
  <2>1. q = p + (q - p) /\ q - p \in Nat
    BY <1>1
  <2>2. len * (q - p) \in Nat
    BY <2>1
  <2>3. len * q = len * p + len * (q - p)
    BY <2>1
  <2>. QED  BY <2>2, <2>3
<1>3. p * len = len * p /\ p * len = (p - 1) * len + len /\ (p - 1) * len \in Nat
  OBVIOUS
<1>. HIDE DEF q
<1>. QED  BY <1>1, <1>2, <1>3

\* A list that is not empty has a page.
LEMMA PagesThere ==
    ASSUME NEW n \in Nat \ {0}, NEW len \in Nat \ {0}
    PROVE  (n + len - 1) \div len \in Nat /\ (n + len - 1) \div len >= 1
<1> DEFINE q == (n + len - 1) \div len
<1>1. q \in Int /\ len * q <= n + len - 1 /\ n + len - 1 < len * q + len
  OBVIOUS
<1>2. CASE q <= 0
  <2>1. len * q <= 0
    BY <1>1, <1>2
  <2>. QED  BY <1>1, <2>1
<1>. QED  BY <1>1, <1>2
-----------------------------------------------------------------------------
(* The dashboard and the SOC board. *)

LEMMA FilteredFinite ==
    ASSUME NEW d, d.targets \subseteq Host, NEW c
    PROVE  /\ Filtered(d, c) \subseteq Nat /\ IsFiniteSet(Filtered(d, c))
           /\ Cardinality(Filtered(d, c)) \in Nat
<1>1. Filtered(d, c) \subseteq Host
  BY DEF Filtered
<1>. QED  BY <1>1, HostAssumption, FS_Subset, FS_CardinalityType

\* Each place of the list is taken by a target.
LEMMA PlacesTaken ==
    ASSUME NEW d, d.targets \subseteq Host, NEW c,
           NEW i \in 0 .. Cardinality(Filtered(d, c)) - 1
    PROVE  \E h \in Filtered(d, c) : Place(d, c, h) = i
<1> DEFINE S == Filtered(d, c)
           n == Cardinality(S)
           Before(h) == {g \in S : GoesBefore(d, g, h)}
           place == [h \in S |-> Place(d, c, h)]
<1>1. S \subseteq Nat /\ IsFiniteSet(S) /\ n \in Nat
  BY FilteredFinite
<1>2. \A h \in S : IsFiniteSet(Before(h)) /\ Cardinality(Before(h)) \in Nat /\ Place(d, c, h) = Cardinality(Before(h))
  BY <1>1, FS_Subset, FS_CardinalityType DEF Place
<1>3. \A h \in S : ~GoesBefore(d, h, h)
  BY <1>1 DEF GoesBefore
<1>4. \A g, h \in S : g # h => GoesBefore(d, g, h) \/ GoesBefore(d, h, g)
  BY <1>1 DEF GoesBefore
<1>5. \A f, g, h \in S : GoesBefore(d, f, g) /\ GoesBefore(d, g, h) => GoesBefore(d, f, h)
  BY <1>1 DEF GoesBefore
<1>6. ASSUME NEW h \in S, NEW T, T \subseteq S, Before(h) \cup {h} \subseteq T
      PROVE  Place(d, c, h) < Cardinality(T)
  <2>1. h \notin Before(h)
    BY <1>3
  <2>2. Cardinality(Before(h) \cup {h}) = Cardinality(Before(h)) + 1 /\ IsFiniteSet(Before(h) \cup {h})
    <3>. HIDE DEF Before
    <3>. QED  BY <1>2, <2>1, FS_AddElement
  <2>3. IsFiniteSet(T) /\ Cardinality(T) \in Nat /\ Cardinality(Before(h) \cup {h}) <= Cardinality(T)
    <3>. HIDE DEF Before
    <3>. QED  BY <1>1, <1>6, FS_Subset, FS_CardinalityType
  <2>. HIDE DEF Before
  <2>. QED  BY <1>2, <2>2, <2>3
<1>7. \A h \in S : Place(d, c, h) \in 0 .. n - 1
  <2>. TAKE h \in S
  <2>1. Before(h) \cup {h} \subseteq S
    OBVIOUS
  <2>2. Place(d, c, h) < n
    BY <1>6, <2>1
  <2>3. Place(d, c, h) \in Nat
    BY <1>2
  <2>. HIDE DEF n
  <2>. QED  BY <1>1, <2>2, <2>3
<1>8. \A g, h \in S : GoesBefore(d, g, h) => Place(d, c, g) < Place(d, c, h)
  <2> SUFFICES ASSUME NEW g \in S, NEW h \in S, GoesBefore(d, g, h) PROVE Place(d, c, g) < Place(d, c, h)
    OBVIOUS
  <2>1. Before(h) \subseteq S /\ Before(g) \cup {g} \subseteq Before(h)
    BY <1>5
  <2>2. Place(d, c, g) < Cardinality(Before(h))
    BY <1>6, <2>1
  <2>. QED  BY <1>2, <2>2
<1>9. place \in Injection(S, 0 .. n - 1)
  <2>1. place \in [S -> 0 .. n - 1]
    BY <1>7
  <2>2. ASSUME NEW g \in S, NEW h \in S, Place(d, c, g) = Place(d, c, h) PROVE g = h
    <3>1. Place(d, c, g) \in Nat
      BY <1>2
    <3>2. ~(Place(d, c, g) < Place(d, c, h)) /\ ~(Place(d, c, h) < Place(d, c, g))
      BY <2>2, <3>1
    <3>3. ~GoesBefore(d, g, h) /\ ~GoesBefore(d, h, g)
      BY <1>8, <3>2
    <3>. QED  BY <1>4, <3>3
  <2>. QED  BY <2>1, <2>2 DEF Injection, IsInjective
<1>10. IsFiniteSet(0 .. n - 1) /\ Cardinality(0 .. n - 1) = n
  <2>. HIDE DEF n
  <2>1. n \in Nat /\ n - 1 \in Int
    BY <1>1
  <2>2. /\ IsFiniteSet(0 .. n - 1)
        /\ Cardinality(0 .. n - 1) = IF 0 > n - 1 THEN 0 ELSE n - 1 - 0 + 1
    BY <2>1, FS_Interval
  <2>. QED  BY <2>1, <2>2
<1>11. place \in Surjection(S, 0 .. n - 1)
  <2>. HIDE DEF place, n
  <2>1. Cardinality(S) = Cardinality(0 .. n - 1)
    BY <1>10 DEF n
  <2>. QED  BY <1>9, <1>10, <2>1, FS_Injection
<1>12. PICK h \in S : place[h] = i
  BY <1>11 DEF Surjection
<1>. QED  BY <1>12

\* A page that is not beyond the last one shows a target.
LEMMA PageShows ==
    ASSUME NEW d, d.targets \subseteq Host, NEW c, NEW p \in Nat \ {0}, p <= totalPages(d, c)
    PROVE  paginated(d, c, p) # {}
<1> DEFINE n == Cardinality(Filtered(d, c))
           first == (p - 1) * PageSize
<1>1. n \in Nat /\ PageSize \in Nat \ {0}
  BY FilteredFinite, HostAssumption
<1>2. first \in Nat /\ first < n /\ p * PageSize = first + PageSize
  BY <1>1, PagesCover DEF totalPages
<1>3. first \in 0 .. n - 1
  BY <1>1, <1>2
<1>4. PICK h \in Filtered(d, c) : Place(d, c, h) = first
  BY <1>3, PlacesTaken
<1>. HIDE DEF n
<1>5. first <= Place(d, c, h) /\ Place(d, c, h) < p * PageSize
  BY <1>1, <1>2, <1>4
<1>. QED  BY <1>4, <1>5 DEF paginated

LEMMA SomePage ==
    ASSUME NEW d, d.targets \subseteq Host, NEW c
    PROVE  totalPages(d, c) \in Int /\ (Filtered(d, c) # {} => totalPages(d, c) >= 1)
<1> DEFINE n == Cardinality(Filtered(d, c))
<1>1. n \in Nat /\ PageSize \in Nat \ {0} /\ (n = 0 <=> Filtered(d, c) = {})
  BY FilteredFinite, HostAssumption, FS_EmptySet
<1>2. totalPages(d, c) \in Int
  BY <1>1 DEF totalPages
<1>3. CASE n > 0
  BY <1>1, <1>2, <1>3, PagesThere DEF totalPages
<1>. QED  BY <1>1, <1>2, <1>3

\* Checks that have a bar, are marked as missing it or have been asked for.
Coming(stages) == UNION {b.ids : b \in {r \in batch : r.stage \in stages}}
Served4h == bars4h \cup historyError \cup Coming({"both", "4h"})
Served90d == bars90d \cup missed \cup Coming({"4h", "90d"})

\* A request is of its board's kind, and what it does not need is there.
RequestFits(b) ==
    /\ b.stage \in IF board = "dashboard" THEN {"both"} ELSE {"4h", "90d"}
    /\ b.ids \ b.need \subseteq IF b.stage = "90d" THEN bars90d ELSE bars4h

BoardsTyped ==
    /\ board \in {"dashboard", "soc"}
    /\ data \in [targets : SUBSET Host, down : SUBSET Host]
    /\ page \in Nat \ {0}
    /\ show90d \in BOOLEAN /\ (board = "dashboard" => ~show90d)
    /\ \A b \in batch : RequestFits(b)

\* The page is not beyond the last one.
PageInList == shrunk \/ Filtered(data, activeCategory) = {} \/ page <= totalPages(data, activeCategory)

ShownServed ==
    LET here == ShownChecks(paginated(data, activeCategory, page))
    IN  narrowed \/ (here \subseteq Served4h /\ (show90d => here \subseteq Served90d))

BoardsInv == BoardsTyped /\ PageInList /\ ShownServed

LEMMA BoardsStart == BoardsInit => BoardsInv
<1> SUFFICES ASSUME BoardsInit PROVE BoardsInv
  OBVIOUS
<1>1. BoardsTyped
  <2>1. board \in {"dashboard", "soc"} /\ page \in Nat \ {0} /\ show90d = FALSE
    BY DEF BoardsInit
  <2>2. data \in [targets : SUBSET Host, down : SUBSET Host]
    BY DEF BoardsInit
  <2>3. \A b \in batch : RequestFits(b)
    BY DEF BoardsInit
  <2>. QED  BY <2>1, <2>2, <2>3 DEF BoardsTyped
<1>2. Filtered(data, activeCategory) = {}
  BY DEF BoardsInit, Filtered
<1>3. ShownChecks(paginated(data, activeCategory, page)) = {}
  BY <1>2 DEF paginated, ShownChecks
<1>. QED  BY <1>1, <1>2, <1>3 DEF BoardsInv, PageInList, ShownServed

\* The history of the checks that are asked for comes.
LEMMA AskServes ==
    ASSUME NEW hosts, NEW with90d \in BOOLEAN, Ask(hosts, with90d), BoardsTyped,
           UNCHANGED <<board, barVars>>
    PROVE  /\ batch \subseteq batch' /\ \A b \in batch' : RequestFits(b)'
           /\ ShownChecks(hosts) \subseteq Served4h'
           /\ board = "soc" /\ with90d => ShownChecks(hosts) \subseteq Served90d'
<1> DEFINE ids == ShownChecks(hosts)
           first == Request(IF board = "dashboard" THEN "both" ELSE "4h", ids, bars4h)
           second == Request("90d", ids, bars90d)
           then == IF board = "soc" /\ first = {} /\ with90d THEN second ELSE first
<1>1. batch' = batch \cup then
  BY DEF Ask
<1>2. first = {} => ids \subseteq bars4h
  BY DEF Request
<1>3. second = {} => ids \subseteq bars90d
  BY DEF Request
<1>4. \A b \in first : b.ids = ids /\ b.need = ids \ bars4h /\ b.stage = IF board = "dashboard" THEN "both" ELSE "4h"
  BY DEF Request
<1>5. \A b \in second : b.ids = ids /\ b.need = ids \ bars90d /\ b.stage = "90d"
  BY DEF Request
<1>. HIDE DEF ids, first, second
<1>6. \A b \in batch' : RequestFits(b)'
  <2>1. \A b \in batch : RequestFits(b)'
    BY DEF BoardsTyped, RequestFits, barVars
  <2>2. \A b \in first : RequestFits(b)'
    BY <1>4 DEF BoardsTyped, RequestFits, barVars
  <2>3. board = "soc" => \A b \in second : RequestFits(b)'
    BY <1>5 DEF RequestFits, barVars
  <2>. QED  BY <1>1, <2>1, <2>2, <2>3
<1>7. ids \subseteq Served4h'
  <2>1. CASE ids \subseteq bars4h
    BY <2>1 DEF Served4h, barVars
  <2>2. CASE first # {}
    <3>1. PICK b \in first : TRUE
      BY <2>2
    <3>2. b \in batch'
      BY <1>1, <2>2, <3>1
    <3>3. b.ids = ids /\ b.stage \in {"both", "4h"}
      BY <1>4, <3>1
    <3>. QED  BY <3>2, <3>3 DEF Served4h, Coming
  <2>. QED  BY <1>2, <2>1, <2>2
<1>8. ASSUME board = "soc", with90d PROVE ids \subseteq Served90d'
  <2>1. CASE first # {}
    <3>1. PICK b \in first : TRUE
      BY <2>1
    <3>2. b \in batch' /\ b.ids = ids /\ b.stage \in {"4h", "90d"}
      BY <1>1, <1>4, <1>8, <2>1, <3>1
    <3>. QED  BY <3>2 DEF Served90d, Coming
  <2>2. CASE first = {} /\ second # {}
    <3>1. PICK b \in second : TRUE
      BY <2>2
    <3>2. b \in batch' /\ b.ids = ids /\ b.stage \in {"4h", "90d"}
      BY <1>1, <1>5, <1>8, <2>2, <3>1
    <3>. QED  BY <3>2 DEF Served90d, Coming
  <2>3. CASE second = {}
    BY <1>3, <2>3 DEF Served90d, barVars
  <2>. QED  BY <2>1, <2>2, <2>3
<1>. QED  BY <1>1, <1>6, <1>7, <1>8 DEF ids

LEMMA ServedStays ==
    ASSUME batch \subseteq batch', UNCHANGED barVars
    PROVE  Served4h \subseteq Served4h' /\ Served90d \subseteq Served90d'
BY DEF Served4h, Served90d, Coming, barVars

\* What was asked for is there or marked once it is answered, or asked for in its second stage.
LEMMA AnswersServe ==
    ASSUME NEW b \in batch, HistoryAnswered(b), BoardsInv
    PROVE  BoardsInv'
<1> USE DEF BoardsInv
<1> DEFINE next == IF b.stage = "4h" /\ show90d THEN Request("90d", b.ids, bars90d) ELSE {}
<1>1. PICK well \in SUBSET b.need :
        /\ bars4h' = IF b.stage = "90d" THEN bars4h ELSE bars4h \cup well
        /\ bars90d' = IF b.stage = "4h" THEN bars90d ELSE bars90d \cup well
        /\ historyError' = IF b.stage = "90d" THEN historyError ELSE historyError \cup (b.need \ well)
        /\ missed' = IF b.stage = "90d" THEN missed \cup (b.need \ well) ELSE missed
        /\ batch' = (batch \ {b}) \cup next
        /\ UNCHANGED <<board, data, activeCategory, page, expanded, show90d, narrowed, shrunk>>
  BY DEF HistoryAnswered
<1>2. RequestFits(b)
  BY DEF BoardsTyped
<1>3. \A r \in next : b.stage = "4h" /\ show90d /\ r.stage = "90d" /\ r.ids = b.ids /\ r.need = b.ids \ bars90d
  BY DEF Request
<1>4. b.stage = "4h" /\ show90d /\ next = {} => b.ids \subseteq bars90d
  BY DEF Request
<1>. HIDE DEF next
<1>5. BoardsTyped'
  <2>1. ASSUME NEW r \in batch' PROVE RequestFits(r)'
    <3>1. CASE r \in batch
      BY <1>1, <3>1 DEF BoardsTyped, RequestFits
    <3>2. CASE r \in next
      BY <1>1, <1>2, <1>3, <3>2 DEF RequestFits
    <3>. QED  BY <1>1, <2>1, <3>1, <3>2
  <2>. QED  BY <1>1, <2>1 DEF BoardsTyped
<1>6. Served4h \subseteq Served4h'
  <2>1. ASSUME NEW x \in b.ids, b.stage \in {"both", "4h"} PROVE x \in bars4h' \cup historyError'
    BY <1>1, <1>2, <2>1 DEF RequestFits
  <2>2. ASSUME NEW x \in Coming({"both", "4h"}) PROVE x \in Served4h'
    <3>1. PICK r \in batch : x \in r.ids /\ r.stage \in {"both", "4h"}
      BY <2>2 DEF Coming
    <3>2. CASE r = b
      BY <2>1, <3>1, <3>2 DEF Served4h
    <3>3. CASE r # b
      <4>1. r \in batch'
        BY <1>1, <3>3
      <4>. QED  BY <3>1, <4>1 DEF Served4h, Coming
    <3>. QED  BY <3>2, <3>3
  <2>3. bars4h \subseteq bars4h' /\ historyError \subseteq historyError'
    BY <1>1
  <2>. QED  BY <2>2, <2>3 DEF Served4h
<1>7. show90d => Served90d \subseteq Served90d'
  <2> SUFFICES ASSUME show90d PROVE Served90d \subseteq Served90d'
    OBVIOUS
  <2>1. ASSUME NEW x \in b.ids, b.stage = "90d" PROVE x \in bars90d' \cup missed'
    BY <1>1, <1>2, <2>1 DEF RequestFits
  <2>2. ASSUME NEW x \in b.ids, b.stage = "4h" PROVE x \in Served90d'
    <3>1. CASE next = {}
      BY <1>1, <1>4, <2>2, <3>1 DEF Served90d
    <3>2. CASE next # {}
      <4>1. PICK r \in next : TRUE
        BY <3>2
      <4>2. r \in batch' /\ r.stage = "90d" /\ x \in r.ids
        BY <1>1, <1>3, <2>2, <4>1
      <4>. QED  BY <4>2 DEF Served90d, Coming
    <3>. QED  BY <3>1, <3>2
  <2>3. ASSUME NEW x \in Coming({"4h", "90d"}) PROVE x \in Served90d'
    <3>1. PICK r \in batch : x \in r.ids /\ r.stage \in {"4h", "90d"}
      BY <2>3 DEF Coming
    <3>2. CASE r = b
      BY <2>1, <2>2, <3>1, <3>2 DEF Served90d
    <3>3. CASE r # b
      <4>1. r \in batch'
        BY <1>1, <3>3
      <4>. QED  BY <3>1, <4>1 DEF Served90d, Coming
    <3>. QED  BY <3>2, <3>3
  <2>4. bars90d \subseteq bars90d' /\ missed \subseteq missed'
    BY <1>1
  <2>. QED  BY <2>3, <2>4 DEF Served90d
<1>8. ShownChecks(paginated(data, activeCategory, page))' = ShownChecks(paginated(data, activeCategory, page))
  BY <1>1 DEF ShownChecks, paginated, Place, Filtered, GoesBefore
<1>9. PageInList'
  BY <1>1 DEF PageInList, totalPages, Filtered
<1>. QED  BY <1>1, <1>5, <1>6, <1>7, <1>8, <1>9 DEF ShownServed

\* A step that asks for the history of the page shown keeps what is to be shown.
LEMMA AskKeeps ==
    ASSUME NEW here, NEW with90d \in BOOLEAN, Ask(here, with90d), BoardsInv,
           UNCHANGED <<board, barVars>>,
           board = "dashboard" \/ show90d' = with90d, board = "dashboard" => show90d' = FALSE,
           data' \in [targets : SUBSET Host, down : SUBSET Host], page' \in Nat \ {0},
           show90d' \in BOOLEAN,
           here = paginated(data', activeCategory', page'),
           PageInList'
    PROVE  BoardsInv'
<1>1. /\ \A b \in batch' : RequestFits(b)'
      /\ ShownChecks(here) \subseteq Served4h'
      /\ board = "soc" /\ with90d => ShownChecks(here) \subseteq Served90d'
  BY AskServes DEF BoardsInv
<1>2. BoardsTyped'
  BY <1>1 DEF BoardsInv, BoardsTyped
<1>3. ShownChecks(paginated(data, activeCategory, page))' = ShownChecks(here)
  BY DEF ShownChecks, paginated, Place, Filtered, GoesBefore
<1>4. ShownServed'
  BY <1>1, <1>3 DEF ShownServed, BoardsInv, BoardsTyped
<1>. QED  BY <1>2, <1>4 DEF BoardsInv

LEMMA BoardsStep == BoardsInv /\ [BoardsNext]_boardVars => BoardsInv'
<1> SUFFICES ASSUME BoardsInv, [BoardsNext]_boardVars PROVE BoardsInv'
  OBVIOUS
<1>a. /\ board \in {"dashboard", "soc"} /\ page \in Nat \ {0} /\ show90d \in BOOLEAN
      /\ data \in [targets : SUBSET Host, down : SUBSET Host] /\ data.targets \subseteq Host
      /\ (board = "dashboard" => ~show90d)
  BY DEF BoardsInv, BoardsTyped
<1>b. totalPages(data, activeCategory) \in Int
  BY <1>a, SomePage
<1>1. CASE loadDashboard
  <2>1. PICK hosts \in SUBSET Host : \E down \in SUBSET hosts :
            /\ data' = [targets |-> hosts, down |-> down]
            /\ Ask(paginated(data', activeCategory, page), show90d)
            /\ shrunk' = (page > totalPages(data', activeCategory))
            /\ UNCHANGED <<board, activeCategory, page, expanded, show90d, barVars>>
    BY <1>1 DEF loadDashboard
  <2>2. PICK here : here = paginated(data', activeCategory', page')
    OBVIOUS
  <2>3. Ask(here, show90d)
    BY <2>1, <2>2 DEF Ask
  <2>4. data' \in [targets : SUBSET Host, down : SUBSET Host] /\ data'.targets \subseteq Host
    BY <2>1
  <2>5. totalPages(data', activeCategory) \in Int
    BY <2>4, SomePage
  <2>6. PageInList'
    <3>1. page > totalPages(data', activeCategory) \/ page <= totalPages(data', activeCategory)
      BY <1>a, <2>5
    <3>2. shrunk' \/ page <= totalPages(data', activeCategory)
      BY <2>1, <3>1, Zenon
    <3>. QED  BY <2>1, <3>2 DEF PageInList, totalPages, Filtered
  <2>. QED  BY <1>a, <2>1, <2>2, <2>3, <2>4, <2>6, AskKeeps
<1>2. ASSUME NEW p \in Nat \ {0}, GoTo(p),
             p < page \/ p <= totalPages(data, activeCategory)
      PROVE  BoardsInv'
  <2>1. PICK here : here = paginated(data', activeCategory', page')
    OBVIOUS
  <2>2. Ask(here, show90d)
    BY <1>2, <2>1 DEF Ask, GoTo
  <2>3. shrunk' \/ p <= totalPages(data, activeCategory)
    <3>1. CASE shrunk
      <4>1. p > totalPages(data, activeCategory) \/ p <= totalPages(data, activeCategory)
        BY <1>b
      <4>2. shrunk' = (shrunk /\ p > totalPages(data, activeCategory))
        BY <1>2 DEF GoTo
      <4>. QED  BY <3>1, <4>1, <4>2, Zenon
    <3>2. CASE ~shrunk
      <4>1. Filtered(data, activeCategory) # {}
        <5>1. totalPages(data, activeCategory) > 1
          BY <1>2 DEF GoTo
        <5>2. CASE Filtered(data, activeCategory) = {}
          <6>1. Cardinality(Filtered(data, activeCategory)) = 0
            BY <5>2, FS_EmptySet
          <6>2. totalPages(data, activeCategory) = (0 + PageSize - 1) \div PageSize
            BY <6>1 DEF totalPages
          <6>3. (0 + PageSize - 1) \div PageSize = 0
            BY HostAssumption
          <6>. QED  BY <5>1, <6>2, <6>3
        <5>. QED  BY <5>2
      <4>2. page <= totalPages(data, activeCategory)
        BY <3>2, <4>1 DEF BoardsInv, PageInList
      <4>. QED  BY <1>2, <1>a, <1>b, <4>2
    <3>. QED  BY <3>1, <3>2
  <2>4. PageInList'
    BY <1>2, <2>3 DEF GoTo, PageInList, totalPages, Filtered
  <2>. QED  BY <1>2, <1>a, <2>1, <2>2, <2>4, AskKeeps DEF GoTo
<1>3. CASE PrevHosts
  <2>1. page - 1 \in Nat \ {0} /\ page - 1 < page
    BY <1>3, <1>a DEF PrevHosts
  <2>. QED  BY <1>2, <1>3, <2>1 DEF PrevHosts
<1>4. CASE NextHosts
  <2>1. page + 1 \in Nat \ {0} /\ page + 1 <= totalPages(data, activeCategory)
    BY <1>4, <1>a, <1>b DEF NextHosts
  <2>. QED  BY <1>2, <1>4, <2>1 DEF NextHosts
<1>5. ASSUME NEW c \in Category \cup {All}, chooseCategory(c) PROVE BoardsInv'
  <2>1. activeCategory' = c /\ page' = 1 /\ shrunk' = FALSE
        /\ UNCHANGED <<board, data, expanded, show90d, barVars>>
    BY <1>5 DEF chooseCategory
  <2>2. PageInList'
    <3>1. Filtered(data, c) # {} => totalPages(data, c) >= 1
      BY <1>a, SomePage
    <3>. QED  BY <2>1, <3>1 DEF PageInList, totalPages, Filtered
  <2>3. CASE board = "dashboard" \/ page # 1
    <3>1. PICK here : here = paginated(data', activeCategory', page')
      OBVIOUS
    <3>2. Ask(here, show90d)
      BY <1>5, <2>1, <2>3, <3>1 DEF Ask, chooseCategory
    <3>3. data' \in [targets : SUBSET Host, down : SUBSET Host] /\ page' \in Nat \ {0}
          /\ show90d' = show90d /\ show90d' \in BOOLEAN /\ (board = "dashboard" => show90d' = FALSE)
      BY <1>a, <2>1
    <3>. QED  BY <1>a, <2>1, <2>2, <3>1, <3>2, <3>3, AskKeeps
  <2>4. CASE ~(board = "dashboard" \/ page # 1)
    <3>1. batch' = batch /\ narrowed' = TRUE
      BY <1>5, <2>4 DEF chooseCategory
    <3>2. BoardsTyped'
      BY <2>1, <3>1 DEF BoardsInv, BoardsTyped, RequestFits, barVars
    <3>. QED  BY <2>2, <3>1, <3>2 DEF BoardsInv, ShownServed
  <2>. QED  BY <2>3, <2>4
<1>6. ASSUME NEW h \in Host, toggleTarget(h) PROVE BoardsInv'
  <2>1. board = "dashboard" /\ UNCHANGED <<board, data, activeCategory, page, show90d, barVars, narrowed, shrunk>>
    BY <1>6 DEF toggleTarget
  <2>2. batch \subseteq batch' /\ \A b \in batch' : RequestFits(b)'
    <3>1. CASE batch' = batch
      BY <2>1, <3>1 DEF BoardsInv, BoardsTyped, RequestFits, barVars
    <3>2. CASE Ask({h}, FALSE)
      BY <2>1, <3>2, AskServes DEF BoardsInv
    <3>. QED  BY <1>6, <3>1, <3>2 DEF toggleTarget
  <2>3. Served4h \subseteq Served4h' /\ Served90d \subseteq Served90d'
    BY <2>1, <2>2, ServedStays
  <2>4. BoardsTyped' /\ PageInList'
    BY <2>1, <2>2 DEF BoardsInv, BoardsTyped, PageInList, totalPages, Filtered
  <2>5. ShownChecks(paginated(data, activeCategory, page))' = ShownChecks(paginated(data, activeCategory, page))
    BY <2>1 DEF ShownChecks, paginated, Place, Filtered, GoesBefore
  <2>. QED  BY <2>1, <2>3, <2>4, <2>5 DEF BoardsInv, ShownServed
<1>7. CASE toggle90d
  <2>1. board = "soc" /\ show90d' = ~show90d
        /\ UNCHANGED <<board, data, activeCategory, page, expanded, barVars, shrunk>>
    BY <1>7 DEF toggle90d
  <2>2. PageInList'
    BY <2>1 DEF BoardsInv, PageInList, totalPages, Filtered
  <2>3. CASE show90d
    <3>1. batch' = batch /\ narrowed' = narrowed /\ show90d' = FALSE
      BY <1>7, <2>1, <2>3 DEF toggle90d
    <3>2. BoardsTyped'
      BY <2>1, <3>1 DEF BoardsInv, BoardsTyped, RequestFits, barVars
    <3>3. Served4h \subseteq Served4h'
      BY <2>1, <3>1, ServedStays
    <3>4. ShownChecks(paginated(data, activeCategory, page))' = ShownChecks(paginated(data, activeCategory, page))
      BY <2>1 DEF ShownChecks, paginated, Place, Filtered, GoesBefore
    <3>. QED  BY <2>2, <3>1, <3>2, <3>3, <3>4 DEF BoardsInv, ShownServed
  <2>4. CASE ~show90d
    <3>1. PICK here : here = paginated(data', activeCategory', page')
      OBVIOUS
    <3>2. Ask(here, TRUE) /\ show90d' = TRUE
      BY <1>7, <1>a, <2>1, <2>4, <3>1 DEF Ask, toggle90d
    <3>. QED  BY <1>a, <2>1, <2>2, <3>1, <3>2, AskKeeps
  <2>. QED  BY <2>3, <2>4
<1>8. ASSUME NEW b \in batch, HistoryAnswered(b) PROVE BoardsInv'
  BY <1>8, AnswersServe
<1>9. CASE UNCHANGED boardVars
  <2>1. UNCHANGED <<board, data, activeCategory, page, show90d, barVars, batch, narrowed, shrunk>>
    BY <1>9 DEF boardVars
  <2>2. BoardsTyped' /\ PageInList'
    BY <2>1 DEF BoardsInv, BoardsTyped, RequestFits, barVars, PageInList, totalPages, Filtered
  <2>3. Served4h \subseteq Served4h' /\ Served90d \subseteq Served90d'
    BY <2>1, ServedStays
  <2>4. ShownChecks(paginated(data, activeCategory, page))' = ShownChecks(paginated(data, activeCategory, page))
    BY <2>1 DEF ShownChecks, paginated, Place, Filtered, GoesBefore
  <2>. QED  BY <2>1, <2>2, <2>3, <2>4 DEF BoardsInv, ShownServed
<1>. QED  BY <1>1, <1>3, <1>4, <1>5, <1>6, <1>7, <1>8, <1>9 DEF BoardsNext

\* No check that is shown is left grey for good: its bars are there, are marked as missing or
\* have been asked for, however answers, refreshes, pages and switches follow each other, except
\* on a SOC page filtered since the last refresh; and a page is empty only if the list is, or
\* shrank under it.  For any targets, checks, categories and length of the pages.
THEOREM BarsCome == BoardsSpec => []BarsComing
<1>1. BoardsInv => BarsComing
  <2> SUFFICES ASSUME BoardsInv PROVE BarsComing
    OBVIOUS
  <2>1. paginated(data, activeCategory, page) # {} \/ Filtered(data, activeCategory) = {} \/ shrunk
    BY PageShows DEF BoardsInv, BoardsTyped, PageInList
  <2>. QED  BY <2>1 DEF BarsComing, BoardsInv, ShownServed, Served4h, Served90d, Coming
<1>. QED  BY <1>1, BoardsStart, BoardsStep, PTL DEF BoardsSpec
-----------------------------------------------------------------------------
(* Filters and saved searches. *)

FiltersTyped ==
    /\ screen \in {"targets", "search"}
    /\ targets \subseteq Target
    /\ pinned \subseteq Tag \cap tags
    /\ current \in Nat \ {0} /\ ever \in Nat
    /\ squeezed \in BOOLEAN /\ crossed \in BOOLEAN
    /\ searches = [b \in Tab |-> searches[b]]

\* The search page has neither pages nor pins, and the targets page no saved searches.
PagesApart ==
    /\ screen = "search" => pinned = {} /\ current = 1
    /\ screen = "targets" => \A b \in Tab : searches[b] = {}

\* Unless a tab wrote an old list, numbers are given once, and those wanted are there.
NumbersHold ==
    \/ crossed
    \/ /\ {s.id : s \in storage} = wanted
       /\ \A s, r \in storage : s.id = r.id => s = r
       /\ \A s \in storage : s.id \in Nat /\ s.id <= ever

FiltersInv == FiltersTyped /\ PagesApart /\ PageExists /\ NumbersHold

LEMMA RowsFinite ==
    ASSUME FiltersTyped
    PROVE  IsFiniteSet(filteredTargets) /\ Cardinality(filteredTargets) \in Nat
           /\ LastPage \in Nat /\ LastPage >= 1
<1>1. filteredTargets \subseteq Target
  BY DEF FiltersTyped, filteredTargets, Matching
<1>2. IsFiniteSet(filteredTargets) /\ Cardinality(filteredTargets) \in Nat
  BY <1>1, RowAssumption, FS_Subset, FS_CardinalityType
<1>3. CASE Cardinality(filteredTargets) = 0
  BY <1>2, <1>3 DEF LastPage
<1>4. CASE Cardinality(filteredTargets) # 0
  <2>1. LastPage = (Cardinality(filteredTargets) + RowsOfPage - 1) \div RowsOfPage
    BY <1>4 DEF LastPage
  <2>2. Cardinality(filteredTargets) \in Nat \ {0} /\ RowsOfPage \in Nat \ {0}
    BY <1>2, <1>4, RowAssumption
  <2>. QED  BY <1>2, <2>1, <2>2, PagesThere
<1>. QED  BY <1>2, <1>3, <1>4

LEMMA FiltersStart == FiltersInit => FiltersInv
<1> SUFFICES ASSUME FiltersInit PROVE FiltersInv
  OBVIOUS
<1>1. FiltersTyped
  <2>1. searches = [b \in Tab |-> searches[b]]
    BY DEF FiltersInit
  <2>2. pinned \subseteq Tag \cap tags /\ current \in Nat \ {0} /\ ever \in Nat
    BY DEF FiltersInit
  <2>3. screen \in {"targets", "search"} /\ targets \subseteq Target
    BY DEF FiltersInit
  <2>4. squeezed \in BOOLEAN /\ crossed \in BOOLEAN
    BY DEF FiltersInit
  <2>. QED  BY <2>1, <2>2, <2>3, <2>4 DEF FiltersTyped
<1>2. PagesApart /\ NumbersHold
  BY DEF FiltersInit, PagesApart, NumbersHold
<1>3. PageExists
  BY <1>1, RowsFinite DEF FiltersInit, PageExists
<1>. QED  BY <1>1, <1>2, <1>3 DEF FiltersInv

LEMMA NextLastPage ==
    ASSUME FiltersTyped'
    PROVE  LastPage' \in Nat /\ LastPage' >= 1
<1>1. (LastPage \in Nat /\ LastPage >= 1)'
  BY RowsFinite, PTL
<1>. QED  BY <1>1

\* Back on the first page the page exists.
LEMMA FirstPage ==
    ASSUME FiltersTyped', current' = 1
    PROVE  PageExists'
BY NextLastPage DEF PageExists

LEMMA NumbersStay == FiltersInv /\ UNCHANGED savedVars => NumbersHold'
BY DEF FiltersInv, NumbersHold, savedVars

LEMMA SavingKeeps ==
    ASSUME NEW b \in Tab, saveCurrentSearch(b), FiltersInv
    PROVE  FiltersInv'
<1> DEFINE new == [id |-> ever + 1, choice |-> choice, tags |-> tags]
<1>1. /\ screen = "search" /\ ever' = ever + 1
      /\ searches' = [searches EXCEPT ![b] = searches[b] \cup {new}]
      /\ storage' = searches[b] \cup {new}
      /\ crossed' = (crossed \/ searches[b] # storage)
      /\ wanted' = wanted \cup {ever + 1}
      /\ UNCHANGED <<screen, catalogue, targets, choice, tags, pinned, current, squeezed>>
  BY DEF saveCurrentSearch, Store
<1>2. FiltersTyped'
  <2>1. crossed' \in BOOLEAN
    BY <1>1
  <2>. QED  BY <1>1, <2>1 DEF FiltersInv, FiltersTyped
<1>3. PagesApart' /\ PageExists'
  BY <1>1 DEF FiltersInv, PagesApart, PageExists, LastPage, filteredTargets, Matching
<1>4. NumbersHold'
  <2>1. CASE crossed \/ searches[b] # storage
    <3>1. crossed'
      BY <1>1, <2>1, Zenon
    <3>. QED  BY <3>1 DEF NumbersHold
  <2>2. CASE ~(crossed \/ searches[b] # storage)
    <3>1. storage' = storage \cup {new} /\ new.id = ever + 1
      BY <1>1, <2>2
    <3>2. /\ {s.id : s \in storage} = wanted /\ ever \in Nat
          /\ \A s, r \in storage : s.id = r.id => s = r
          /\ \A s \in storage : s.id \in Nat /\ s.id <= ever
      BY <2>2 DEF FiltersInv, NumbersHold, FiltersTyped
    <3>. HIDE DEF new
    <3>3. {s.id : s \in storage'} = wanted'
      BY <1>1, <3>1, <3>2
    <3>4. \A s, r \in storage' : s.id = r.id => s = r
      BY <3>1, <3>2
    <3>5. \A s \in storage' : s.id \in Nat /\ s.id <= ever'
      BY <1>1, <3>1, <3>2
    <3>. QED  BY <3>3, <3>4, <3>5 DEF NumbersHold
  <2>. QED  BY <2>1, <2>2
<1>. QED  BY <1>2, <1>3, <1>4 DEF FiltersInv

LEMMA DeletingKeeps ==
    ASSUME NEW b \in Tab, NEW s \in searches[b], deleteSavedSearch(b, s), FiltersInv
    PROVE  FiltersInv'
<1>1. /\ searches' = [searches EXCEPT ![b] = searches[b] \ {s}]
      /\ storage' = searches[b] \ {s}
      /\ crossed' = (crossed \/ searches[b] # storage)
      /\ wanted' = wanted \ {s.id}
      /\ UNCHANGED <<screen, catalogue, targets, choice, tags, pinned, current, ever, squeezed>>
  BY DEF deleteSavedSearch, Store
<1>2. FiltersTyped'
  <2>1. crossed' \in BOOLEAN
    BY <1>1
  <2>. QED  BY <1>1, <2>1 DEF FiltersInv, FiltersTyped
<1>3. PagesApart' /\ PageExists'
  BY <1>1 DEF FiltersInv, FiltersTyped, PagesApart, PageExists, LastPage, filteredTargets, Matching
<1>4. NumbersHold'
  <2>1. CASE crossed \/ searches[b] # storage
    <3>1. crossed'
      BY <1>1, <2>1, Zenon
    <3>. QED  BY <3>1 DEF NumbersHold
  <2>2. CASE ~(crossed \/ searches[b] # storage)
    <3>1. storage' = storage \ {s} /\ s \in storage
      BY <1>1, <2>2
    <3>2. /\ {r.id : r \in storage} = wanted
          /\ \A q, r \in storage : q.id = r.id => q = r
          /\ \A r \in storage : r.id \in Nat /\ r.id <= ever
      BY <2>2 DEF FiltersInv, NumbersHold
    <3>3. {r.id : r \in storage'} = wanted'
      <4>1. \A r \in storage' : r.id \in wanted'
        BY <1>1, <3>1, <3>2
      <4>2. \A i \in wanted' : \E r \in storage' : i = r.id
        BY <1>1, <3>1, <3>2
      <4>. QED  BY <4>1, <4>2
    <3>. QED  BY <1>1, <3>1, <3>2, <3>3 DEF NumbersHold
  <2>. QED  BY <2>1, <2>2
<1>. QED  BY <1>2, <1>3, <1>4 DEF FiltersInv

\* A change of the filters leads to the first page; it can take pins away with their tags.
LEMMA Refiltered ==
    ASSUME FiltersInv, current' = 1, squeezed' = FALSE, UNCHANGED <<screen, targets, savedVars>>,
           pinned' \subseteq pinned \cap tags'
    PROVE  FiltersInv'
<1>1. FiltersTyped /\ PagesApart
  BY DEF FiltersInv
<1>2. searches' = searches /\ ever' = ever /\ crossed' = crossed
  BY DEF savedVars
<1>3. FiltersTyped'
  <2>1. pinned' \subseteq Tag \cap tags' /\ screen' \in {"targets", "search"} /\ targets' \subseteq Target
    BY <1>1 DEF FiltersTyped
  <2>2. current' \in Nat \ {0} /\ squeezed' \in BOOLEAN
    <3>1. current' \in Nat \ {0}
      OBVIOUS
    <3>2. squeezed' \in BOOLEAN
      BY Zenon
    <3>. QED  BY <3>1, <3>2
  <2>3. ever' \in Nat /\ crossed' \in BOOLEAN
    BY <1>1, <1>2 DEF FiltersTyped
  <2>4. searches' = [b \in Tab |-> searches'[b]]
    BY <1>1, <1>2 DEF FiltersTyped
  <2>. QED  BY <2>1, <2>2, <2>3, <2>4 DEF FiltersTyped
<1>4. PagesApart'
  BY <1>1, <1>2 DEF PagesApart
<1>. QED  BY <1>3, <1>4, FirstPage, NumbersStay DEF FiltersInv

LEMMA FiltersStep == FiltersInv /\ [FiltersNext]_filterVars => FiltersInv'
<1> SUFFICES ASSUME FiltersInv, [FiltersNext]_filterVars PROVE FiltersInv'
  OBVIOUS
<1>a. FiltersTyped /\ PagesApart /\ PageExists /\ LastPage \in Nat /\ LastPage >= 1
  BY RowsFinite DEF FiltersInv
<1>1. ASSUME NEW c \in Choice \cup {Anything}, Chosen(c) PROVE FiltersInv'
  <2>1. current' = 1 /\ squeezed' = FALSE /\ UNCHANGED <<screen, targets, tags, pinned, savedVars>>
    BY <1>1 DEF Chosen
  <2>2. pinned' \subseteq pinned \cap tags'
    BY <1>a, <2>1 DEF FiltersTyped
  <2>. QED  BY <2>1, <2>2, Refiltered
<1>2. ASSUME NEW v \in Tag, addChip(v) PROVE FiltersInv'
  <2>1. current' = 1 /\ squeezed' = FALSE /\ tags' = tags \cup {v}
        /\ UNCHANGED <<screen, targets, pinned, savedVars>>
    BY <1>2 DEF addChip, SetTags
  <2>2. pinned' \subseteq pinned \cap tags'
    BY <1>a, <2>1 DEF FiltersTyped
  <2>. QED  BY <2>1, <2>2, Refiltered
<1>3. ASSUME NEW v \in Tag, removeChip(v) PROVE FiltersInv'
  <2>1. current' = 1 /\ squeezed' = FALSE /\ tags' = tags \ {v} /\ pinned' = pinned \ {v}
        /\ UNCHANGED <<screen, targets, savedVars>>
    BY <1>3 DEF removeChip, SetTags
  <2>2. pinned' \subseteq pinned \cap tags'
    BY <1>a, <2>1 DEF FiltersTyped
  <2>. QED  BY <2>1, <2>2, Refiltered
<1>4. ASSUME NEW v \in Tag, togglePin(v) PROVE FiltersInv'
  <2>1. screen = "targets" /\ v \in tags /\ pinned' \subseteq pinned \cup {v}
        /\ UNCHANGED <<screen, catalogue, targets, choice, tags, current, savedVars, squeezed>>
    BY <1>4 DEF togglePin
  <2>2. FiltersTyped' /\ PagesApart'
    <3>1. pinned' \subseteq Tag \cap tags'
      BY <1>a, <2>1 DEF FiltersTyped
    <3>. QED  BY <1>a, <2>1, <3>1 DEF FiltersTyped, PagesApart, savedVars
  <2>3. PageExists'
    BY <1>a, <2>1 DEF PageExists, LastPage, filteredTargets, Matching
  <2>. QED  BY <2>1, <2>2, <2>3, NumbersStay DEF FiltersInv
<1>5. ASSUME NEW p \in Nat \ {0}, Turned(p) PROVE FiltersInv'
  <2>1. screen = "targets" /\ current' = p /\ squeezed' = (p > LastPage)
        /\ UNCHANGED <<screen, catalogue, targets, choice, tags, pinned, savedVars>>
    BY <1>5 DEF Turned
  <2>2. FiltersTyped' /\ PagesApart'
    <3>1. squeezed' \in BOOLEAN
      BY <2>1
    <3>. QED  BY <1>a, <2>1, <3>1 DEF FiltersTyped, PagesApart, savedVars
  <2>3. squeezed' \/ p <= LastPage
    <3>1. p > LastPage \/ p <= LastPage
      BY <1>a
    <3>. QED  BY <2>1, <3>1, Zenon
  <2>4. PageExists'
    BY <2>1, <2>3 DEF PageExists, LastPage, filteredTargets, Matching
  <2>. QED  BY <2>1, <2>2, <2>4, NumbersStay DEF FiltersInv
<1>6. CASE PrevRows
  <2>1. current - 1 \in Nat \ {0}
    BY <1>6, <1>a DEF PrevRows, FiltersTyped
  <2>. QED  BY <1>5, <1>6, <2>1 DEF PrevRows
<1>7. CASE NextRows
  <2>1. current + 1 \in Nat \ {0}
    BY <1>a DEF FiltersTyped
  <2>. QED  BY <1>5, <1>7, <2>1 DEF NextRows
<1>8. CASE loadTargets
  <2>1. targets' \subseteq Target /\ squeezed' = (current > LastPage')
        /\ UNCHANGED <<screen, catalogue, choice, tags, pinned, current, savedVars>>
    BY <1>8 DEF loadTargets
  <2>2. FiltersTyped' /\ PagesApart'
    <3>1. squeezed' \in BOOLEAN
      BY <2>1
    <3>. QED  BY <1>a, <2>1, <3>1 DEF FiltersTyped, PagesApart, savedVars
  <2>3. LastPage' \in Nat
    BY <2>2, NextLastPage
  <2>4. squeezed' \/ current <= LastPage'
    <3>1. current > LastPage' \/ current <= LastPage'
      BY <1>a, <2>3 DEF FiltersTyped
    <3>. QED  BY <2>1, <3>1, Zenon
  <2>5. PageExists'
    BY <2>1, <2>4 DEF PageExists
  <2>. QED  BY <2>1, <2>2, <2>5, NumbersStay DEF FiltersInv
<1>9. CASE loadTagOptions
  <2>1. UNCHANGED <<screen, targets, choice, tags, pinned, current, savedVars, squeezed>>
    BY <1>9 DEF loadTagOptions
  <2>2. FiltersTyped' /\ PagesApart' /\ PageExists'
    BY <1>a, <2>1 DEF FiltersTyped, PagesApart, PageExists, LastPage, filteredTargets, Matching, savedVars
  <2>. QED  BY <2>1, <2>2, NumbersStay DEF FiltersInv
<1>10. ASSUME NEW b \in Tab, loadSavedSearches(b) PROVE FiltersInv'
  <2>1. screen = "search" /\ searches' = [searches EXCEPT ![b] = storage]
        /\ UNCHANGED <<screen, catalogue, targets, choice, tags, pinned, current, storage, ever,
                       wanted, crossed, squeezed>>
    BY <1>10 DEF loadSavedSearches
  <2>2. FiltersTyped' /\ PagesApart' /\ PageExists'
    BY <1>a, <2>1 DEF FiltersTyped, PagesApart, PageExists, LastPage, filteredTargets, Matching
  <2>3. NumbersHold'
    BY <2>1 DEF FiltersInv, NumbersHold
  <2>. QED  BY <2>2, <2>3 DEF FiltersInv
<1>11. ASSUME NEW b \in Tab, NEW s \in searches[b], applySavedSearch(b, s) PROVE FiltersInv'
  <2>1. screen = "search" /\ pinned = {} /\ current = 1
    BY <1>a, <1>11 DEF FiltersTyped, PagesApart
  <2>2. UNCHANGED <<screen, catalogue, targets, pinned, current, savedVars, squeezed>>
    BY <1>11 DEF applySavedSearch
  <2>3. FiltersTyped' /\ PagesApart'
    BY <1>a, <2>1, <2>2 DEF FiltersTyped, PagesApart, savedVars
  <2>. QED  BY <2>1, <2>2, <2>3, FirstPage, NumbersStay DEF FiltersInv
<1>12. CASE UNCHANGED filterVars
  <2>1. UNCHANGED <<screen, targets, choice, tags, pinned, current, savedVars, squeezed>>
    BY <1>12 DEF filterVars
  <2>2. FiltersTyped' /\ PagesApart' /\ PageExists'
    BY <1>a, <2>1 DEF FiltersTyped, PagesApart, PageExists, LastPage, filteredTargets, Matching, savedVars
  <2>. QED  BY <2>1, <2>2, NumbersStay DEF FiltersInv
<1>. QED  BY <1>1, <1>2, <1>3, <1>4, <1>6, <1>7, <1>8, <1>9, <1>10, <1>11, <1>12, SavingKeeps,
             DeletingKeeps DEF FiltersNext

\* For any rows, tags, tabs and length of the pages: the page shown exists unless the list got
\* shorter under it, and a search that was saved is there until it is deleted, unless two tabs
\* wrote the list.
THEOREM FiltersKeepHolding == FiltersSpec => []FiltersHold
<1>1. FiltersInv => FiltersHold
  BY DEF FiltersInv, FiltersHold, NumbersHold, SearchesKept
<1>. QED  BY <1>1, FiltersStart, FiltersStep, PTL DEF FiltersSpec
-----------------------------------------------------------------------------
(* The logs that are read a page at a time. *)

LogPage == Nat \ {0}
Asked == [page : LogPage, text : Query]
PageShown == [page |-> at, text |-> text]

LogTyped ==
    /\ size \in [Query -> LogPage]
    /\ at \in LogPage /\ text \in Query /\ total \in LogPage
    /\ sent \subseteq Asked
    /\ overlapped \in BOOLEAN /\ slipped \in BOOLEAN /\ timer \in BOOLEAN
    /\ looked \in BOOLEAN /\ mounting \in BOOLEAN

\* Unless requests overlapped, what is on the way or shown is what the user looks at.
OnlyThisPage ==
    overlapped \/ timer \/
        /\ sent \subseteq {PageShown}
        /\ ~looked \/ mounting \/ failed \/ sent # {} \/ entries = PageShown

\* A page is only asked for if it existed, and the pages only grew since.
PageThere ==
    overlapped \/ timer \/ slipped \/
        /\ \A r \in sent : r.page <= size[r.text]
        /\ ~looked \/ sent # {} \/ (at <= total /\ total <= size[text])

LogInv == LogTyped /\ OnlyThisPage /\ PageThere

LEMMA LogInvFirst == LogInit => LogInv
<1> SUFFICES ASSUME LogInit PROVE LogInv
    OBVIOUS
<1>1. 1 \in LogPage
    BY DEF LogPage
<1>2. LogTyped
    BY <1>1, QueryAssumption DEF LogInit, LogTyped
<1>3. (looked => mounting) /\ sent = {} /\ at = 1 /\ total = 1 /\ size[text] = 1
    BY QueryAssumption DEF LogInit
<1> QED
    BY <1>2, <1>3 DEF LogInv, OnlyThisPage, PageThere

\* Asking for a page that exists.
LEMMA LoadLogKeeps ==
    ASSUME LogTyped, NEW k \in LogPage, loadLog(k), UNCHANGED <<size, text, total>>,
           timer' \in BOOLEAN, slipped' \in BOOLEAN, looked' \in BOOLEAN, mounting' \in BOOLEAN,
           timer' \/ slipped' \/ sent # {} \/ k <= size[text]
    PROVE  LogInv'
<1> DEFINE new == [page |-> k, text |-> text]
<1>1. at' = k /\ sent' = sent \cup {new} /\ (overlapped' <=> sent # {}) /\ overlapped' \in BOOLEAN
    BY DEF loadLog
<1>2. new \in Asked /\ new.page = k /\ new.text = text /\ PageShown' = new
    BY <1>1 DEF LogTyped, Asked, PageShown
<1> HIDE DEF new
<1>3. LogTyped'
    BY <1>1, <1>2 DEF LogTyped
<1>4. OnlyThisPage'
    BY <1>1, <1>2 DEF OnlyThisPage
<1>5. PageThere'
    BY <1>1, <1>2 DEF PageThere
<1> QED
    BY <1>3, <1>4, <1>5 DEF LogInv

LEMMA LogInvStays == LogInv /\ [LogNext]_logVars => LogInv'
<1> SUFFICES ASSUME LogInv, [LogNext]_logVars PROVE LogInv'
    OBVIOUS
<1>0. LogTyped /\ OnlyThisPage /\ PageThere
    BY DEF LogInv
<1>a. \A q \in Query : size[q] \in LogPage /\ 1 <= size[q]
    BY <1>0 DEF LogTyped, LogPage
<1>1. CASE UNCHANGED logVars
    BY <1>1, <1>0 DEF logVars, LogInv, LogTyped, OnlyThisPage, PageThere, PageShown
<1>b. 1 \in LogPage
    BY DEF LogPage
<1>2. CASE OpenLog
    <2>1. UNCHANGED <<size, text, total, timer, mounting>> /\ loadLog(1) /\ looked' = TRUE
          /\ slipped' = FALSE
        BY <1>2 DEF OpenLog
    <2> QED
        BY <2>1, <1>0, <1>a, <1>b, LoadLogKeeps DEF LogTyped
<1>12. CASE Mounted
    <2>1. mounting' = FALSE /\ UNCHANGED <<log, size, looked, text, total, entries, timer>>
        BY <1>12 DEF Mounted
    <2>2. CASE looked
        <3>1. loadLog(1) /\ slipped' = FALSE
            BY <1>12, <2>2 DEF Mounted
        <3> QED
            BY <2>1, <3>1, <1>0, <1>a, <1>b, LoadLogKeeps DEF LogTyped
    <2>3. CASE ~looked
        <3>1. UNCHANGED <<at, sent, failed, overlapped, slipped>>
            BY <1>12, <2>3 DEF Mounted
        <3> QED
            BY <2>1, <2>3, <3>1, <1>0 DEF LogInv, LogTyped, OnlyThisPage, PageThere, PageShown
    <2> QED
        BY <2>2, <2>3
<1>3. CASE CloseLog
    <2>1. looked' = FALSE /\ size' = size /\ text' = text /\ timer' = timer /\ mounting' = mounting
        BY <1>3 DEF CloseLog
    <2>2. CASE log = "audit"
        <3>1. UNCHANGED <<at, total, entries, sent, failed, overlapped, slipped>>
            BY <1>3, <2>2 DEF CloseLog
        <3> QED
            BY <2>1, <3>1, <1>0 DEF LogInv, LogTyped, OnlyThisPage, PageThere, PageShown
    <2>3. CASE log # "audit"
        <3>1. at' = 1 /\ total' = 1 /\ sent' = {} /\ overlapped' = FALSE /\ slipped' = FALSE
            BY <1>3, <2>3 DEF CloseLog
        <3> QED
            BY <2>1, <3>1, <1>0, <1>b DEF LogInv, LogTyped, OnlyThisPage, PageThere
    <2> QED
        BY <2>2, <2>3
<1>4. ASSUME NEW k \in LogPage, Turn(k), k < at \/ k <= total PROVE LogInv'
    <2>1. UNCHANGED <<size, text, total, timer, looked, mounting>> /\ loadLog(k)
          /\ (slipped' <=> slipped \/ overlapped) /\ slipped' \in BOOLEAN /\ looked
        BY <1>4 DEF Turn
    <2>2. timer \/ slipped \/ overlapped \/ sent # {} \/ k <= size[text]
        BY <1>4, <2>1, <1>0, <1>a DEF PageThere, LogTyped, LogPage
    <2> QED
        BY <2>1, <2>2, <1>0, LoadLogKeeps DEF LogTyped
<1>5. CASE prevPage
    BY <1>5, <1>4, <1>0 DEF prevPage, LogTyped, LogPage
<1>6. CASE nextPage
    BY <1>6, <1>4, <1>0 DEF nextPage, LogTyped, LogPage
<1>7. CASE SearchTimeout
    <2>1. UNCHANGED <<size, text, total, looked, mounting>> /\ loadLog(1) /\ timer' = FALSE /\ slipped' = FALSE
        BY <1>7 DEF SearchTimeout
    <2> QED
        BY <2>1, <1>0, <1>a, <1>b, LoadLogKeeps DEF LogTyped
<1>8. ASSUME NEW q \in Query, onAuditSearch(q) PROVE LogInv'
    BY <1>8, <1>0 DEF onAuditSearch, LogInv, LogTyped, OnlyThisPage, PageThere
<1>9. ASSUME NEW q \in Query, NEW n \in 1 .. MaxSize, Resize(q, n) PROVE LogInv'
    <2>1. UNCHANGED <<looked, mounting, at, text, total, entries, sent, timer, failed, overlapped>>
          /\ size' = [size EXCEPT ![q] = n] /\ (slipped' <=> slipped \/ n < size[q])
          /\ slipped' \in BOOLEAN
        BY <1>9 DEF Resize
    <2>2. n \in LogPage
        BY DEF LogPage
    <2>3. LogTyped' /\ OnlyThisPage'
        BY <2>1, <2>2, <1>0 DEF LogTyped, OnlyThisPage, PageShown
    <2>4. slipped' \/ \A p \in Query : size[p] <= size'[p] /\ size'[p] \in LogPage
        BY <2>1, <2>2, <1>0, <1>a DEF LogTyped, LogPage
    <2>5. \A r \in sent : r.page \in LogPage /\ r.text \in Query
        BY <1>0 DEF LogTyped, Asked
    <2>6. PageThere'
        BY <2>1, <2>4, <2>5, <1>0, <1>a DEF PageThere, LogTyped, LogPage
    <2> QED
        BY <2>3, <2>6 DEF LogInv
<1>10. ASSUME NEW r \in sent, LogAnswered(r) PROVE LogInv'
    <2>1. UNCHANGED <<size, looked, mounting, at, text, timer, failed, overlapped, slipped>>
          /\ sent' = sent \ {r} /\ entries' = r /\ total' = size[r.text]
        BY <1>10 DEF LogAnswered
    <2>2. r.text \in Query /\ r.page \in LogPage
        BY <1>0 DEF LogTyped, Asked
    <2>3. LogTyped' /\ OnlyThisPage'
        BY <2>1, <2>2, <1>0, <1>a DEF LogTyped, OnlyThisPage, PageShown
    <2>4. overlapped \/ timer \/ (r.page = at /\ r.text = text)
        BY <1>0 DEF OnlyThisPage, PageShown
    <2>5. PageThere'
        BY <2>1, <2>2, <2>4, <1>0, <1>a DEF PageThere, LogTyped, LogPage
    <2> QED
        BY <2>3, <2>5 DEF LogInv
<1>11. ASSUME NEW r \in sent, LogFails(r) PROVE LogInv'
    BY <1>11, <1>0 DEF LogFails, LogInv, LogTyped, OnlyThisPage, PageThere, PageShown
<1> QED
    BY <1>1, <1>2, <1>3, <1>5, <1>6, <1>7, <1>8, <1>9, <1>10, <1>11, <1>12 DEF LogNext

\* Once all is answered the alerts page and the audit log show the entries of the page and
\* search text shown, of a page that exists, for any texts and sizes of the logs, unless
\* requests overlapped, one failed or the log got shorter.
THEOREM EntriesAreOfPage == LogSpec => []ListIsOfPage
<1>1. LogInv => ListIsOfPage
    BY DEF LogInv, OnlyThisPage, PageThere, ListIsOfPage, PageShown
<1> QED
    BY <1>1, LogInvFirst, LogInvStays, PTL DEF LogSpec
-----------------------------------------------------------------------------
(* Induction, without a predicate as a parameter: the numbers a fact holds for are a set. *)

LEMMA LeastOf ==
    ASSUME NEW S, S \subseteq Nat, S # {}
    PROVE  \E n \in S : \A m \in S : n <= m
<1>1. IsWellFoundedOn(OpToRel(<, Nat), Nat)
  BY NatLessThanWellFounded
<1>2. \E n \in S : \A m \in S : <<m, n>> \notin OpToRel(<, Nat)
  BY <1>1, WFMin
<1>3. \A m, n \in Nat : <<m, n>> \notin OpToRel(<, Nat) => n <= m
  BY DEF OpToRel
<1>. QED  BY <1>2, <1>3

LEMMA Inductive ==
    ASSUME NEW n \in Nat, NEW S, 0 \in S, \A i \in 1 .. n : i - 1 \in S => i \in S
    PROVE  n \in S /\ \A i \in 0 .. n : i \in S
<1>1. ASSUME NEW j \in 0 .. n, j \notin S PROVE FALSE
  <2> DEFINE T == (0 .. n) \ S
  <2>1. T \subseteq Nat /\ T # {}
    BY <1>1
  <2>2. PICK i \in T : \A m \in T : i <= m
    BY <2>1, LeastOf
  <2>3. i \in 1 .. n
    BY <2>2
  <2>4. i - 1 \in 0 .. n /\ i - 1 \notin T
    BY <2>2, <2>3
  <2>. QED  BY <2>2, <2>3, <2>4
<1>2. n \in 0 .. n
  OBVIOUS
<1>. QED  BY <1>1, <1>2

\* A finite set of numbers has a largest and a smallest.
LEMMA MinMax ==
    ASSUME NEW S, NEW n \in Nat, S \subseteq 0 .. n, S # {}
    PROVE  /\ Min(S) \in S /\ \A y \in S : Min(S) <= y
           /\ Max(S) \in S /\ \A y \in S : y <= Max(S)
<1>0. S \subseteq Nat
  OBVIOUS
<1>1. PICK a \in S : \A y \in S : a <= y
  BY <1>0, LeastOf
<1>2. PICK b \in S : \A y \in S : b >= y
  <2> DEFINE T == {n - y : y \in S}
  <2>1. T \subseteq Nat /\ T # {}
    OBVIOUS
  <2>2. PICK t \in T : \A m \in T : t <= m
    BY <2>1, LeastOf
  <2>3. PICK b \in S : t = n - b
    BY <2>2
  <2>4. \A y \in S : n - b <= n - y
    BY <2>2, <2>3
  <2>. QED  BY <2>4
<1>3. Min(S) \in S /\ \A y \in S : Min(S) <= y
  BY <1>1 DEF Min
<1>4. Max(S) \in S /\ \A y \in S : Max(S) >= y
  BY <1>2 DEF Max
<1>. QED  BY <1>3, <1>4

\* A function is defined by its first value and a step from each value to the next.
Follows(f, n, V, first, step) ==
    f \in [0 .. n -> V] /\ f[0] = first /\ \A i \in 1 .. n : f[i] = step[<<i, f[i - 1]>>]

LEMMA Recursion ==
    ASSUME NEW n \in Nat, NEW V, NEW first \in V, NEW step \in [(1 .. n) \X V -> V]
    PROVE  \E f : Follows(f, n, V, first, step)
<1> DEFINE Upto(m, f) == f \in [0 .. n -> V] /\ f[0] = first
                         /\ \A i \in 1 .. m : f[i] = step[<<i, f[i - 1]>>]
           S == {m \in 0 .. n : \E f \in [0 .. n -> V] : Upto(m, f)}
<1>1. 0 \in S
  <2> DEFINE f == [i \in 0 .. n |-> first]
  <2>1. f \in [0 .. n -> V] /\ f[0] = first /\ 0 \in 0 .. n
    OBVIOUS
  <2>2. Upto(0, f)
    BY <2>1
  <2>. HIDE DEF f, Upto
  <2>. QED  BY <2>1, <2>2
<1>2. ASSUME NEW m \in 1 .. n, m - 1 \in S PROVE m \in S
  <2>1. PICK f \in [0 .. n -> V] : Upto(m - 1, f)
    BY <1>2
  <2> DEFINE g == [f EXCEPT ![m] = step[<<m, f[m - 1]>>]]
  <2>2. m - 1 \in 0 .. n /\ f[m - 1] \in V
    OBVIOUS
  <2>3. step[<<m, f[m - 1]>>] \in V
    BY <2>2
  <2>4. g \in [0 .. n -> V] /\ g[0] = first
    BY <2>1, <2>3
  <2>5. ASSUME NEW i \in 1 .. m PROVE g[i] = step[<<i, g[i - 1]>>]
    <3>1. CASE i = m
      <4>1. m \in 0 .. n /\ m - 1 # m /\ g[m - 1] = f[m - 1]
        BY <2>2
      <4>2. g[m] = step[<<m, f[m - 1]>>]
        BY <4>1
      <4>. HIDE DEF g
      <4>. QED  BY <3>1, <4>1, <4>2
    <3>2. CASE i # m
      <4>1. i \in 1 .. m - 1 /\ i \in 0 .. n /\ i - 1 \in 0 .. n /\ i - 1 # m
        BY <3>2
      <4>2. f[i] = step[<<i, f[i - 1]>>]
        BY <2>1, <4>1
      <4>. QED  BY <3>2, <4>1, <4>2
    <3>. QED  BY <3>1, <3>2
  <2>6. Upto(m, g)
    BY <2>4, <2>5
  <2>. HIDE DEF g, Upto
  <2>. QED  BY <2>4, <2>6
<1>3. n \in S
  <2>. HIDE DEF S
  <2>. QED  BY <1>1, <1>2, Inductive
<1>4. PICK f \in [0 .. n -> V] : Upto(n, f)
  BY <1>3
<1>5. Follows(f, n, V, first, step)
  BY <1>4 DEF Follows
<1>. QED  BY <1>5
-----------------------------------------------------------------------------
(* Sums. *)

Value == Nat \cup {Unknown}
Sums == [sum : Nat, n : Nat]
Added(m, v) == IF v = Unknown THEN m ELSE [sum |-> m.sum + v, n |-> m.n + 1]

LEMMA AddedType == \A m \in Sums, v \in Value : Added(m, v) \in Sums
BY DEF Added, Sums, Value, Unknown

\* Tally has the values that its definition says.
LEMMA TallyIs ==
    ASSUME NEW s \in Seq(Value)
    PROVE  /\ Tally(s) \in [0 .. Len(s) -> Sums]
           /\ Tally(s)[0] = [sum |-> 0, n |-> 0]
           /\ \A i \in 1 .. Len(s) : Tally(s)[i] = Added(Tally(s)[i - 1], s[i])
<1> DEFINE D == 0 .. Len(s)
           none == [sum |-> 0, n |-> 0]
           Def(f) == [i \in D |-> IF i = 0 THEN none
                                  ELSE IF s[i] = Unknown THEN f[i - 1]
                                  ELSE [sum |-> f[i - 1].sum + s[i], n |-> f[i - 1].n + 1]]
           step == [iv \in (1 .. Len(s)) \X Sums |-> Added(iv[2], s[iv[1]])]
<1>1. Len(s) \in Nat /\ none \in Sums /\ \A i \in 1 .. Len(s) : s[i] \in Value
  BY DEF Sums
<1>2. step \in [(1 .. Len(s)) \X Sums -> Sums]
  BY <1>1, AddedType
<1>3. PICK f \in [D -> Sums] : f[0] = none /\ \A i \in 1 .. Len(s) : f[i] = step[<<i, f[i - 1]>>]
  <2>1. none \in Sums /\ Len(s) \in Nat
    BY <1>1
  <2>. HIDE DEF step, none
  <2>2. PICK f : Follows(f, Len(s), Sums, none, step)
    BY <1>2, <2>1, Recursion
  <2>. QED  BY <2>2 DEF Follows
<1>4. \A i \in 1 .. Len(s) : f[i] = Added(f[i - 1], s[i])
  <2> SUFFICES ASSUME NEW i \in 1 .. Len(s) PROVE f[i] = Added(f[i - 1], s[i])
    OBVIOUS
  <2>1. i - 1 \in D /\ f[i - 1] \in Sums
    BY <1>1, <1>3
  <2>2. step[<<i, f[i - 1]>>] = Added(f[i - 1], s[i])
    BY <2>1
  <2>. QED  BY <1>3, <2>2
<1>5. f = Def(f)
  <2>1. \A i \in D : i = 0 \/ i \in 1 .. Len(s)
    BY <1>1
  <2>. QED  BY <1>1, <1>3, <1>4, <2>1 DEF Added
<1>6. Tally(s) = CHOOSE g : g = Def(g)
  BY Zenon DEF Tally
<1>. HIDE DEF Def
<1>7. Tally(s) = Def(Tally(s))
  BY <1>5, <1>6
<1>. USE DEF Def
<1>8. Tally(s)[0] = none /\ \A i \in 1 .. Len(s) : Tally(s)[i] = Added(Tally(s)[i - 1], s[i])
  BY <1>1, <1>7 DEF Added
<1>9. \A i \in D : Tally(s)[i] \in Sums
  <2> DEFINE S == {i \in D : Tally(s)[i] \in Sums}
  <2>1. 0 \in S
    BY <1>1, <1>8
  <2>2. ASSUME NEW i \in 1 .. Len(s), i - 1 \in S PROVE i \in S
    BY <2>2, <1>1, <1>8, AddedType
  <2>. HIDE DEF S
  <2>3. \A i \in D : i \in S
    BY <1>1, <2>1, <2>2, Inductive
  <2>. QED  BY <2>3 DEF S
<1>10. Tally(s) = [i \in D |-> Tally(s)[i]]
  BY <1>7
<1>. QED  BY <1>8, <1>9, <1>10
Plus(p, q) == [sum |-> p.sum + q.sum, n |-> p.n + q.n]

LEMMA SumsType ==
    ASSUME NEW p \in Sums, NEW q \in Sums
    PROVE  /\ p.sum \in Nat /\ p.n \in Nat /\ q.sum \in Nat /\ q.n \in Nat
           /\ Plus(p, q) \in Sums
           /\ Plus(p, q).sum = p.sum + q.sum /\ Plus(p, q).n = p.n + q.n
BY DEF Sums, Plus

\* Without a known term there is nothing in the sum.
LEMMA MeanType ==
    ASSUME NEW s \in Seq(Value)
    PROVE  Mean(s) \in Sums /\ (Mean(s).n = 0 => Mean(s).sum = 0)
<1> DEFINE S == {i \in 0 .. Len(s) : Tally(s)[i].n = 0 => Tally(s)[i].sum = 0}
<1>1. Len(s) \in Nat /\ \A i \in 1 .. Len(s) : s[i] \in Value
  OBVIOUS
<1>2. \A i \in 0 .. Len(s) : Tally(s)[i] \in Sums
  BY TallyIs
<1>3. 0 \in S
  BY <1>1, TallyIs
<1>4. ASSUME NEW i \in 1 .. Len(s), i - 1 \in S PROVE i \in S
  <2>1. i - 1 \in 0 .. Len(s) /\ i \in 0 .. Len(s) /\ Tally(s)[i - 1] \in Sums
    BY <1>1, <1>2
  <2>2. Tally(s)[i] = Added(Tally(s)[i - 1], s[i])
    BY TallyIs
  <2>3. CASE s[i] = Unknown
    BY <1>4, <2>1, <2>2, <2>3 DEF Added
  <2>4. CASE s[i] # Unknown
    <3>1. Tally(s)[i].n = Tally(s)[i - 1].n + 1 /\ Tally(s)[i - 1].n \in Nat
      BY <2>1, <2>2, <2>4 DEF Added, Sums
    <3>. QED  BY <2>1, <3>1
  <2>. QED  BY <2>3, <2>4
<1>. HIDE DEF S
<1>5. Len(s) \in S
  BY <1>1, <1>3, <1>4, Inductive
<1>. QED  BY <1>1, <1>2, <1>5 DEF S, Mean

\* A sum of two sequences, one after the other, is the sum of both sums.
LEMMA MeanOfBoth ==
    ASSUME NEW s \in Seq(Value), NEW t \in Seq(Value)
    PROVE  Mean(s \o t) = Plus(Mean(s), Mean(t))
<1> DEFINE st == s \o t
           S == {i \in 0 .. Len(s) : Tally(st)[i] = Tally(s)[i]}
           T == {j \in 0 .. Len(t) : Tally(st)[Len(s) + j] = Plus(Mean(s), Tally(t)[j])}
<1>1. /\ Len(s) \in Nat /\ Len(t) \in Nat /\ st \in Seq(Value) /\ Len(st) = Len(s) + Len(t)
      /\ \A i \in 1 .. Len(s) : st[i] = s[i]
      /\ \A j \in 1 .. Len(t) : st[Len(s) + j] = t[j]
      /\ \A j \in 1 .. Len(t) : t[j] \in Value
  OBVIOUS
<1>. HIDE DEF st
<1>2. Len(s) \in S
  <2>1. 0 \in S
    BY <1>1, TallyIs
  <2>2. ASSUME NEW i \in 1 .. Len(s), i - 1 \in S PROVE i \in S
    <3>1. i \in 1 .. Len(st) /\ i \in 0 .. Len(s)
      BY <1>1
    <3>2. Tally(st)[i] = Added(Tally(st)[i - 1], st[i])
      BY <1>1, <3>1, TallyIs
    <3>3. Tally(s)[i] = Added(Tally(s)[i - 1], s[i])
      BY TallyIs
    <3>. QED  BY <1>1, <2>2, <3>1, <3>2, <3>3
  <2>. HIDE DEF S
  <2>. QED  BY <1>1, <2>1, <2>2, Inductive
<1>3. Mean(s) \in Sums /\ \A j \in 0 .. Len(t) : Tally(t)[j] \in Sums
  BY MeanType, TallyIs
<1>4. 0 \in T
  <2>1. Tally(st)[Len(s) + 0] = Mean(s)
    BY <1>1, <1>2 DEF Mean
  <2>2. Plus(Mean(s), Tally(t)[0]) = Mean(s)
    BY <1>3, TallyIs DEF Plus, Sums
  <2>. QED  BY <1>1, <2>1, <2>2
<1>5. ASSUME NEW j \in 1 .. Len(t), j - 1 \in T PROVE j \in T
  <2>1. Len(s) + j \in 1 .. Len(st) /\ (Len(s) + j) - 1 = Len(s) + (j - 1) /\ j - 1 \in 0 .. Len(t)
        /\ j \in 0 .. Len(t)
    BY <1>1
  <2>2. Tally(st)[Len(s) + j] = Added(Tally(st)[(Len(s) + j) - 1], st[Len(s) + j])
    BY <1>1, <2>1, TallyIs
  <2>3. Tally(st)[Len(s) + j] = Added(Plus(Mean(s), Tally(t)[j - 1]), t[j])
    BY <1>1, <1>5, <2>1, <2>2
  <2>4. Tally(t)[j] = Added(Tally(t)[j - 1], t[j])
    BY TallyIs
  <2>5. \A p, q \in Sums, v \in Value : Added(Plus(p, q), v) = Plus(p, Added(q, v))
    BY DEF Added, Plus, Sums, Value, Unknown
  <2>. QED  BY <1>1, <1>3, <2>1, <2>3, <2>4, <2>5
<1>6. Len(t) \in T
  <2>. HIDE DEF T
  <2>. QED  BY <1>1, <1>4, <1>5, Inductive
<1>. QED  BY <1>1, <1>6 DEF Mean, st
-----------------------------------------------------------------------------
(* The average of several groups of values together. *)

AtMost(p, q) == p.sum * q.n <= q.sum * p.n

\* Two sums that are above an average are above it together, and below as well.
LEMMA BothSums ==
    ASSUME NEW a \in Nat, NEW b \in Nat, NEW c \in Nat, NEW d \in Nat, NEW S \in Nat, NEW N \in Nat
    PROVE  /\ /\ a * N >= S * b /\ (b > 0 => a * N > S * b)
              /\ c * N >= S * d /\ (d > 0 => c * N > S * d)
              => (a + c) * N >= S * (b + d) /\ (b + d > 0 => (a + c) * N > S * (b + d))
           /\ /\ a * N <= S * b /\ (b > 0 => a * N < S * b)
              /\ c * N <= S * d /\ (d > 0 => c * N < S * d)
              => (a + c) * N <= S * (b + d) /\ (b + d > 0 => (a + c) * N < S * (b + d))
<1>1. (a + c) * N = a * N + c * N /\ S * (b + d) = S * b + S * d
  OBVIOUS
<1>2. a * N \in Int /\ c * N \in Int /\ S * b \in Int /\ S * d \in Int
  OBVIOUS
<1>. DEFINE aN == a * N
            cN == c * N
            Sb == S * b
            Sd == S * d
<1>3. aN \in Int /\ cN \in Int /\ Sb \in Int /\ Sd \in Int
  BY <1>2
<1>. HIDE DEF aN, cN, Sb, Sd
<1>4. /\ /\ aN >= Sb /\ (b > 0 => aN > Sb)
         /\ cN >= Sd /\ (d > 0 => cN > Sd)
         => aN + cN >= Sb + Sd /\ (b + d > 0 => aN + cN > Sb + Sd)
      /\ /\ aN <= Sb /\ (b > 0 => aN < Sb)
         /\ cN <= Sd /\ (d > 0 => cN < Sd)
         => aN + cN <= Sb + Sd /\ (b + d > 0 => aN + cN < Sb + Sd)
  BY <1>3
<1>. QED  BY <1>1, <1>4 DEF aN, cN, Sb, Sd

\* If all sums with a term were above an average, or all below it, the total would be too.
LEMMA TotalIsBetween ==
    ASSUME NEW n \in Nat, NEW part \in [1 .. n -> Sums], NEW upTo \in [0 .. n -> Sums],
           \A i \in 1 .. n : part[i].n = 0 => part[i].sum = 0,
           upTo[0] = [sum |-> 0, n |-> 0],
           \A i \in 1 .. n : upTo[i] = Plus(upTo[i - 1], part[i])
    PROVE  LET groups == {i \in 1 .. n : part[i].n > 0} IN
           /\ (upTo[n].n = 0) = (groups = {})
           /\ groups # {} => /\ \E i \in groups : AtMost(part[i], upTo[n])
                             /\ \E i \in groups : AtMost(upTo[n], part[i])
<1> DEFINE groups == {i \in 1 .. n : part[i].n > 0}
           S == upTo[n].sum
           N == upTo[n].n
<1>0. /\ n \in 0 .. n
      /\ \A i \in 0 .. n : upTo[i] \in Sums /\ upTo[i].sum \in Nat /\ upTo[i].n \in Nat
      /\ \A i \in 1 .. n : part[i] \in Sums /\ part[i].sum \in Nat /\ part[i].n \in Nat
  BY DEF Sums
<1>1. ASSUME NEW i \in 1 .. n
      PROVE  /\ i - 1 \in 0 .. n /\ i \in 0 .. n
             /\ upTo[i].sum = upTo[i - 1].sum + part[i].sum
             /\ upTo[i].n = upTo[i - 1].n + part[i].n
  <2>1. i - 1 \in 0 .. n /\ i \in 0 .. n
    OBVIOUS
  <2>2. upTo[i] = Plus(upTo[i - 1], part[i])
    OBVIOUS
  <2>3. upTo[i - 1] \in Sums /\ part[i] \in Sums
    BY <2>1
  <2>4. PICK p \in Sums, q \in Sums : p = upTo[i - 1] /\ q = part[i]
    BY <2>3
  <2>5. Plus(p, q).sum = p.sum + q.sum /\ Plus(p, q).n = p.n + q.n
    BY SumsType
  <2>6. upTo[i] = Plus(p, q)
    BY <2>2, <2>4
  <2>. QED  BY <2>1, <2>4, <2>5, <2>6
<1>2. S \in Nat /\ N \in Nat
  BY <1>0
<1>3. ASSUME groups = {} PROVE N = 0
  <2> DEFINE T == {i \in 0 .. n : upTo[i].n = 0}
  <2>1. 0 \in T
    BY <1>0
  <2>2. ASSUME NEW i \in 1 .. n, i - 1 \in T PROVE i \in T
    <3>1. part[i].n = 0
      BY <1>0, <1>3
    <3>. QED  BY <1>1, <2>2, <3>1
  <2>3. n \in T
    <3>. HIDE DEF T
    <3>. QED  BY <2>1, <2>2, Inductive
  <2>. QED  BY <2>3
<1>4. ASSUME NEW k \in groups PROVE N > 0
  <2> DEFINE T == {i \in 0 .. n : i >= k => upTo[i].n > 0}
  <2>1. 0 \in T
    BY <1>0
  <2>2. ASSUME NEW i \in 1 .. n, i - 1 \in T PROVE i \in T
    BY <1>0, <1>1, <2>2
  <2>3. n \in T
    <3>. HIDE DEF T
    <3>. QED  BY <2>1, <2>2, Inductive
  <2>. QED  BY <2>3
<1>. HIDE DEF S, N
<1>5. ASSUME groups # {}, \A i \in groups : part[i].sum * N > S * part[i].n PROVE FALSE
  <2> DEFINE T == {i \in 0 .. n : /\ upTo[i].sum * N >= S * upTo[i].n
                                  /\ upTo[i].n > 0 => upTo[i].sum * N > S * upTo[i].n}
  <2>1. 0 \in T
    BY <1>0, <1>2
  <2>2. ASSUME NEW i \in 1 .. n, i - 1 \in T PROVE i \in T
    <3>1. part[i].sum * N >= S * part[i].n /\ (part[i].n > 0 => part[i].sum * N > S * part[i].n)
      <4>1. CASE part[i].n = 0
        BY <1>0, <1>2, <4>1
      <4>2. CASE part[i].n > 0
        BY <1>0, <1>2, <1>5, <4>2
      <4>. QED  BY <1>0, <4>1, <4>2
    <3>2. /\ upTo[i - 1].sum * N >= S * upTo[i - 1].n
          /\ upTo[i - 1].n > 0 => upTo[i - 1].sum * N > S * upTo[i - 1].n
      BY <2>2
    <3>3. /\ upTo[i - 1].sum \in Nat /\ upTo[i - 1].n \in Nat
          /\ part[i].sum \in Nat /\ part[i].n \in Nat
      BY <1>0, <1>1
    <3>4. LET a == upTo[i - 1].sum + part[i].sum
              b == upTo[i - 1].n + part[i].n
          IN a * N >= S * b /\ (b > 0 => a * N > S * b)
      BY <1>2, <3>1, <3>2, <3>3, BothSums
    <3>. QED  BY <1>1, <3>4
  <2>3. n \in T
    <3>. HIDE DEF T
    <3>. QED  BY <2>1, <2>2, Inductive
  <2>4. N > 0 => S * N > S * N
    BY <2>3 DEF S, N
  <2>. QED  BY <1>2, <1>4, <1>5, <2>4
<1>6. ASSUME groups # {}, \A i \in groups : part[i].sum * N < S * part[i].n PROVE FALSE
  <2> DEFINE T == {i \in 0 .. n : /\ upTo[i].sum * N <= S * upTo[i].n
                                  /\ upTo[i].n > 0 => upTo[i].sum * N < S * upTo[i].n}
  <2>1. 0 \in T
    BY <1>0, <1>2
  <2>2. ASSUME NEW i \in 1 .. n, i - 1 \in T PROVE i \in T
    <3>1. part[i].sum * N <= S * part[i].n /\ (part[i].n > 0 => part[i].sum * N < S * part[i].n)
      <4>1. CASE part[i].n = 0
        BY <1>0, <1>2, <4>1
      <4>2. CASE part[i].n > 0
        BY <1>0, <1>2, <1>6, <4>2
      <4>. QED  BY <1>0, <4>1, <4>2
    <3>2. /\ upTo[i - 1].sum * N <= S * upTo[i - 1].n
          /\ upTo[i - 1].n > 0 => upTo[i - 1].sum * N < S * upTo[i - 1].n
      BY <2>2
    <3>3. /\ upTo[i - 1].sum \in Nat /\ upTo[i - 1].n \in Nat
          /\ part[i].sum \in Nat /\ part[i].n \in Nat
      BY <1>0, <1>1
    <3>4. LET a == upTo[i - 1].sum + part[i].sum
              b == upTo[i - 1].n + part[i].n
          IN a * N <= S * b /\ (b > 0 => a * N < S * b)
      BY <1>2, <3>1, <3>2, <3>3, BothSums
    <3>. QED  BY <1>1, <3>4
  <2>3. n \in T
    <3>. HIDE DEF T
    <3>. QED  BY <2>1, <2>2, Inductive
  <2>4. N > 0 => S * N < S * N
    BY <2>3 DEF S, N
  <2>. QED  BY <1>2, <1>4, <1>6, <2>4
<1>7. (N = 0) = (groups = {})
  BY <1>2, <1>3, <1>4
<1>8. ASSUME NEW i \in groups
      PROVE  /\ AtMost(part[i], upTo[n]) = ~(part[i].sum * N > S * part[i].n)
             /\ AtMost(upTo[n], part[i]) = ~(part[i].sum * N < S * part[i].n)
  <2>1. part[i].sum \in Nat /\ part[i].n \in Nat
    BY <1>0
  <2>2. part[i].sum * N \in Int /\ S * part[i].n \in Int
    BY <1>2, <2>1
  <2>3. /\ (part[i].sum * N <= S * part[i].n) = ~(part[i].sum * N > S * part[i].n)
        /\ (S * part[i].n <= part[i].sum * N) = ~(part[i].sum * N < S * part[i].n)
    BY <2>2
  <2>. QED  BY <2>3 DEF AtMost, S, N
<1>9. groups # {} => \E i \in groups : AtMost(part[i], upTo[n])
  BY <1>5, <1>8
<1>10. groups # {} => \E i \in groups : AtMost(upTo[n], part[i])
  BY <1>6, <1>8
<1>. QED  BY <1>7, <1>9, <1>10 DEF N
-----------------------------------------------------------------------------
(* The figures of the SLA page, for any number of categories, targets and days. *)

Points == 0 .. 100
AnyDays == Seq(Points)
AnyCategory == [threshold : Points, targets : Seq(AnyDays)]

LEMMA PointType == \A v \in Points : v \in Nat /\ v \in Int /\ v >= 0 /\ v <= 100 /\ v # Unknown
BY DEF Points, Unknown

LEMMA AvgType ==
    ASSUME NEW days \in AnyDays
    PROVE  days \in Seq(Value) /\ target90dAvg(days) \in Value
<1>1. days \in Seq(Value)
  <2>1. Len(days) \in Nat /\ days \in [1 .. Len(days) -> Points]
    BY DEF AnyDays
  <2>2. \A v \in Points : v \in Value
    BY PointType DEF Value
  <2>3. days \in [1 .. Len(days) -> Value]
    BY <2>1, <2>2
  <2>. QED  BY <2>1, <2>3
<1>2. Mean(days) \in Sums
  BY <1>1, MeanType
<1>3. Mean(days).sum \in Nat /\ Mean(days).n \in Nat
  BY <1>2 DEF Sums
<1>4. Grain * Mean(days).sum \in Nat
  BY <1>3, FigureAssumption
<1>5. \A a \in Nat, b \in Nat \ {0} : a \div b \in Nat
  OBVIOUS
<1>. QED  BY <1>1, <1>3, <1>4, <1>5 DEF target90dAvg, Value

LEMMA AvgsType ==
    ASSUME NEW cat \in AnyCategory
    PROVE  /\ Avgs(cat) \in Seq(Value)
           /\ Len(Avgs(cat)) = Len(cat.targets)
           /\ \A j \in DOMAIN cat.targets : Avgs(cat)[j] = target90dAvg(cat.targets[j])
<1>1. cat.targets \in Seq(AnyDays)
  BY DEF AnyCategory
<1>2. Len(cat.targets) \in Nat /\ DOMAIN cat.targets = 1 .. Len(cat.targets)
  BY <1>1
<1>3. \A j \in DOMAIN cat.targets : target90dAvg(cat.targets[j]) \in Value
  BY <1>1, AvgType
<1>4. Avgs(cat) \in [1 .. Len(cat.targets) -> Value]
  BY <1>2, <1>3 DEF Avgs
<1>5. DOMAIN Avgs(cat) = 1 .. Len(cat.targets)
  BY <1>2 DEF Avgs
<1>. QED  BY <1>2, <1>4, <1>5 DEF Avgs

\* The averages of all hosts are those of the categories before, then those of this one.
LEMMA AllAvgsAre ==
    ASSUME NEW cats \in Seq(AnyCategory)
    PROVE  \E f \in [0 .. Len(cats) -> Seq(Value)] :
              /\ f[0] = <<>> /\ allAvgs(cats) = f[Len(cats)]
              /\ \A i \in 1 .. Len(cats) : f[i] = f[i - 1] \o Avgs(cats[i])
<1> DEFINE D == 0 .. Len(cats)
           none == <<>>
           Def(f) == [i \in D |-> IF i = 0 THEN none ELSE f[i - 1] \o Avgs(cats[i])]
           step == [iv \in (1 .. Len(cats)) \X Seq(Value) |-> iv[2] \o Avgs(cats[iv[1]])]
           upTo == CHOOSE g : g = Def(g)
<1>1. Len(cats) \in Nat /\ none \in Seq(Value) /\ \A i \in 1 .. Len(cats) : Avgs(cats[i]) \in Seq(Value)
  BY AvgsType
<1>2. step \in [(1 .. Len(cats)) \X Seq(Value) -> Seq(Value)]
  BY <1>1
<1>3. PICK f : Follows(f, Len(cats), Seq(Value), none, step)
  <2>1. none \in Seq(Value) /\ Len(cats) \in Nat
    BY <1>1
  <2>. HIDE DEF step, none
  <2>. QED  BY <1>2, <2>1, Recursion
<1>4. f \in [D -> Seq(Value)] /\ f[0] = none
  BY <1>3 DEF Follows
<1>5. \A i \in 1 .. Len(cats) : f[i] = f[i - 1] \o Avgs(cats[i])
  <2> SUFFICES ASSUME NEW i \in 1 .. Len(cats) PROVE f[i] = f[i - 1] \o Avgs(cats[i])
    OBVIOUS
  <2>1. i - 1 \in D
    BY <1>1
  <2>2. f[i - 1] \in Seq(Value)
    BY <1>4, <2>1
  <2>4. step[<<i, f[i - 1]>>] = f[i - 1] \o Avgs(cats[i])
    BY <2>2
  <2>3. f[i] = step[<<i, f[i - 1]>>]
    BY <1>3 DEF Follows
  <2>. QED  BY <2>3, <2>4
<1>6. f = Def(f)
  <2>1. \A i \in D : i = 0 \/ i \in 1 .. Len(cats)
    BY <1>1
  <2>. QED  BY <1>4, <1>5, <2>1
<1>7. allAvgs(cats) = upTo[Len(cats)]
  BY Zenon DEF allAvgs
<1>8. upTo = Def(upTo)
  <2>. HIDE DEF Def
  <2>. QED  BY <1>6
<1>. HIDE DEF upTo
<1>9. upTo[0] = none /\ \A i \in 1 .. Len(cats) : upTo[i] = upTo[i - 1] \o Avgs(cats[i])
  <2>1. 0 \in D /\ \A i \in 1 .. Len(cats) : i \in D /\ i # 0
    BY <1>1
  <2>. HIDE DEF D
  <2>. QED  BY <1>8, <2>1
<1>10. \A i \in D : upTo[i] \in Seq(Value)
  <2> DEFINE S == {i \in D : upTo[i] \in Seq(Value)}
  <2>1. 0 \in S
    <3>1. 0 \in D
      BY <1>1
    <3>. QED  BY <1>1, <1>9, <3>1
  <2>2. ASSUME NEW i \in 1 .. Len(cats), i - 1 \in S PROVE i \in S
    <3>1. i \in D
      BY <1>1
    <3>2. upTo[i - 1] \in Seq(Value) /\ Avgs(cats[i]) \in Seq(Value)
      BY <1>1, <2>2
    <3>3. upTo[i - 1] \o Avgs(cats[i]) \in Seq(Value)
      BY <3>2
    <3>. QED  BY <1>9, <3>1, <3>3
  <2>. HIDE DEF S
  <2>3. \A i \in D : i \in S
    BY <1>1, <2>1, <2>2, Inductive
  <2>. QED  BY <2>3 DEF S
<1>11. upTo \in [D -> Seq(Value)]
  <2>1. upTo = [i \in D |-> upTo[i]]
    BY <1>8
  <2>. QED  BY <1>10, <2>1
<1>. QED  BY <1>7, <1>9, <1>11

\* The average of all hosts lies between those of the categories, however many there are.
LEMMA AverageIsBetween ==
    ASSUME NEW cats \in Seq(AnyCategory)
    PROVE  AverageBetween(cats)
<1> DEFINE N == Len(cats)
<1>1. PICK f \in [0 .. N -> Seq(Value)] :
          /\ f[0] = <<>> /\ allAvgs(cats) = f[N]
          /\ \A i \in 1 .. N : f[i] = f[i - 1] \o Avgs(cats[i])
  BY AllAvgsAre
<1> DEFINE part == [i \in 1 .. N |-> Mean(Avgs(cats[i]))]
           upTo == [i \in 0 .. N |-> Mean(f[i])]
<1>2. N \in Nat /\ DOMAIN cats = 1 .. N /\ \A i \in 1 .. N : Avgs(cats[i]) \in Seq(Value)
  BY AvgsType
<1>3. part \in [1 .. N -> Sums] /\ \A i \in 1 .. N : part[i].n = 0 => part[i].sum = 0
  BY <1>2, MeanType
<1>4. upTo \in [0 .. N -> Sums]
  BY MeanType
<1>5. upTo[0] = [sum |-> 0, n |-> 0]
  <2>1. Mean(<<>>) = [sum |-> 0, n |-> 0]
    BY TallyIs DEF Mean
  <2>. QED  BY <1>1, <1>2, <2>1
<1>6. ASSUME NEW i \in 1 .. N PROVE upTo[i] = Plus(upTo[i - 1], part[i])
  <2>0. i \in 0 .. N /\ i - 1 \in 0 .. N
    BY <1>2
  <2>1. f[i - 1] \in Seq(Value)
    BY <2>0
  <2>2. Mean(f[i - 1] \o Avgs(cats[i])) = Plus(Mean(f[i - 1]), Mean(Avgs(cats[i])))
    BY <1>2, <2>1, MeanOfBoth
  <2>. QED  BY <1>1, <2>0, <2>2
<1>7. /\ \A i \in 1 .. N : part[i] = Mean(Avgs(cats[i]))
      /\ upTo[N] = Mean(allAvgs(cats))
  BY <1>1, <1>2
<1>. HIDE DEF part, upTo, N
<1>8. LET groups == {i \in 1 .. N : part[i].n > 0} IN
      /\ (upTo[N].n = 0) = (groups = {})
      /\ groups # {} => /\ \E i \in groups : AtMost(part[i], upTo[N])
                        /\ \E i \in groups : AtMost(upTo[N], part[i])
  BY <1>2, <1>3, <1>4, <1>5, <1>6, TotalIsBetween
<1>9. {i \in 1 .. N : part[i].n > 0} = {i \in DOMAIN cats : Mean(Avgs(cats[i])).n > 0}
  BY <1>2, <1>7
<1>10. \A i \in 1 .. N : /\ AtMost(part[i], upTo[N]) = (Mean(Avgs(cats[i])).sum * Mean(allAvgs(cats)).n
                                <= Mean(allAvgs(cats)).sum * Mean(Avgs(cats[i])).n)
                         /\ AtMost(upTo[N], part[i]) = (Mean(allAvgs(cats)).sum * Mean(Avgs(cats[i])).n
                                <= Mean(Avgs(cats[i])).sum * Mean(allAvgs(cats)).n)
  BY <1>7 DEF AtMost
<1>. QED  BY <1>2, <1>7, <1>8, <1>9, <1>10 DEF AverageBetween

\* Rounding down keeps an average on the same side of a whole bound.
LEMMA RoundedDown ==
    ASSUME NEW a \in Nat, NEW b \in Nat \ {0}, NEW c \in Nat
    PROVE  (a \div b < c) = (a < c * b)
<1> DEFINE q == a \div b
<1>1. q \in Nat /\ b * q <= a /\ a < b * (q + 1)
  <2>1. \A x \in Nat, y \in Nat \ {0} : x \div y \in Nat
    OBVIOUS
  <2>2. \A x \in Nat, y \in Nat \ {0} : y * (x \div y) <= x
    OBVIOUS
  <2>3. \A x \in Nat, y \in Nat \ {0} : x < y * ((x \div y) + 1)
    OBVIOUS
  <2>. QED  BY <2>1, <2>2, <2>3
<1>. HIDE DEF q
<1>2. CASE q < c
  <2>1. c - (q + 1) \in Nat
    BY <1>1, <1>2
  <2>2. b * (c - (q + 1)) >= 0
    BY <2>1
  <2>3. b * (q + 1) <= c * b
    BY <1>1, <2>2
  <2>. QED  BY <1>1, <1>2, <2>3 DEF q
<1>3. CASE ~(q < c)
  <2>1. q - c \in Nat
    BY <1>1, <1>3
  <2>2. b * (q - c) >= 0
    BY <2>1
  <2>3. b * q >= c * b
    BY <1>1, <2>2
  <2>. QED  BY <1>1, <1>3, <2>3 DEF q
<1>. QED  BY <1>2, <1>3

\* The mean of known days is below a threshold if they all are, and not if none is.
LEMMA MeanOfDays ==
    ASSUME NEW days \in AnyDays, NEW t \in Nat
    PROVE  /\ Mean(days).n = Len(days)
           /\ (\A d \in DOMAIN days : days[d] >= t) => Mean(days).sum >= t * Len(days)
           /\ Len(days) > 0 /\ (\A d \in DOMAIN days : days[d] < t) => Mean(days).sum < t * Len(days)
<1> DEFINE N == Len(days)
           S == {i \in 0 .. N :
                   /\ Tally(days)[i].n = i
                   /\ (\A d \in 1 .. N : days[d] >= t) => Tally(days)[i].sum >= t * i
                   /\ i > 0 /\ (\A d \in 1 .. N : days[d] < t) => Tally(days)[i].sum < t * i}
<1>1. days \in Seq(Value) /\ days \in Seq(Points)
  BY AvgType DEF AnyDays
<1>2. N \in Nat /\ DOMAIN days = 1 .. N /\ \A d \in 1 .. N : days[d] \in Points
  BY <1>1
<1>3. \A i \in 0 .. N : Tally(days)[i] \in Sums
  BY <1>1, TallyIs
<1>4. 0 \in S
  <2>1. Tally(days)[0] = [sum |-> 0, n |-> 0] /\ 0 \in 0 .. N
    BY <1>1, <1>2, TallyIs
  <2>. QED  BY <2>1
<1>5. ASSUME NEW i \in 1 .. N, i - 1 \in S PROVE i \in S
  <2>0. i - 1 \in 0 .. N /\ i \in 0 .. N /\ days[i] \in Points
    BY <1>2
  <2>1. i - 1 \in 0 .. N /\ i \in 0 .. N /\ days[i] \in Nat /\ days[i] # Unknown /\ t * i \in Int
        /\ t * (i - 1) \in Int
    BY <2>0, PointType
  <2>2. Tally(days)[i] = Added(Tally(days)[i - 1], days[i])
    BY <1>1, TallyIs
  <2>3. Tally(days)[i - 1].sum \in Nat /\ Tally(days)[i - 1].n \in Nat
    BY <1>3, <2>1 DEF Sums
  <2>4. /\ Tally(days)[i].n = i
        /\ Tally(days)[i].sum = Tally(days)[i - 1].sum + days[i]
    BY <1>5, <2>1, <2>2, <2>3 DEF Added
  <2>5. t * i = t * (i - 1) + t
    OBVIOUS
  <2>6. \A a, b, c, d : a = b /\ d = c => (b >= c => a >= d) /\ (b < c => a < d)
    OBVIOUS
  <2>7. ASSUME \A d \in 1 .. N : days[d] >= t PROVE Tally(days)[i].sum >= t * i
    <3>1. days[i] >= t /\ Tally(days)[i - 1].sum >= t * (i - 1)
      BY <1>5, <2>7
    <3>2. \A p, v, a \in Int : v >= t /\ p >= a => p + v >= a + t
      OBVIOUS
    <3>3. PICK p \in Int, v \in Int, a \in Int :
              /\ p = Tally(days)[i - 1].sum /\ v = days[i] /\ a = t * (i - 1)
              /\ v >= t /\ p >= a
      BY <2>1, <2>3, <3>1
    <3>4. p + v >= a + t
      BY <3>2, <3>3
    <3>. QED  BY <2>4, <2>5, <2>6, <3>3, <3>4
  <2>8. ASSUME \A d \in 1 .. N : days[d] < t PROVE Tally(days)[i].sum < t * i
    <3>1. days[i] < t
      BY <2>8
    <3>2. CASE i - 1 = 0
      <4>1. Tally(days)[i - 1].sum = 0
        BY <1>1, <3>2, TallyIs
      <4>2. \A v, k \in Int : v < t /\ k - 1 = 0 => 0 + v < t * k
        OBVIOUS
      <4>3. i \in Int /\ days[i] \in Int
        BY <2>1
      <4>4. 0 + days[i] < t * i
        BY <3>1, <3>2, <4>2, <4>3
      <4>. QED  BY <2>4, <2>6, <4>1, <4>4
    <3>3. CASE i - 1 # 0
      <4>1. Tally(days)[i - 1].sum < t * (i - 1)
        BY <1>5, <2>1, <2>8, <3>3
      <4>2. \A p, v, a \in Int : v < t /\ p < a => p + v < a + t
        OBVIOUS
      <4>3. PICK p \in Int, v \in Int, a \in Int :
                /\ p = Tally(days)[i - 1].sum /\ v = days[i] /\ a = t * (i - 1)
                /\ v < t /\ p < a
        BY <2>1, <2>3, <3>1, <4>1
      <4>4. p + v < a + t
        BY <4>2, <4>3
      <4>. QED  BY <2>4, <2>5, <2>6, <4>3, <4>4
    <3>. QED  BY <3>2, <3>3
  <2>. QED  BY <2>1, <2>4, <2>7, <2>8
<1>. HIDE DEF S, N
<1>6. N \in S
  BY <1>2, <1>4, <1>5, Inductive
<1>7. Tally(days)[N] = Mean(days)
  BY DEF Mean, N
<1>. USE DEF S
<1>8. /\ Mean(days).n = N
      /\ (\A d \in 1 .. N : days[d] >= t) => Mean(days).sum >= t * N
      /\ N > 0 /\ (\A d \in 1 .. N : days[d] < t) => Mean(days).sum < t * N
  BY <1>6, <1>7
<1>. QED  BY <1>2, <1>8 DEF N

LEMMA FailingIsCounted ==
    ASSUME NEW cats \in Seq(AnyCategory)
    PROVE  FailingCounted(cats)
<1> SUFFICES ASSUME NEW i \in DOMAIN cats, NEW j \in DOMAIN cats[i].targets
             PROVE  LET days == cats[i].targets[j]
                        below == {d \in DOMAIN days : days[d] < cats[i].threshold}
                    IN /\ <<i, j>> \in failingHosts(cats) => below # {}
                       /\ below # {} /\ below = DOMAIN days => <<i, j>> \in failingHosts(cats)
  BY DEF FailingCounted
<1> DEFINE cat == cats[i]
           days == cat.targets[j]
           t == cat.threshold
           m == Mean(days)
           avg == target90dAvg(days)
           below == {d \in DOMAIN days : days[d] < t}
           fails == t > 0 /\ avg # Unknown /\ avg < Grain * t
<1>1. cat \in AnyCategory
  OBVIOUS
<1>2. t \in Points /\ cat.targets \in Seq(AnyDays)
  BY <1>1 DEF AnyCategory
<1>3. days \in AnyDays
  BY <1>2
<1>4. <<i, j>> \in totalHosts(cats)
  BY DEF totalHosts
<1>5. Avgs(cats[i])[j] = avg
  BY <1>1, AvgsType
<1>6. (<<i, j>> \in failingHosts(cats)) = fails
  BY <1>4, <1>5 DEF failingHosts
<1>7. days \in Seq(Points)
  BY <1>3 DEF AnyDays
<1>8. Len(days) \in Nat /\ DOMAIN days = 1 .. Len(days) /\ \A d \in DOMAIN days : days[d] \in Nat
  BY <1>7, PointType
<1>9. /\ m.n = Len(days) /\ m.sum \in Nat
      /\ below = {} => m.sum >= t * Len(days)
      /\ Len(days) > 0 /\ below = DOMAIN days => m.sum < t * Len(days)
  <2>1. m \in Sums
    BY <1>3, AvgType, MeanType
  <2>2. m.sum \in Nat
    BY <2>1 DEF Sums
  <2>3. t \in Nat
    BY <1>2, PointType
  <2>4. below = {} => \A d \in DOMAIN days : days[d] >= t
    <3>. HIDE DEF t, days
    <3>. QED  BY <1>8, <2>3
  <2>5. below = DOMAIN days => \A d \in DOMAIN days : days[d] < t
    OBVIOUS
  <2>. HIDE DEF t, days, below, m
  <2>6. /\ Mean(days).n = Len(days)
        /\ (\A d \in DOMAIN days : days[d] >= t) => Mean(days).sum >= t * Len(days)
        /\ Len(days) > 0 /\ (\A d \in DOMAIN days : days[d] < t) => Mean(days).sum < t * Len(days)
    BY <1>3, <2>3, MeanOfDays
  <2>. QED  BY <2>2, <2>4, <2>5, <2>6 DEF m
<1>10. Len(days) = 0 => avg = Unknown /\ DOMAIN days = {}
  BY <1>8, <1>9 DEF target90dAvg
<1>11. Len(days) > 0 => (avg # Unknown /\ ((avg < Grain * t) = (m.sum < t * Len(days))))
  <2> SUFFICES ASSUME Len(days) > 0
               PROVE  avg # Unknown /\ ((avg < Grain * t) = (m.sum < t * Len(days)))
    OBVIOUS
  <2>0. Grain \in Nat \ {0} /\ t \in Nat /\ Len(days) \in Nat \ {0}
    BY <1>2, <1>8, PointType, FigureAssumption
  <2>1. avg = (Grain * m.sum) \div Len(days)
    BY <1>9, <2>0 DEF target90dAvg
  <2>. HIDE DEF t, m, avg, days
  <2>2. Grain * m.sum \in Nat /\ Grain * t \in Nat
    BY <1>9, <2>0
  <2>3. (avg < Grain * t) = (Grain * m.sum < (Grain * t) * Len(days))
    BY <2>0, <2>1, <2>2, RoundedDown
  <2>4. \A g \in Nat \ {0}, a, b \in Int : (g * a < g * b) = (a < b)
    <3> SUFFICES ASSUME NEW g \in Nat \ {0}, NEW a \in Int, NEW b \in Int
                 PROVE  (g * a < g * b) = (a < b)
      OBVIOUS
    <3>1. CASE a < b
      <4>1. g * (b - a) > 0 /\ g * (b - a) = g * b - g * a
        BY <3>1
      <4>. QED  BY <3>1, <4>1
    <3>2. CASE ~(a < b)
      <4>1. g * (a - b) >= 0 /\ g * (a - b) = g * a - g * b
        BY <3>2
      <4>. QED  BY <3>2, <4>1
    <3>. QED  BY <3>1, <3>2
  <2>5. (Grain * t) * Len(days) = Grain * (t * Len(days)) /\ t * Len(days) \in Int /\ m.sum \in Int
    BY <1>9, <2>0
  <2>6. \A a \in Nat, b \in Nat \ {0} : a \div b \in Nat
    OBVIOUS
  <2>7. avg # Unknown
    BY <2>0, <2>1, <2>2, <2>6 DEF Unknown
  <2>. QED  BY <2>0, <2>3, <2>4, <2>5, <2>7
<1>12. below # {} => t > 0
  <2>1. t \in Nat
    BY <1>2, PointType
  <2>. HIDE DEF t, days
  <2>. QED  BY <1>8, <2>1
<1>13. fails => below # {}
  <2>0. t \in Nat
    BY <1>2, PointType
  <2>1. t * Len(days) \in Int /\ m.sum \in Int
    <3>. HIDE DEF t, m, days
    <3>. QED  BY <1>8, <1>9, <2>0
  <2>. HIDE DEF below, m, avg, t
  <2>. QED  BY <1>8, <1>9, <1>10, <1>11, <2>1
<1>14. below # {} /\ below = DOMAIN days => fails
  <2>. HIDE DEF m, avg
  <2>. QED  BY <1>8, <1>9, <1>10, <1>11, <1>12
<1>. QED  BY <1>6, <1>13, <1>14

LEMMA ChartAlwaysFits ==
    ASSUME NEW cat \in AnyCategory
    PROVE  ChartFits(cat)
<1> DEFINE S == Shown(cat) \cup {100}
           lowest == Min(S)
           a == IF lowest < 100 THEN lowest - 2 ELSE 95
           b == IF cat.threshold > 0 THEN cat.threshold - 2 ELSE 95
           T == {95, a, b}
<1>1. cat.threshold \in Points /\ cat.targets \in Seq(AnyDays)
  BY DEF AnyCategory
<1>2. Shown(cat) \subseteq Points
  <2> SUFFICES ASSUME NEW j \in DOMAIN cat.targets, NEW d \in DOMAIN cat.targets[j]
               PROVE  cat.targets[j][d] \in Points
    BY DEF Shown
  <2>1. cat.targets[j] \in Seq(Points)
    BY <1>1 DEF AnyDays
  <2>. QED  BY <2>1
<1>3. lowest \in S /\ \A v \in S : lowest <= v
  <2>1. S \subseteq 0 .. 100 /\ S # {}
    BY <1>2 DEF Points
  <2>. HIDE DEF S
  <2>. QED  BY <2>1, MinMax
<1>4. lowest \in Int /\ cat.threshold \in Int
  BY <1>1, <1>2, <1>3, PointType
<1>. HIDE DEF lowest
<1>5. a \in Int /\ b \in Int
  BY <1>4
<1>6. Min(T) \in T /\ \A v \in T : Min(T) <= v
  <2>1. PICK v \in T : \A y \in T : v <= y
    <3>. HIDE DEF a, b
    <3>1. CASE 95 <= a /\ 95 <= b
      BY <1>5, <3>1
    <3>2. CASE a <= 95 /\ a <= b
      BY <1>5, <3>2
    <3>3. CASE b <= 95 /\ b <= a
      BY <1>5, <3>3
    <3>. QED  BY <1>5, <3>1, <3>2, <3>3
  <2>. HIDE DEF T
  <2>. QED  BY <2>1 DEF Min
<1>7. computeYMin(cat) = Min(T)
  BY DEF computeYMin, lowest
<1>8. Min(T) \in Int /\ Min(T) <= 95 /\ Min(T) <= a /\ Min(T) <= b
  BY <1>5, <1>6
<1>9. \A v \in Shown(cat) : Min(T) < v
  <2> SUFFICES ASSUME NEW v \in Shown(cat) PROVE Min(T) < v
    OBVIOUS
  <2>1. v \in Int /\ v <= 100 /\ lowest <= v
    BY <1>2, <1>3, PointType
  <2>. HIDE DEF T
  <2>. QED  BY <1>4, <1>8, <2>1
<1>10. cat.threshold > 0 => Min(T) < cat.threshold
  <2>. HIDE DEF T
  <2>. QED  BY <1>4, <1>8
<1>. QED  BY <1>7, <1>9, <1>10 DEF ChartFits
-----------------------------------------------------------------------------
(* The bars of days. *)

\* Every day has its bar, however many days and whatever is known of them.
THEOREM DaysAreShown ==
    ASSUME NEW x, x.hour \in 0 .. 23, x.before \in Int, x.after \in Int,
           x.before - x.after \in -24 .. 24
    PROVE  DaysShown(x)
<1> DEFINE date(i) == (24 * (20 - (Days - i)) + x.hour + Ahead(x, 0) - Ahead(x, Days - i)) \div 24
<1>1. Days \in Nat
  BY FigureAssumption
<1>2. \A i \in 1 .. Days :
          pad90dBars(x)[i] = [date |-> date(i), known |-> date(i) \in x.rollups]
  BY DEF pad90dBars
<1>3. \A i \in 1 .. Days : pad90dBars(x)[i].date = date(i)
  BY DEF pad90dBars
<1>4. x.hour \in Int /\ x.hour >= 0 /\ x.hour < 24
  OBVIOUS
<1>5. \A ago : Ahead(x, ago) = x.before \/ Ahead(x, ago) = x.after
  BY DEF Ahead
<1>6. ASSUME NEW i \in 1 .. Days - 1 PROVE pad90dBars(x)[i].date <= pad90dBars(x)[i + 1].date
  <2>1. i \in 1 .. Days /\ i + 1 \in 1 .. Days /\ i \in Int
    BY <1>1
  <2>2. PICK p \in Int, q \in Int, r \in Int :
            /\ p = Ahead(x, 0) /\ q = Ahead(x, Days - i) /\ r = Ahead(x, Days - (i + 1))
            /\ q - r <= 24 /\ r - q <= 24
    <3>1. \A a, b : (a = x.before \/ a = x.after) /\ (b = x.before \/ b = x.after)
                    => a \in Int /\ b \in Int /\ a - b <= 24 /\ b - a <= 24
      OBVIOUS
    <3>. QED  BY <1>5, <3>1
  <2>3. (24 * (20 - (Days - i)) + x.hour + p - q) \div 24
          <= (24 * (20 - (Days - (i + 1))) + x.hour + p - r) \div 24
    <3>1. \A h, d, k, a, b, c \in Int : b - c <= 24 /\ c - b <= 24 =>
              (24 * (20 - (d - k)) + h + a - b) \div 24 <= (24 * (20 - (d - (k + 1))) + h + a - c) \div 24
      OBVIOUS
    <3>. QED  BY <1>1, <1>4, <2>1, <2>2, <3>1
  <2>. QED  BY <1>3, <2>1, <2>2, <2>3
<1>7. ASSUME x.before = x.after, NEW day \in 21 - Days .. 20
      PROVE  Cardinality({i \in 1 .. Days :
                 pad90dBars(x)[i] = [date |-> day, known |-> day \in x.rollups]}) = 1
  <2>1. \A i \in 1 .. Days : date(i) = 20 - (Days - i)
    <3>1. \A h, d, k, a \in Int : h >= 0 /\ h < 24 =>
              (24 * (20 - (d - k)) + h + a - a) \div 24 = 20 - (d - k)
      OBVIOUS
    <3>2. \A ago : Ahead(x, ago) = x.before
      BY <1>7 DEF Ahead
    <3>. QED  BY <1>1, <1>4, <3>1, <3>2
  <2>. HIDE DEF date
  <2>2. day \in Int /\ day + Days - 20 \in 1 .. Days
    BY <1>1
  <2>3. \A i \in 1 .. Days : date(i) = day <=> i = day + Days - 20
    BY <1>1, <2>1, <2>2
  <2>4. \A i \in 1 .. Days : (pad90dBars(x)[i] = [date |-> day, known |-> day \in x.rollups])
                             <=> date(i) = day
    BY <1>2, <1>3
  <2>5. {i \in 1 .. Days : pad90dBars(x)[i] = [date |-> day, known |-> day \in x.rollups]}
          = {day + Days - 20}
    BY <2>2, <2>3, <2>4
  <2>. QED  BY <2>5, FS_Singleton
<1>. QED  BY <1>6, <1>7 DEF DaysShown
-----------------------------------------------------------------------------
(* The bars of five minutes. *)

Result == [at : Int, status : {"up", "down"}]

\* A time within the 4 h is in one slot, later times in later slots.
LEMMA OneSlot ==
    ASSUME NEW t \in Int
    PROVE  /\ 0 <= t /\ t < Slots * SlotTicks => \E i \in 1 .. Slots : InSlot(t, i)
           /\ \A i \in 1 .. Slots : InSlot(t, i) => 0 <= t /\ t < Slots * SlotTicks
           /\ \A u \in Int : \A i, k \in 1 .. Slots : t <= u /\ InSlot(t, i) /\ InSlot(u, k) => i <= k
<1>0. Slots \in Nat /\ SlotTicks \in Nat /\ SlotTicks > 0
  BY FigureAssumption
<1>1. \A a, b \in Int : a <= b => a * SlotTicks <= b * SlotTicks
  <2> SUFFICES ASSUME NEW a \in Int, NEW b \in Int, a <= b PROVE a * SlotTicks <= b * SlotTicks
    OBVIOUS
  <2>1. (b - a) * SlotTicks >= 0 /\ (b - a) * SlotTicks = b * SlotTicks - a * SlotTicks
    BY <1>0
  <2>. QED  BY <1>0, <2>1
<1>2. ASSUME 0 <= t, t < Slots * SlotTicks PROVE \E i \in 1 .. Slots : InSlot(t, i)
  <2> DEFINE q == t \div SlotTicks
  <2>1. q \in Nat /\ SlotTicks * q <= t /\ t < SlotTicks * (q + 1)
    <3>1. \A a \in Nat, b \in Nat \ {0} : a \div b \in Nat
      OBVIOUS
    <3>2. \A a \in Nat, b \in Nat \ {0} : b * (a \div b) <= a
      OBVIOUS
    <3>3. \A a \in Nat, b \in Nat \ {0} : a < b * ((a \div b) + 1)
      OBVIOUS
    <3>. QED  BY <1>0, <1>2, <3>1, <3>2, <3>3
  <2>. HIDE DEF q
  <2>2. q < Slots
    <3> SUFFICES ASSUME Slots <= q PROVE FALSE
      BY <1>0, <2>1
    <3>1. Slots * SlotTicks <= q * SlotTicks
      BY <1>0, <1>1, <2>1
    <3>2. q * SlotTicks = SlotTicks * q /\ q * SlotTicks \in Int /\ Slots * SlotTicks \in Int
      BY <1>0, <2>1
    <3>. QED  BY <1>2, <2>1, <3>1, <3>2
  <2>3. q + 1 \in 1 .. Slots /\ (q + 1) - 1 = q
    BY <1>0, <2>1, <2>2
  <2>4. q * SlotTicks = SlotTicks * q /\ (q + 1) * SlotTicks = SlotTicks * (q + 1)
    BY <1>0, <2>1
  <2>5. InSlot(t, q + 1)
    BY <2>1, <2>3, <2>4 DEF InSlot
  <2>. QED  BY <2>3, <2>5
<1>3. ASSUME NEW i \in 1 .. Slots, InSlot(t, i) PROVE 0 <= t /\ t < Slots * SlotTicks
  <2>1. i \in Int /\ i - 1 \in Int /\ 0 <= i - 1 /\ i <= Slots
    BY <1>0
  <2>2. 0 * SlotTicks <= (i - 1) * SlotTicks /\ i * SlotTicks <= Slots * SlotTicks
    BY <1>0, <1>1, <2>1
  <2>3. (i - 1) * SlotTicks <= t /\ t < i * SlotTicks
    BY <1>3 DEF InSlot
  <2>4. 0 * SlotTicks = 0 /\ (i - 1) * SlotTicks \in Int /\ i * SlotTicks \in Int
        /\ Slots * SlotTicks \in Int
    BY <1>0, <2>1
  <2>. QED  BY <2>2, <2>3, <2>4
<1>4. ASSUME NEW u \in Int, NEW i \in 1 .. Slots, NEW k \in 1 .. Slots,
             t <= u, InSlot(t, i), InSlot(u, k)
      PROVE  i <= k
  <2> SUFFICES ASSUME k <= i - 1 PROVE FALSE
    BY <1>0
  <2>1. i \in Int /\ k \in Int /\ i - 1 \in Int
    BY <1>0
  <2>2. k * SlotTicks <= (i - 1) * SlotTicks
    BY <1>1, <2>1
  <2>3. (i - 1) * SlotTicks <= t /\ u < k * SlotTicks
    BY <1>4 DEF InSlot
  <2>4. (i - 1) * SlotTicks \in Int /\ k * SlotTicks \in Int
    BY <1>0, <2>1
  <2>. QED  BY <1>4, <2>2, <2>3, <2>4
<1>. QED  BY <1>2, <1>3, <1>4

\* The last result is seen in the last bar, however many results there are.
THEOREM SlotsAreShown ==
    ASSUME NEW x, x.results \in Seq(Result),
           \A i, j \in DOMAIN x.results : i < j => x.results[i].at <= x.results[j].at
    PROVE  SlotsShown(x)
<1> DEFINE r == x.results
           n == Len(r)
           Here(i) == {j \in 1 .. n : InSlot(r[j].at, i)}
           bars == pad4hBars(x)
           known == {i \in 1 .. Slots : bars[i] # "none"}
           within == {j \in 1 .. n : 0 <= r[j].at /\ r[j].at < Slots * SlotTicks}
<1>1. n \in Nat /\ DOMAIN r = 1 .. n /\ \A j \in 1 .. n : r[j] \in Result
  OBVIOUS
<1>2. \A j \in 1 .. n : r[j].at \in Int /\ r[j].status # "none"
  BY <1>1 DEF Result
<1>. HIDE DEF n, r
<1>3. \A i \in 1 .. Slots : bars[i] = IF Here(i) = {} THEN "none" ELSE r[Max(Here(i))].status
  BY <1>1 DEF pad4hBars, r
<1>4. \A S : S \subseteq 1 .. n /\ S # {} => /\ Max(S) \in S /\ \A y \in S : y <= Max(S)
  <2> SUFFICES ASSUME NEW S, S \subseteq 1 .. n, S # {}
               PROVE  Max(S) \in S /\ \A y \in S : y <= Max(S)
    OBVIOUS
  <2>1. S \subseteq 0 .. n
    BY <1>1
  <2>. QED  BY <1>1, <2>1, MinMax
<1>5. \A i : Here(i) \subseteq 1 .. n
  OBVIOUS
<1>. HIDE DEF bars
<1>6. \A i \in 1 .. Slots : i \in known <=> Here(i) # {}
  <2> SUFFICES ASSUME NEW i \in 1 .. Slots PROVE i \in known <=> Here(i) # {}
    OBVIOUS
  <2>1. CASE Here(i) = {}
    BY <1>3, <2>1
  <2>2. CASE Here(i) # {}
    <3>1. Max(Here(i)) \in 1 .. n
      BY <1>4, <2>2
    <3>. QED  BY <1>2, <1>3, <2>2, <3>1
  <2>. QED  BY <2>1, <2>2
<1>7. \A i \in 1 .. Slots : Here(i) \subseteq within
  <2> SUFFICES ASSUME NEW i \in 1 .. Slots, NEW j \in Here(i) PROVE j \in within
    OBVIOUS
  <2>1. r[j].at \in Int /\ InSlot(r[j].at, i)
    BY <1>2
  <2>2. 0 <= r[j].at /\ r[j].at < Slots * SlotTicks
    BY <2>1, OneSlot
  <2>. QED  BY <2>2
<1>8. \A j \in within : \E i \in 1 .. Slots : j \in Here(i)
  <2> SUFFICES ASSUME NEW j \in within PROVE \E i \in 1 .. Slots : j \in Here(i)
    OBVIOUS
  <2>1. r[j].at \in Int /\ 0 <= r[j].at /\ r[j].at < Slots * SlotTicks
    BY <1>2
  <2>2. PICK i \in 1 .. Slots : InSlot(r[j].at, i)
    BY <2>1, OneSlot
  <2>. QED  BY <2>2
<1>9. ASSUME NEW i \in 1 .. Slots, NEW k \in 1 .. Slots, NEW j \in Here(i), NEW l \in Here(k), j <= l
      PROVE  i <= k
  <2>1. r[j].at \in Int /\ r[l].at \in Int /\ InSlot(r[j].at, i) /\ InSlot(r[l].at, k)
    BY <1>2
  <2>2. r[j].at <= r[l].at
    <3>1. CASE j = l
      BY <2>1, <3>1
    <3>2. CASE j # l
      <4>1. j < l /\ j \in DOMAIN r /\ l \in DOMAIN r
        BY <1>1, <1>9, <3>2
      <4>. QED  BY <4>1 DEF r
    <3>. QED  BY <3>1, <3>2
  <2>. QED  BY <2>1, <2>2, OneSlot
<1>. HIDE DEF Here, known, within
<1>10. known \subseteq 1 .. Slots /\ within \subseteq 1 .. n /\ Slots \in Nat
  BY FigureAssumption DEF known, within
<1>11. Cardinality(known) <= Cardinality(within)
  <2> DEFINE f == [i \in known |-> Max(Here(i))]
  <2>1. \A i \in known : i \in 1 .. Slots /\ Max(Here(i)) \in Here(i)
    BY <1>4, <1>5, <1>6, <1>10
  <2>2. f \in [known -> within]
    BY <1>7, <2>1
  <2>3. ASSUME NEW i \in known, NEW k \in known, f[i] = f[k] PROVE i = k
    <3>1. i \in 1 .. Slots /\ k \in 1 .. Slots /\ f[i] \in Here(i) /\ f[i] \in Here(k)
      BY <2>1, <2>3
    <3>. HIDE DEF f
    <3>2. PICK j : j \in Here(i) /\ j \in Here(k)
      BY <3>1
    <3>3. j \in Nat /\ j <= j
      BY <1>1, <1>5, <3>2
    <3>4. i <= k /\ k <= i
      BY <1>9, <3>1, <3>2, <3>3
    <3>. QED  BY <1>10, <3>1, <3>4
  <2>4. f \in Injection(known, within)
    <3>. HIDE DEF f
    <3>. QED  BY <2>2, <2>3 DEF Injection, IsInjective
  <2>5. IsFiniteSet(within)
    <3>1. IsFiniteSet(1 .. n)
      BY <1>1, FS_Interval
    <3>. QED  BY <1>10, <3>1, FS_Subset
  <2>. HIDE DEF f
  <2>. QED  BY <2>4, <2>5, FS_Injection
<1>12. (known = {}) = (within = {})
  <2>1. ASSUME NEW i \in known PROVE within # {}
    BY <1>6, <1>7, <1>10
  <2>2. ASSUME NEW j \in within PROVE known # {}
    BY <1>6, <1>8
  <2>. QED  BY <2>1, <2>2
<1>13. ASSUME known # {} PROVE bars[Max(known)] = r[Max(within)].status
  <2>1. PICK k : k = Max(known) /\ k \in known /\ k \in 1 .. Slots /\ \A i \in known : i <= k
    <3>1. known \subseteq 0 .. Slots
      BY <1>10
    <3>. QED  BY <1>10, <1>13, <3>1, MinMax
  <2>2. PICK w : w = Max(within) /\ w \in within /\ w \in 1 .. n /\ \A j \in within : j <= w
    BY <1>4, <1>10, <1>12, <1>13
  <2>3. PICK s \in 1 .. Slots : w \in Here(s)
    BY <1>8, <2>2
  <2>4. s <= k
    BY <1>6, <2>1, <2>3
  <2>5. PICK j : j = Max(Here(k)) /\ j \in Here(k) /\ j \in 1 .. n /\ \A y \in Here(k) : y <= j
    BY <1>4, <1>5, <1>6, <2>1
  <2>6. j <= w
    BY <1>7, <2>1, <2>2, <2>5
  <2>7. k <= s
    BY <1>9, <2>1, <2>3, <2>5, <2>6
  <2>8. s = k
    BY <1>10, <2>1, <2>4, <2>7
  <2>9. w <= j
    BY <2>3, <2>5, <2>8
  <2>10. w = j
    BY <1>1, <2>2, <2>5, <2>6, <2>9
  <2>. QED  BY <1>3, <2>1, <2>2, <2>5, <2>10
<1>. QED  BY <1>1, <1>11, <1>12, <1>13 DEF SlotsShown, bars, known, within, r
-----------------------------------------------------------------------------
(* The order of the targets. *)

\* The comparator is an order, whatever the uptimes and the names.
THEOREM SortIsAnOrder ==
    ASSUME NEW x, x.soc \in BOOLEAN,
           x.a.worst \in Int, x.b.worst \in Int, x.c.worst \in Int,
           x.a.name \in Int, x.b.name \in Int, x.c.name \in Int
    PROVE  SortIsOrder(x)
<1> DEFINE down(t) == isTargetDown(x.soc, t)
           bad(t) == t.sla = "unhealthy"
           off(t) == t.state = "paused"
<1>1. \A a, b : Compare(x.soc, a, b) =
          IF ~(down(a) <=> down(b)) THEN (IF down(a) THEN -1 ELSE 1)
          ELSE IF down(a) THEN a.worst - b.worst
          ELSE IF ~(bad(a) <=> bad(b)) THEN (IF bad(a) THEN -1 ELSE 1)
          ELSE IF ~(off(a) <=> off(b)) THEN (IF off(b) THEN -1 ELSE 1)
          ELSE IF a.worst - b.worst # 0 THEN a.worst - b.worst ELSE a.name - b.name
  BY DEF Compare, isTargetDown
<1>. HIDE DEF down, bad, off
<1>2. ASSUME NEW a, NEW b, a.worst \in Int, b.worst \in Int, a.name \in Int, b.name \in Int
      PROVE  /\ Compare(x.soc, a, b) < 0 <=> Compare(x.soc, b, a) > 0
             /\ Compare(x.soc, a, b) <= 0 <=>
                   \/ down(a) /\ ~down(b)
                   \/ down(a) /\ down(b) /\ a.worst <= b.worst
                   \/ /\ ~down(a) /\ ~down(b)
                      /\ \/ bad(a) /\ ~bad(b)
                         \/ /\ bad(a) <=> bad(b)
                            /\ \/ ~off(a) /\ off(b)
                               \/ /\ off(a) <=> off(b)
                                  /\ \/ a.worst < b.worst
                                     \/ a.worst = b.worst /\ a.name <= b.name
  <2>1. CASE ~(down(a) <=> down(b))
    BY <1>1, <1>2, <2>1
  <2>2. CASE down(a) /\ down(b)
    BY <1>1, <1>2, <2>2
  <2>3. CASE ~down(a) /\ ~down(b) /\ ~(bad(a) <=> bad(b))
    BY <1>1, <1>2, <2>3
  <2>4. CASE ~down(a) /\ ~down(b) /\ (bad(a) <=> bad(b)) /\ ~(off(a) <=> off(b))
    BY <1>1, <1>2, <2>4
  <2>5. CASE ~down(a) /\ ~down(b) /\ (bad(a) <=> bad(b)) /\ (off(a) <=> off(b))
    BY <1>1, <1>2, <2>5
  <2>. QED  BY <2>1, <2>2, <2>3, <2>4, <2>5
<1>3. /\ Compare(x.soc, x.a, x.b) < 0 <=> Compare(x.soc, x.b, x.a) > 0
      /\ Compare(x.soc, x.a, x.b) <= 0 /\ Compare(x.soc, x.b, x.c) <= 0 => Compare(x.soc, x.a, x.c) <= 0
      /\ down(x.a) /\ ~down(x.b) => ~(Compare(x.soc, x.b, x.a) <= 0)
  BY <1>2
<1>. QED  BY <1>3 DEF SortIsOrder, down
-----------------------------------------------------------------------------
(* The lights and the SLA status. *)

\* A light never contradicts its label, for every number the server may send.
THEOREM LightsAlwaysAgree ==
    ASSUME NEW x, x.known \in BOOLEAN, x.latency \in Int, x.total \in Int, x.free \in Int,
           x.load1 \in Int, x.cpus \in Int, x.ticked \in Int
    PROVE  LightsAgree(x)
<1>1. /\ dotColor(x, "net") = IF ~x.known THEN "grey" ELSE IF x.latency >= 0 THEN "green" ELSE "red"
      /\ label(x, "net") = IF ~x.known THEN "-" ELSE IF x.latency >= 0 THEN "OK" ELSE "Unreachable"
  BY DEF dotColor, label
<1>2. /\ dotColor(x, "disk") = IF ~x.known \/ x.total = 0 THEN "grey"
                               ELSE IF 5 * x.free > x.total THEN "green"
                               ELSE IF 10 * x.free > x.total THEN "yellow" ELSE "red"
      /\ label(x, "disk") = IF ~x.known \/ x.total = 0 THEN "-" ELSE "free"
  BY DEF dotColor, label
<1>3. /\ dotColor(x, "cpu") = IF ~x.known \/ x.load1 < 0 THEN "grey"
                              ELSE IF x.load1 < x.cpus THEN "green"
                              ELSE IF x.load1 < 2 * x.cpus THEN "yellow" ELSE "red"
      /\ label(x, "cpu") = IF ~x.known \/ x.load1 < 0 THEN "-" ELSE "load"
  BY DEF dotColor, label
<1>4. /\ dotColor(x, "scheduler") = IF ~x.known THEN "grey"
                                    ELSE IF checkScheduler(x) = "ok" THEN "green"
                                    ELSE IF checkScheduler(x) = "starting" THEN "yellow" ELSE "red"
      /\ label(x, "scheduler") = IF ~x.known THEN "-"
                                 ELSE IF checkScheduler(x) = "starting" THEN "Starting"
                                 ELSE IF checkScheduler(x) = "stale" THEN "STALE" ELSE "OK"
  BY DEF dotColor, label
<1>5. checkScheduler(x) \in {"starting", "stale", "ok"}
  BY DEF checkScheduler
<1>6. /\ (dotColor(x, "net") = "grey") = (label(x, "net") = "-")
      /\ (dotColor(x, "net") = "green") = (label(x, "net") = "OK")
  BY <1>1
<1>7. (dotColor(x, "disk") = "grey") = (label(x, "disk") = "-")
  BY <1>2
<1>8. (dotColor(x, "cpu") = "grey") = (label(x, "cpu") = "-")
  BY <1>3
<1>9. /\ (dotColor(x, "scheduler") = "grey") = (label(x, "scheduler") = "-")
      /\ (dotColor(x, "scheduler") = "green") = (label(x, "scheduler") = "OK")
      /\ (label(x, "scheduler") = "STALE") = (dotColor(x, "scheduler") = "red")
  BY <1>4, <1>5
<1>. QED  BY <1>6, <1>7, <1>8, <1>9 DEF LightsAgree

AnyCheck == [type : {"ping", "http"}, uptime : Points \cup {Unknown}]

\* The status is that of the uptime beside it, however many checks a target has.
THEOREM StatusAlwaysFits ==
    ASSUME NEW x, x.checks \in Seq(AnyCheck),
           x.threshold \in Nat
    PROVE  StatusFits(x)
<1> SUFFICES ASSUME x.checks # <<>> PROVE StatusFits(x)
  BY DEF StatusFits
<1> DEFINE n == Len(x.checks)
           uptime(i) == x.checks[i].uptime
           best == IF OfType(x) # {} THEN Min(OfType(x)) ELSE 1
           shown == uptime(best)
           worst == {100} \cup ({uptime(i) : i \in 1 .. n} \ {Unknown})
<1>1. /\ n \in Nat /\ n > 0 /\ DOMAIN x.checks = 1 .. n
      /\ \A i \in 1 .. n : x.checks[i] \in AnyCheck
  <2>1. \A s \in Seq(AnyCheck) : s # <<>> => /\ Len(s) \in Nat /\ Len(s) > 0 /\ DOMAIN s = 1 .. Len(s)
                                             /\ \A i \in 1 .. Len(s) : s[i] \in AnyCheck
    OBVIOUS
  <2>. QED  BY <2>1
<1>2. \A i \in 1 .. n : uptime(i) \in Points \cup {Unknown}
  <2>1. \A c \in AnyCheck : c.uptime \in Points \cup {Unknown}
    BY DEF AnyCheck
  <2>. QED  BY <1>1, <2>1
<1>. HIDE DEF n
<1>3. OfType(x) \subseteq 1 .. n /\ OfType(x) \subseteq 0 .. n
  BY <1>1 DEF OfType
<1>4. best \in 1 .. n
  <2>1. CASE OfType(x) # {}
    <3>1. Min(OfType(x)) \in OfType(x)
      BY <1>1, <1>3, <2>1, MinMax
    <3>. QED  BY <1>3, <2>1, <3>1
  <2>2. CASE OfType(x) = {}
    BY <1>1, <2>2
  <2>. QED  BY <2>1, <2>2
<1>5. getPreferredCheck(x).uptime = shown
  BY DEF getPreferredCheck
<1>6. getWorstUptime(x) = Min(worst)
  BY <1>1 DEF getWorstUptime
<1>7. worst \subseteq 0 .. 100 /\ worst # {}
  <2>1. 100 \in Points
    BY DEF Points
  <2>2. \A i \in 1 .. n : uptime(i) # Unknown => uptime(i) \in Points
    BY <1>2
  <2>. HIDE DEF uptime
  <2>3. worst \subseteq Points
    BY <2>1, <2>2
  <2>. QED  BY <2>3 DEF Points
<1>8. ASSUME shown # Unknown PROVE Min(worst) <= shown
  <2>1. shown \in worst
    BY <1>4, <1>8
  <2>. HIDE DEF worst, shown
  <2>. QED  BY <1>7, <2>1, MinMax
<1>9. ASSUME shown # Unknown, x.threshold > 0
      PROVE  slaStatus(x) = IF shown >= x.threshold THEN "healthy" ELSE "unhealthy"
  <2>1. x.threshold # 0
    BY <1>9
  <2>2. CASE OfType(x) # {}
    BY <1>9, <2>1, <2>2 DEF slaStatus
  <2>3. CASE OfType(x) = {}
    BY <1>9, <2>1, <2>3 DEF slaStatus
  <2>. QED  BY <2>2, <2>3
<1>. HIDE DEF shown, worst
<1>. QED  BY <1>5, <1>6, <1>8, <1>9 DEF StatusFits
-----------------------------------------------------------------------------
(* All of them. *)

\* The SLA page's figures agree, for any number of categories, hosts and days.
THEOREM PageAlwaysAgrees ==
    ASSUME NEW x, x.cats \in Seq(AnyCategory)
    PROVE  PageAgrees(x)
<1>1. \A i \in DOMAIN x.cats : x.cats[i] \in AnyCategory
  OBVIOUS
<1>. QED  BY <1>1, ChartAlwaysFits, FailingIsCounted, AverageIsBetween DEF PageAgrees

LEMMA SeqOf ==
    ASSUME NEW S, NEW T, S \subseteq T, NEW n \in Nat, NEW s \in [1 .. n -> S]
    PROVE  s \in Seq(T)
<1>1. s \in [1 .. n -> T]
  OBVIOUS
<1>. QED  BY <1>1

LEMMA InputsAreWide ==
    /\ \A x \in SlotInputs : /\ x.results \in Seq(Result)
                             /\ \A i, j \in DOMAIN x.results : i < j => x.results[i].at <= x.results[j].at
    /\ \A x \in SLAInputs : /\ x.checks \in Seq(AnyCheck)
                            /\ x.threshold \in Nat
    /\ \A x \in PageInputs : x.cats \in Seq(AnyCategory)
<1>1. ASSUME NEW x \in SlotInputs
      PROVE  /\ x.results \in Seq(Result)
             /\ \A i, j \in DOMAIN x.results : i < j => x.results[i].at <= x.results[j].at
  <2>1. x.results \in Results
    BY DEF SlotInputs
  <2>2. PICK n \in 0 .. 2 : x.results \in [1 .. n -> [at : -1 .. Slots * SlotTicks, status : {"up", "down"}]]
    BY <2>1 DEF Results
  <2>3. [at : -1 .. Slots * SlotTicks, status : {"up", "down"}] \subseteq Result
    BY DEF Result
  <2>4. n \in Nat
    OBVIOUS
  <2>5. x.results \in Seq(Result)
    BY <2>2, <2>3, <2>4, SeqOf
  <2>. QED  BY <2>1, <2>5 DEF Results
<1>2. ASSUME NEW x \in SLAInputs
      PROVE  /\ x.checks \in Seq(AnyCheck)
             /\ x.threshold \in Nat
  <2>1. PICK n \in 0 .. 3 : x.checks \in [1 .. n -> Check]
    BY DEF SLAInputs
  <2>2. Percent \subseteq Points /\ Threshold \subseteq Points
    BY FigureAssumption DEF Points
  <2>3. Check \subseteq AnyCheck
    BY <2>2 DEF Check, AnyCheck
  <2>4. n \in Nat /\ x.threshold \in Threshold
    BY DEF SLAInputs
  <2>5. x.checks \in Seq(AnyCheck)
    BY <2>1, <2>3, <2>4, SeqOf
  <2>. QED  BY <2>2, <2>4, <2>5, PointType
<1>3. ASSUME NEW x \in PageInputs PROVE x.cats \in Seq(AnyCategory)
  <2>1. Percent \subseteq Points /\ Threshold \subseteq Points
    BY FigureAssumption DEF Points
  <2>2. Uptimes \subseteq AnyDays
    <3> SUFFICES ASSUME NEW n \in 0 .. 2, NEW s \in [1 .. n -> Percent] PROVE s \in AnyDays
      BY DEF Uptimes
    <3>1. n \in Nat
      OBVIOUS
    <3>. QED  BY <2>1, <3>1, SeqOf DEF AnyDays
  <2>3. \A hosts \in Nat : PageCategory(hosts) \subseteq AnyCategory
    <3> SUFFICES ASSUME NEW hosts \in Nat, NEW cat \in PageCategory(hosts) PROVE cat \in AnyCategory
      OBVIOUS
    <3>1. PICK n \in 0 .. hosts : cat.targets \in [1 .. n -> Uptimes]
      BY DEF PageCategory
    <3>2. n \in Nat
      OBVIOUS
    <3>3. cat.targets \in Seq(AnyDays)
      BY <2>2, <3>1, <3>2, SeqOf
    <3>4. cat = [threshold |-> cat.threshold, targets |-> cat.targets] /\ cat.threshold \in Threshold
      BY DEF PageCategory
    <3>. QED  BY <2>1, <3>3, <3>4 DEF AnyCategory
  <2>4. CASE x.cats = <<>>
    BY <2>4
  <2>5. CASE x.cats \in PageCategory(2) \X PageCategory(1)
    <3>1. PICK a \in AnyCategory, b \in AnyCategory : x.cats = <<a, b>>
      BY <2>3, <2>5
    <3>. QED  BY <3>1
  <2>. QED  BY <2>4, <2>5 DEF PageInputs
<1>. QED  BY <1>1, <1>2, <1>3

\* The figures of the pages are those of the answers they are computed from.
THEOREM FiguresKeepAgreeing == FiguresSpec => []FiguresAgree
<1>1. FiguresInit => FiguresAgree
  <2> SUFFICES ASSUME FiguresInit PROVE FiguresAgree
    OBVIOUS
  <2>1. CASE given \in DayInputs
    <3>1. /\ given.kind = "days" /\ given.hour \in 0 .. 23 /\ given.before \in Int /\ given.after \in Int
          /\ given.before - given.after \in -24 .. 24
      BY <2>1 DEF DayInputs
    <3>. QED  BY <3>1, DaysAreShown DEF FiguresAgree
  <2>2. CASE given \in SlotInputs
    <3>1. given.kind = "slots"
      BY <2>2 DEF SlotInputs
    <3>. QED  BY <2>2, <3>1, InputsAreWide, SlotsAreShown DEF FiguresAgree
  <2>3. CASE given \in OrderInputs
    <3>1. /\ given.kind = "order" /\ given.soc \in BOOLEAN
          /\ given.a \in Targets /\ given.b \in Targets /\ given.c \in Targets
      BY <2>3 DEF OrderInputs
    <3>2. \A t \in Targets : t.worst \in Int /\ t.name \in Int
      <4>1. \A t \in Targets : t.worst \in {1, 2} /\ t.name \in {1, 2}
        BY DEF Targets
      <4>. QED  BY <4>1
    <3>. QED  BY <3>1, <3>2, SortIsAnOrder DEF FiguresAgree
  <2>4. CASE given \in HealthInputs
    <3>1. /\ given.kind = "health" /\ given.known \in BOOLEAN
          /\ given.latency \in Int /\ given.total \in Int /\ given.free \in Int
          /\ given.load1 \in Int /\ given.cpus \in Int /\ given.ticked \in Int
      BY <2>4 DEF HealthInputs
    <3>. QED  BY <3>1, LightsAlwaysAgree DEF FiguresAgree
  <2>5. CASE given \in SLAInputs
    <3>1. given.kind = "sla"
      BY <2>5 DEF SLAInputs
    <3>. QED  BY <2>5, <3>1, InputsAreWide, StatusAlwaysFits DEF FiguresAgree
  <2>6. CASE given \in PageInputs
    <3>1. given.kind = "page"
      BY <2>6 DEF PageInputs
    <3>. QED  BY <2>6, <3>1, InputsAreWide, PageAlwaysAgrees DEF FiguresAgree
  <2>. QED  BY <2>1, <2>2, <2>3, <2>4, <2>5, <2>6 DEF FiguresInit
<1>2. FiguresAgree /\ [FALSE]_given => FiguresAgree'
  <2>1. [FALSE]_given => given' = given
    OBVIOUS
  <2>. QED  BY <2>1 DEF FiguresAgree
<1>. QED  BY <1>1, <1>2, PTL DEF FiguresSpec
===============================================================================
