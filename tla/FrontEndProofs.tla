--------------------------- MODULE FrontEndProofs ---------------------------
(***************************************************************************)
(* Proofs about FrontEnd, for any profiles, projects, forms, signals and   *)
(* menus: what is called verified is what is saved, a save changes one     *)
(* profile, nothing is tried again over a host left half installed, and    *)
(* what a menu highlights is drawn and can be chosen.                      *)
(*                                                                         *)
(* The invariant is about a few screens: the host screens, the profiles    *)
(* section and the menu.  A step between other screens (Quiet) keeps it    *)
(* because it leaves the file, the partial install and the types alone.    *)
(***************************************************************************)
EXTENDS FrontEnd, FiniteSetTheorems, WellFoundedInduction, TLAPS

(***************************************************************************)
(* Sets of places.                                                         *)
(***************************************************************************)
\* A set of naturals that is not empty has a least element.
LEMMA LeastNatural ==
    ASSUME NEW T, T \subseteq Nat, T # {}
    PROVE  \E m \in T : \A k \in T : m <= k
<1> DEFINE Below == {1..m : m \in T}
           R == StrictSubsetOrdering(Nat)
<1>1. IsWellFoundedOn(R, FiniteSubsetsOf(Nat))
  BY FS_StrictSubsetOrderingWellFounded
<1>2. Below \subseteq FiniteSubsetsOf(Nat) /\ Below # {}
  <2>1. ASSUME NEW m \in T PROVE 1..m \in FiniteSubsetsOf(Nat)
    <3>1. IsFiniteSet(1..m) /\ 1..m \subseteq Nat
      BY FS_Interval
    <3> QED BY <3>1 DEF FiniteSubsetsOf
  <2> QED BY <2>1
<1> HIDE DEF R
<1>3. PICK x \in Below : \A y \in Below : <<y, x>> \notin R
  BY <1>1, <1>2, WFMin
<1>4. PICK m \in T : x = 1..m
  BY <1>3
<1>5. ASSUME NEW k \in T, k < m PROVE FALSE
  <2>1. 1..k \subseteq 1..m /\ m \in 1..m /\ m \notin 1..k
    BY <1>5
  <2>2. <<1..k, x>> \in R
    BY <1>4, <2>1 DEF R, StrictSubsetOrdering
  <2> QED BY <1>3, <2>2
<1> QED BY <1>4, <1>5

\* The n-th of a set of places is one of them.
Ranked(S, i) == {j \in S : j <= i}
LEMMA NthPlace ==
    ASSUME NEW N \in Nat, NEW S, S \subseteq 1..N, NEW n \in Nat \ {0}, ~(Cardinality(S) < n)
    PROVE  \E i \in S : Cardinality(Ranked(S, i)) = n
<1> DEFINE Upto(m) == {j \in S : j <= m}
           T == {m \in 0..N : Cardinality(Upto(m)) >= n}
<1>0. \A j \in S : j \in Nat /\ 1 <= j /\ j <= N
  OBVIOUS
<1>1. IsFiniteSet(S) /\ \A m \in 0..N : IsFiniteSet(Upto(m)) /\ Cardinality(Upto(m)) \in Nat
  <2>1. IsFiniteSet(S)
    <3>1. IsFiniteSet(1..N)
      BY FS_Interval
    <3> QED BY <3>1, FS_Subset
  <2>2. ASSUME NEW m \in 0..N PROVE IsFiniteSet(Upto(m)) /\ Cardinality(Upto(m)) \in Nat
    <3>1. Upto(m) \subseteq S
      OBVIOUS
    <3> QED BY <2>1, <3>1, FS_Subset, FS_CardinalityType
  <2> QED BY <2>1, <2>2
<1>2. N \in T
  <2>1. Upto(N) = S
    BY <1>0
  <2>2. Cardinality(S) \in Nat
    BY <1>1, FS_CardinalityType
  <2> QED BY <2>1, <2>2
<1>3. PICK m \in T : \A k \in T : m <= k
  <2>1. T \subseteq Nat
    OBVIOUS
  <2>2. T # {}
    <3> HIDE DEF T
    <3> QED BY <1>2
  <2> HIDE DEF T
  <2> QED BY <2>1, <2>2, LeastNatural
<1>4. m # 0
  <2>1. Upto(0) = {}
    <3>1. \A j \in S : ~(j <= 0)
      BY <1>0
    <3> QED BY <3>1
  <2> QED BY <1>3, <2>1, FS_EmptySet
<1>5. m - 1 \in 0..N /\ Cardinality(Upto(m - 1)) < n
  <2>1. m \in 0..N /\ m - 1 \in 0..N
    BY <1>3, <1>4
  <2>2. m - 1 \notin T
    <3> HIDE DEF T
    <3> QED BY <1>3, <2>1
  <2>3. Cardinality(Upto(m - 1)) \in Nat /\ ~(Cardinality(Upto(m - 1)) >= n)
    BY <1>1, <2>1, <2>2
  <2> HIDE DEF Upto
  <2> QED BY <2>1, <2>3
<1>6. m \in S
  <2> SUFFICES ASSUME m \notin S PROVE FALSE
    OBVIOUS
  <2>1. Upto(m) = Upto(m - 1)
    <3>1. \A j \in S : j <= m <=> j <= m - 1
      BY <1>0, <1>3
    <3> QED BY <3>1
  <2> QED BY <1>1, <1>3, <1>5, <2>1
<1>7. Upto(m) = Upto(m - 1) \cup {m} /\ m \notin Upto(m - 1)
  <2>1. \A j \in S : (j <= m <=> j <= m - 1 \/ j = m)
    BY <1>0, <1>3
  <2>2. m \in Nat
    BY <1>3
  <2>3. Upto(m) = Upto(m - 1) \cup {m}
    <3>1. m \in Upto(m)
      BY <1>6, <2>2
    <3>2. \A j : j \in Upto(m) <=> j \in Upto(m - 1) \/ j = m
      BY <2>1, <3>1
    <3> HIDE DEF Upto
    <3> QED BY <3>2
  <2>4. ~(m <= m - 1)
    BY <2>2
  <2> QED BY <2>3, <2>4
<1>8. Cardinality(Upto(m)) = Cardinality(Upto(m - 1)) + 1
  BY <1>1, <1>5, <1>7, FS_AddElement
<1>9. Cardinality(Upto(m)) = n
  <2>1. Cardinality(Upto(m)) >= n /\ Cardinality(Upto(m - 1)) \in Nat
    BY <1>1, <1>3, <1>5
  <2> HIDE DEF Upto
  <2> QED BY <1>5, <1>8, <2>1
<1>10. Ranked(S, m) = Upto(m)
  BY DEF Ranked
<1> HIDE DEF Upto
<1> QED BY <1>6, <1>9, <1>10

\* The highlighted rows of a menu that is searched or moved about in come from these two.
LEMMA LeastIs == ASSUME NEW S, S \subseteq Nat, S # {} PROVE Least(S) \in S
  BY LeastNatural DEF Least

LEMMA GreatestIs == ASSUME NEW N \in Nat, NEW S, S \subseteq 0..N, S # {} PROVE Greatest(S) \in S
<1> DEFINE T == {N - x : x \in S}
<1>1. T \subseteq Nat /\ T # {}
  <2>1. ASSUME NEW x \in S PROVE N - x \in Nat
    <3>1. x \in 0..N
      OBVIOUS
    <3> QED BY <3>1
  <2> QED BY <2>1
<1>2. PICK t \in T : \A u \in T : t <= u
  <2> HIDE DEF T
  <2> QED BY <1>1, LeastNatural
<1>3. PICK x \in S : t = N - x
  BY <1>2
<1>4. \A y \in S : x >= y
  <2>1. ASSUME NEW y \in S PROVE x >= y
    <3>1. N - y \in T
      OBVIOUS
    <3>2. t <= N - y
      BY <1>2, <3>1
    <3> QED BY <1>3, <3>2
  <2> QED BY <2>1
<1> QED BY <1>4 DEF Greatest

(***************************************************************************)
(* Menus.                                                                  *)
(***************************************************************************)
Ids == {"get started", "sites", "deploy", "new site", "doctor", "serve", "connect host",
        "new host", "settings", "preview", "open site", "fix project", "help", "exit", "separator"}
Keys == {"g", "s", "d", "n", "c", "v", "t", "u", "i", "h", "x", "p", "o", "f", "none"}
AnyItem == [id : Ids, key : Keys, has : SUBSET {"e", "v"}]
Menus == [items : Seq(AnyItem), searching : BOOLEAN, query : SUBSET Letters,
          visible : Seq(Nat), selected : Nat, top : Int, rows : Nat \ {0}]

\* Without a search all items are visible, with one no more than those.  A row is highlighted
\* that is there, and that an item has once the search ends: the first one, which can be
\* chosen, when nothing is found.
MenuOk(m) ==
    /\ m \in Menus
    /\ m.items # <<>> /\ Selectable(m.items[1])
    /\ m.query = {} => m.visible = [i \in DOMAIN m.items |-> i]
    /\ m.query # {} => m.searching
    /\ Len(m.visible) <= Len(m.items)
    /\ m.selected \in DOMAIN m.visible \/ (m.visible = <<>> /\ m.selected = 1)

InView(m) == m.selected \in Drawn(m)

\* A row that cannot be chosen is highlighted only where it was so before, or where a search
\* of which another hit than the first was highlighted has ended.
Strays(m, n) ==
    n.visible # <<>> =>
        \/ n.selected \in SelectableRows(n)
        \/ /\ m.visible # <<>> /\ n.selected = m.selected
           /\ m.selected \in SelectableRows(m) => m.selected > 1 /\ m.query # {} /\ n.query = {}

\* The rows that can be chosen are row numbers.
LEMMA RowsAre ==
    ASSUME NEW m \in Menus
    PROVE  /\ Len(m.visible) \in Nat /\ DOMAIN m.visible = 1..Len(m.visible)
           /\ SelectableRows(m) \subseteq 1..Len(m.visible) /\ SelectableRows(m) \subseteq Nat
<1>1. m.visible \in Seq(Nat)
  BY DEF Menus
<1>2. Len(m.visible) \in Nat /\ DOMAIN m.visible = 1..Len(m.visible)
  BY <1>1
<1>3. SelectableRows(m) \subseteq 1..Len(m.visible)
  BY <1>2 DEF SelectableRows
<1> QED BY <1>2, <1>3

\* What a search finds is visible, all of it can be chosen, and a row at a time.
LEMMA HitsAre ==
    ASSUME NEW m, m.items \in Seq(AnyItem)
    PROVE  LET hits == Hits(m)
           IN  /\ Cardinality(hits) \in Nat /\ Cardinality(hits) <= Len(m.items)
               /\ \A v \in 1..Cardinality(hits) : Nth(hits, v) \in hits
               /\ hits \subseteq DOMAIN m.items
<1> DEFINE hits == Hits(m)
           N == Len(m.items)
<1>1. N \in Nat /\ DOMAIN m.items = 1..N
  OBVIOUS
<1>2. hits \subseteq 1..N
  BY <1>1 DEF Hits
<1> HIDE DEF hits, N
<1>3. IsFiniteSet(hits) /\ Cardinality(hits) \in Nat /\ Cardinality(hits) <= N
  <2>1. IsFiniteSet(1..N) /\ Cardinality(1..N) = N
    BY <1>1, FS_Interval
  <2>2. IsFiniteSet(hits) /\ Cardinality(hits) <= Cardinality(1..N)
    BY <1>2, <2>1, FS_Subset
  <2> QED BY <2>1, <2>2, FS_CardinalityType
<1>4. ASSUME NEW v \in 1..Cardinality(hits) PROVE Nth(hits, v) \in hits
  <2>1. v \in Nat \ {0} /\ ~(Cardinality(hits) < v)
    BY <1>3
  <2>2. \E i \in hits : Cardinality(Ranked(hits, i)) = v
    BY <1>1, <1>2, <2>1, NthPlace
  <2> QED BY <2>2 DEF Nth, Ranked
<1>5. hits \subseteq DOMAIN m.items
  BY <1>1, <1>2
<1> QED BY <1>3, <1>4, <1>5 DEF hits, N

\* A filter leaves a menu whole: without a search the highlighted row stays, a search
\* highlights a row that can be chosen.
LEMMA FilteredOk ==
    ASSUME NEW m \in Menus, m.items # <<>>, Selectable(m.items[1]),
           m.query = {} => m.selected \in DOMAIN m.items,
           m.query # {} => m.searching
    PROVE  LET f == Filtered(m)
           IN  /\ MenuOk(f) /\ f.items = m.items /\ f.query = m.query
               /\ m.query = {} => f.selected = m.selected
               /\ m.query # {} /\ f.visible # <<>> => f.selected \in SelectableRows(f)
<1>0. m.items \in Seq(AnyItem) /\ Len(m.items) \in Nat /\ DOMAIN m.items = 1..Len(m.items)
  BY DEF Menus
<1>1. CASE m.query = {}
  <2> DEFINE all == [i \in DOMAIN m.items |-> i]
             n == [m EXCEPT !.visible = all]
  <2>1. Filtered(m) = n
    BY <1>1 DEF Filtered
  <2>2. all \in Seq(Nat) /\ Len(all) = Len(m.items) /\ DOMAIN all = DOMAIN m.items
    <3>1. all = [i \in 1..Len(m.items) |-> i]
      BY <1>0
    <3>2. \A i \in 1..Len(m.items) : i \in Nat
      OBVIOUS
    <3> QED BY <1>0, <3>1, <3>2
  <2>3. /\ n \in Menus /\ n.items = m.items /\ n.query = m.query /\ n.visible = all
        /\ n.selected = m.selected
    <3> HIDE DEF all
    <3> QED BY <2>2 DEF Menus
  <2>4. n.visible = [i \in DOMAIN n.items |-> i]
    BY <2>3
  <2> HIDE DEF n, all
  <2>5. n.selected \in DOMAIN n.visible /\ Len(n.visible) <= Len(n.items)
    BY <1>0, <1>1, <2>2, <2>3
  <2> QED BY <1>1, <2>1, <2>3, <2>4, <2>5 DEF MenuOk
<1>2. CASE m.query # {}
  <2> DEFINE hits == Hits(m)
             found == [v \in 1..Cardinality(hits) |-> Nth(hits, v)]
             n == [m EXCEPT !.visible = found]
             first == IF n.visible = <<>> THEN 1 ELSE Least(SelectableRows(n))
  <2>1. Filtered(m) = [n EXCEPT !.selected = first]
    BY <1>2 DEF Filtered
  <2>2. /\ Cardinality(hits) \in Nat /\ Cardinality(hits) <= Len(m.items)
        /\ \A v \in 1..Cardinality(hits) : Nth(hits, v) \in hits
        /\ \A i \in hits : i \in Nat /\ Selectable(m.items[i])
    <3>1. /\ Cardinality(hits) \in Nat /\ Cardinality(hits) <= Len(m.items)
          /\ \A v \in 1..Cardinality(hits) : Nth(hits, v) \in hits
          /\ hits \subseteq DOMAIN m.items
      BY <1>0, HitsAre
    <3>2. \A i \in hits : Selectable(m.items[i])
      BY DEF Hits
    <3> HIDE DEF hits
    <3> QED BY <1>0, <3>1, <3>2
  <2> HIDE DEF hits
  <2>3. found \in Seq(Nat) /\ DOMAIN found = 1..Cardinality(hits) /\ Len(found) = Cardinality(hits)
        /\ \A v \in DOMAIN found : Selectable(m.items[found[v]])
    BY <2>2
  <2> HIDE DEF found
  <2>4. /\ n \in Menus /\ n.items = m.items /\ n.query = m.query /\ n.visible = found
        /\ n.searching = m.searching
    BY <2>3 DEF Menus
  <2> HIDE DEF n
  <2>5. first = 1 /\ (found # <<>> => 1 \in DOMAIN found)
    <3>1. CASE found = <<>>
      BY <2>4, <3>1
    <3>2. CASE found # <<>>
      <4>1. SelectableRows(n) = DOMAIN found
        BY <2>3, <2>4 DEF SelectableRows
      <4>2. Cardinality(hits) # 0
        BY <2>3, <3>2
      <4>3. SelectableRows(n) = 1..Cardinality(hits) /\ 1 \in SelectableRows(n)
        BY <2>2, <2>3, <4>1, <4>2
      <4>4. Least(SelectableRows(n)) = 1
        BY <2>2, <4>3 DEF Least
      <4> QED BY <2>4, <3>2, <4>1, <4>3, <4>4
    <3> QED BY <3>1, <3>2
  <2> HIDE DEF first
  <2> DEFINE r == [n EXCEPT !.selected = 1]
  <2>6. /\ r \in Menus /\ r.items = m.items /\ r.query = m.query /\ r.visible = found
        /\ r.searching = m.searching /\ r.selected = 1
    BY <2>4 DEF Menus
  <2>7. found # <<>> => 1 \in SelectableRows(r)
    <3> HIDE DEF r
    <3> QED BY <2>3, <2>5, <2>6 DEF SelectableRows
  <2>8. Filtered(m) = r
    BY <2>1, <2>5
  <2> HIDE DEF r
  <2>9. Len(r.visible) <= Len(r.items)
    BY <2>2, <2>3, <2>6
  <2> QED BY <1>2, <2>5, <2>6, <2>7, <2>8, <2>9 DEF MenuOk
<1> QED BY <1>1, <1>2

\* A menu without a search shows all its items.
LEMMA AllVisible ==
    ASSUME NEW m, MenuOk(m), m.query = {}
    PROVE  /\ DOMAIN m.visible = DOMAIN m.items /\ \A v \in DOMAIN m.visible : m.visible[v] = v
           /\ SelectableRows(m) = {v \in DOMAIN m.items : Selectable(m.items[v])}
           /\ 1 \in SelectableRows(m) /\ m.visible # <<>> /\ m.selected \in DOMAIN m.items
<1>1. m.items \in Seq(AnyItem) /\ m.items # <<>> /\ m.visible = [i \in DOMAIN m.items |-> i]
  BY DEF MenuOk, Menus
<1>2. DOMAIN m.visible = DOMAIN m.items /\ \A v \in DOMAIN m.visible : m.visible[v] = v
  BY <1>1
<1>3. 1 \in DOMAIN m.items /\ m.visible # <<>>
  <2>1. 1 \in DOMAIN m.items
    BY <1>1
  <2> QED BY <1>2, <2>1
<1>4. SelectableRows(m) = {v \in DOMAIN m.items : Selectable(m.items[v])}
  BY <1>2 DEF SelectableRows
<1> QED BY <1>2, <1>3, <1>4 DEF MenuOk

\* Highlighting another row that can be chosen, or none other.
LEMMA MovedOk ==
    ASSUME NEW m, MenuOk(m), NEW v \in SelectableRows(m)
    PROVE  LET n == [m EXCEPT !.selected = v] IN MenuOk(n) /\ Strays(m, n)
<1> DEFINE n == [m EXCEPT !.selected = v]
<1>1. m \in Menus /\ v \in Nat /\ v \in DOMAIN m.visible
  BY RowsAre DEF MenuOk, SelectableRows
<1>2. /\ n \in Menus /\ n.items = m.items /\ n.query = m.query /\ n.visible = m.visible
      /\ n.selected = v /\ n.searching = m.searching
  BY <1>1 DEF Menus
<1> HIDE DEF n
<1>3. v \in SelectableRows(n)
  BY <1>2 DEF SelectableRows
<1>4. MenuOk(n) /\ Strays(m, n)
  BY <1>1, <1>2, <1>3 DEF MenuOk, Strays
<1> QED BY <1>4 DEF n

LEMMA UnmovedOk == ASSUME NEW m PROVE Strays(m, m)
  BY DEF Strays

\* Whatever is highlighted is drawn, with any number of rows.
LEMMA ShownOk ==
    ASSUME NEW m, MenuOk(m)
    PROVE  LET s == Shown(m)
           IN  /\ MenuOk(s) /\ InView(s)
               /\ s.selected = m.selected /\ s.query = m.query /\ s.visible = m.visible
               /\ SelectableRows(s) = SelectableRows(m)
<1> DEFINE t == IF m.selected < m.top THEN m.selected
                ELSE IF m.selected >= m.top + m.rows THEN m.selected - m.rows + 1
                ELSE m.top
           n == [m EXCEPT !.top = t]
<1>1. m.selected \in Nat /\ m.top \in Int /\ m.rows \in Nat /\ m.rows # 0
  BY DEF MenuOk, Menus
<1>2. t \in Int /\ m.selected \in t .. t + m.rows - 1
  BY <1>1
<1> HIDE DEF t
<1>3. /\ n \in Menus /\ n.items = m.items /\ n.query = m.query /\ n.visible = m.visible
      /\ n.selected = m.selected /\ n.searching = m.searching /\ n.top = t /\ n.rows = m.rows
  BY <1>2 DEF MenuOk, Menus
<1>4. Shown(m) = n
  BY DEF Shown, t
<1> HIDE DEF n
<1>5. SelectableRows(n) = SelectableRows(m)
  BY <1>3 DEF SelectableRows
<1>6. MenuOk(n)
  BY <1>3, <1>5 DEF MenuOk
<1>7. InView(n)
  BY <1>2, <1>3 DEF InView, Drawn
<1> QED BY <1>3, <1>4, <1>5, <1>6, <1>7

LEMMA ResizedOk ==
    ASSUME NEW m, MenuOk(m), NEW rows \in Nat \ {0}
    PROVE  MenuOk(Resized(m, rows)) /\ InView(Resized(m, rows)) /\ Strays(m, Resized(m, rows))
<1> DEFINE n == [m EXCEPT !.rows = rows]
<1>1. /\ n \in Menus /\ n.items = m.items /\ n.query = m.query /\ n.visible = m.visible
      /\ n.selected = m.selected /\ n.searching = m.searching
  BY DEF MenuOk, Menus
<1> HIDE DEF n
<1>2. SelectableRows(n) = SelectableRows(m)
  BY <1>1 DEF SelectableRows
<1>3. MenuOk(n)
  BY <1>1, <1>2 DEF MenuOk
<1> QED BY <1>1, <1>2, <1>3, ShownOk DEF Resized, Strays, n

\* The end of a search keeps the number of the highlighted row.
LEMMA EndedOk ==
    ASSUME NEW m, MenuOk(m), NEW on \in BOOLEAN
    PROVE  LET n == Filtered([m EXCEPT !.searching = on, !.query = {}])
           IN  MenuOk(n) /\ Strays(m, n)
<1> DEFINE blank == [m EXCEPT !.searching = on, !.query = {}]
           n == Filtered(blank)
<1>1. m \in Menus /\ m.items # <<>> /\ Selectable(m.items[1])
  BY DEF MenuOk
<1>2. /\ m.items \in Seq(AnyItem) /\ 1 \in DOMAIN m.items
      /\ m.selected \in DOMAIN m.items
  <2>1. m.items \in Seq(AnyItem) /\ m.visible \in Seq(Nat)
    BY <1>1 DEF Menus
  <2>2. 1 \in DOMAIN m.items /\ DOMAIN m.visible \subseteq DOMAIN m.items
    BY <1>1, <2>1 DEF MenuOk
  <2> QED BY <2>1, <2>2 DEF MenuOk
<1>3. /\ blank \in Menus /\ blank.items = m.items /\ blank.query = {} /\ blank.selected = m.selected
  BY <1>1 DEF Menus
<1> HIDE DEF blank
<1>4. MenuOk(n) /\ n.items = m.items /\ n.query = {} /\ n.selected = m.selected
  BY <1>1, <1>2, <1>3, FilteredOk
<1> HIDE DEF n
<1>5. 1 \in SelectableRows(n) /\ SelectableRows(n) = {v \in DOMAIN m.items : Selectable(m.items[v])}
  BY <1>4, AllVisible
<1>6. Strays(m, n)
  <2>1. CASE m.query = {}
    <3>1. SelectableRows(m) = SelectableRows(n) /\ m.visible # <<>>
      BY <1>5, <2>1, AllVisible
    <3> QED BY <1>4, <3>1 DEF Strays
  <2>2. CASE m.selected = 1
    BY <1>4, <1>5, <2>2 DEF Strays
  <2>3. CASE m.query # {} /\ m.selected # 1
    <3>1. m.visible # <<>> /\ m.selected \in DOMAIN m.visible
      BY <2>3 DEF MenuOk
    <3>2. m.selected > 1
      <4>1. m.selected \in Nat /\ m.selected # 0
        BY <1>1, <3>1, RowsAre
      <4> QED BY <2>3, <4>1
    <3> QED BY <1>4, <2>3, <3>1, <3>2 DEF Strays
  <2> QED BY <2>1, <2>2, <2>3
<1> QED BY <1>4, <1>6 DEF n, blank

\* A key of a search: it ends, or its text changes.
LEMMA InSearchOk ==
    ASSUME NEW m, MenuOk(m), m.searching, NEW n \in InSearch(m, Letters)
    PROVE  MenuOk(n) /\ Strays(m, n)
<1> DEFINE longer(c) == [m EXCEPT !.query = @ \cup {c}]
<1>1. m \in Menus /\ m.items # <<>> /\ Selectable(m.items[1])
  BY DEF MenuOk
<1>2. MenuOk(SearchClose(m)) /\ Strays(m, SearchClose(m))
  BY EndedOk DEF SearchClose
<1>3. MenuOk(SearchBackspace(m)) /\ Strays(m, SearchBackspace(m))
  <2>1. [m EXCEPT !.query = {}] = [m EXCEPT !.searching = TRUE, !.query = {}]
    BY <1>1 DEF Menus
  <2> QED BY <2>1, EndedOk DEF SearchBackspace
<1>4. ASSUME NEW c \in Letters PROVE MenuOk(SearchAppend(m, c)) /\ Strays(m, SearchAppend(m, c))
  <2>1. /\ longer(c) \in Menus /\ longer(c).items = m.items /\ longer(c).query # {}
        /\ longer(c).searching
    BY <1>1 DEF Menus
  <2>2. SearchAppend(m, c) = m \/ SearchAppend(m, c) = Filtered(longer(c))
    BY DEF SearchAppend
  <2> HIDE DEF longer
  <2>3. MenuOk(Filtered(longer(c))) /\ Strays(m, Filtered(longer(c)))
    BY <1>1, <2>1, FilteredOk DEF Strays
  <2> QED BY <2>2, <2>3, UnmovedOk
<1> QED BY <1>2, <1>3, <1>4 DEF InSearch

\* Up, down or the wheel, which goes round, also among the hits of a search.
LEMMA StepOk ==
    ASSUME NEW m, MenuOk(m), NEW direction \in {1, -1}
    PROVE  MenuOk(Step(m, direction)) /\ Strays(m, Step(m, direction))
<1> DEFINE S == SelectableRows(m)
           N == Len(m.visible)
           row(k) == ((m.selected - 1 + direction * k) % N) + 1
           able == {k \in 1..N : row(k) \in S}
<1>1. N \in Nat
  BY RowsAre DEF MenuOk
<1>2. Step(m, direction) = IF able = {} THEN m ELSE [m EXCEPT !.selected = row(Least(able))]
  BY DEF Step
<1>3. CASE able = {}
  BY <1>2, <1>3, UnmovedOk
<1>4. CASE able # {}
  <2>1. able \subseteq Nat
    BY <1>1
  <2> HIDE DEF able
  <2>2. Least(able) \in able
    BY <1>4, <2>1, LeastIs
  <2>3. row(Least(able)) \in S
    BY <2>2 DEF able
  <2> HIDE DEF row
  <2> QED BY <1>2, <1>4, <2>3, MovedOk
<1> QED BY <1>3, <1>4

\* The wheel and the clicks, with or without a search.
LEMMA MouseOk ==
    ASSUME NEW m, MenuOk(m), NEW n \in Mouse(m)
    PROVE  MenuOk(n) /\ Strays(m, n)
<1>1. ASSUME NEW v PROVE MenuOk(Clicked(m, v)) /\ Strays(m, Clicked(m, v))
  BY MovedOk, UnmovedOk DEF Clicked
<1> QED BY <1>1, StepOk DEF Mouse

\* A key of the menu itself: it moves to a row that can be chosen, or opens a search.
LEMMA MovesOk ==
    ASSUME NEW m, MenuOk(m), ~m.searching, NEW n \in Moves(m)
    PROVE  MenuOk(n) /\ Strays(m, n)
<1> DEFINE S == SelectableRows(m)
           N == Len(m.visible)
           Ok(k) == MenuOk(k) /\ Strays(m, k)
<1>1. m \in Menus /\ m.query = {} /\ m.items # <<>> /\ Selectable(m.items[1])
  BY DEF MenuOk
<1>2. N \in Nat /\ S \subseteq 1..N /\ S \subseteq Nat /\ S \subseteq 0..N
  <2>1. N \in Nat /\ S \subseteq 1..N /\ S \subseteq Nat
    BY <1>1, RowsAre
  <2>2. 1..N \subseteq 0..N
    BY <2>1
  <2> QED BY <2>1, <2>2
<1>3. Ok(m) /\ \A v \in S : Ok([m EXCEPT !.selected = v])
  BY MovedOk, UnmovedOk
<1>4. DOMAIN m.visible = DOMAIN m.items /\ \A v \in DOMAIN m.visible : m.visible[v] = v
  BY <1>1, AllVisible
<1>5. ASSUME NEW direction \in {1, -1} PROVE Ok(Step(m, direction))
  BY StepOk
<1>11. Ok(SearchOpen(m))
  BY EndedOk DEF SearchOpen
<1> HIDE DEF S, N, Ok
<1>6. Ok(Home(m)) /\ Ok(End(m))
  <2>1. CASE S = {}
    BY <1>3, <2>1 DEF Home, End, S
  <2>2. CASE S # {}
    <3>1. Least(S) \in S
      BY <1>2, <2>2, LeastIs
    <3>2. Greatest(S) \in S
      BY <1>2, <2>2, GreatestIs
    <3>3. Home(m) = [m EXCEPT !.selected = Least(S)] /\ End(m) = [m EXCEPT !.selected = Greatest(S)]
      BY <2>2 DEF Home, End, S
    <3> QED BY <1>3, <3>1, <3>2, <3>3
  <2> QED BY <2>1, <2>2
<1>7. ASSUME NEW direction \in {1, -1} PROVE Ok(Page(m, direction))
  <2> DEFINE ahead == {v \in S : direction * (v - m.selected) > 0}
             near(v) == {u \in ahead : direction * (v - u) >= 0}
             reached == {v \in ahead : Cardinality(near(v)) <= m.rows}
             far == IF direction > 0 THEN Greatest(reached) ELSE Least(reached)
  <2>1. Page(m, direction) = IF reached = {} THEN m ELSE [m EXCEPT !.selected = far]
    BY DEF Page, S
  <2>2. reached \subseteq S
    OBVIOUS
  <2> HIDE DEF reached
  <2>3. CASE reached = {}
    BY <1>3, <2>1, <2>3
  <2>4. CASE reached # {}
    <3>1. reached \subseteq Nat /\ reached \subseteq 0..N
      BY <1>2, <2>2
    <3>2. Least(reached) \in reached
      BY <2>4, <3>1, LeastIs
    <3>3. Greatest(reached) \in reached
      BY <1>2, <2>4, <3>1, GreatestIs
    <3>4. far \in S
      BY <2>2, <3>2, <3>3
    <3> HIDE DEF far
    <3> QED BY <1>3, <2>1, <2>4, <3>4
  <2> QED BY <2>3, <2>4
<1>9. ASSUME NEW k \in 1..9 PROVE Ok(NumericJump(m, k))
  <2>1. CASE RowForNumber(m, k) = {}
    BY <1>3, <2>1 DEF NumericJump
  <2>2. CASE RowForNumber(m, k) # {}
    <3> DEFINE v == CHOOSE u \in RowForNumber(m, k) : TRUE
    <3>1. v \in RowForNumber(m, k)
      BY <2>2
    <3>2. v \in S
      BY <3>1 DEF RowForNumber, S
    <3>3. NumericJump(m, k) = [m EXCEPT !.selected = v]
      BY <2>2 DEF NumericJump
    <3> HIDE DEF v
    <3> QED BY <1>3, <3>2, <3>3
  <2> QED BY <2>1, <2>2
<1>10. ASSUME NEW c, Cardinality(WithMnemonic(m, c)) > 1 PROVE Ok(NextMnemonic(m, c))
  <2> DEFINE rows == {v \in DOMAIN m.visible : m.visible[v] \in WithMnemonic(m, c)}
             later == {v \in rows : v > m.selected}
             next == IF later = {} THEN rows ELSE later
  <2>1. rows # {}
    <3>1. WithMnemonic(m, c) # {}
      BY <1>10, FS_EmptySet
    <3>2. PICK i \in WithMnemonic(m, c) : TRUE
      BY <3>1
    <3>3. i \in DOMAIN m.items
      BY <3>2 DEF WithMnemonic
    <3> QED BY <1>4, <3>2, <3>3
  <2>2. rows \subseteq S
    BY DEF WithMnemonic, S, SelectableRows
  <2>3. next \subseteq S /\ next # {}
    BY <2>1, <2>2
  <2>4. NextMnemonic(m, c) = [m EXCEPT !.selected = Least(next)]
    BY DEF NextMnemonic
  <2> HIDE DEF next
  <2>5. Least(next) \in next
    BY <1>2, <2>3, LeastIs
  <2> QED BY <1>3, <2>3, <2>4, <2>5
<1> QED BY <1>5, <1>6, <1>7, <1>9, <1>10, <1>11 DEF Moves, Ok

\* What is on the screen after a key or a mouse event.
LEMMA KeyedOk ==
    ASSUME NEW m, MenuOk(m), NEW n \in Keyed(m, Letters)
    PROVE  MenuOk(n) /\ InView(n) /\ Strays(m, n)
<1>1. PICK k \in Mouse(m) \cup (IF m.searching THEN InSearch(m, Letters) ELSE Moves(m)) : n = Shown(k)
  BY DEF Keyed
<1>2. MenuOk(k) /\ Strays(m, k)
  <2>1. CASE k \in Mouse(m)
    BY <2>1, MouseOk
  <2>2. CASE m.searching /\ k \in InSearch(m, Letters)
    BY <2>2, InSearchOk
  <2>3. CASE ~m.searching /\ k \in Moves(m)
    BY <2>3, MovesOk
  <2> QED BY <1>1, <2>1, <2>2, <2>3
<1>3. MenuOk(n) /\ InView(n) /\ n.selected = k.selected /\ n.query = k.query
      /\ n.visible = k.visible /\ SelectableRows(n) = SelectableRows(k)
  BY <1>1, <1>2, ShownOk
<1> QED BY <1>2, <1>3 DEF Strays

\* A menu opens on an item that can be chosen.
LEMMA OpenedOk ==
    ASSUME NEW items \in Seq(AnyItem), items # <<>>, Selectable(items[1]),
           NEW default \in DOMAIN items, Selectable(items[default]), NEW rows \in Nat \ {0}
    PROVE  LET o == Opened(items, default, rows) IN MenuOk(o) /\ o.selected \in SelectableRows(o)
<1> DEFINE m == [items |-> items, searching |-> FALSE, query |-> {}, visible |-> <<>>,
                 selected |-> default, top |-> 1, rows |-> rows]
           o == Filtered(m)
<1>1. default \in Nat
  OBVIOUS
<1>2. m \in Menus
  <2>1. <<>> \in Seq(Nat) /\ {} \in SUBSET Letters
    OBVIOUS
  <2> QED BY <1>1, <2>1 DEF Menus
<1>3. MenuOk(o) /\ o.items = items /\ o.query = {} /\ o.selected = default
  BY <1>2, FilteredOk
<1>4. Opened(items, default, rows) = o
  BY DEF Opened
<1> HIDE DEF o
<1>5. o.selected \in SelectableRows(o)
  BY <1>3, AllVisible
<1> QED BY <1>3, <1>4, <1>5

\* A dashboard's items, in order.
LEMMA TwelveItems ==
    ASSUME NEW S, NEW a \in S, NEW b \in S, NEW c \in S, NEW d \in S, NEW e \in S, NEW f \in S,
           NEW g \in S, NEW h \in S, NEW i \in S, NEW j \in S, NEW k \in S, NEW l \in S
    PROVE  LET s == <<a, b, c, d, e, f, g, h, i, j, k, l>>
           IN  s \in Seq(S) /\ s # <<>> /\ 1 \in DOMAIN s /\ 2 \in DOMAIN s /\ s[1] = a /\ s[2] = b
<1> DEFINE s == <<a, b, c, d, e, f, g, h, i, j, k, l>>
<1>1. s \in Seq(S)
  OBVIOUS
<1>2. Len(s) = 12
  OBVIOUS
<1>3. s[1] = a /\ s[2] = b
  OBVIOUS
<1> HIDE DEF s
<1>4. DOMAIN s = 1..12
  BY <1>1, <1>2
<1>5. s # <<>>
  <2>1. 1 \in DOMAIN s
    BY <1>4
  <2> QED BY <2>1
<1> QED BY <1>1, <1>3, <1>4, <1>5 DEF s

LEMMA ElevenItems ==
    ASSUME NEW S, NEW a \in S, NEW b \in S, NEW c \in S, NEW d \in S, NEW e \in S, NEW f \in S,
           NEW g \in S, NEW h \in S, NEW i \in S, NEW j \in S, NEW k \in S
    PROVE  LET s == <<a, b, c, d, e, f, g, h, i, j, k>>
           IN  s \in Seq(S) /\ s # <<>> /\ 1 \in DOMAIN s /\ 2 \in DOMAIN s /\ s[1] = a /\ s[2] = b
<1> DEFINE s == <<a, b, c, d, e, f, g, h, i, j, k>>
<1>1. s \in Seq(S)
  OBVIOUS
<1>2. Len(s) = 11
  OBVIOUS
<1>3. s[1] = a /\ s[2] = b
  OBVIOUS
<1> HIDE DEF s
<1>4. DOMAIN s = 1..11
  BY <1>1, <1>2
<1>5. s # <<>>
  <2>1. 1 \in DOMAIN s
    BY <1>4
  <2> QED BY <2>1
<1> QED BY <1>1, <1>3, <1>4, <1>5 DEF s

LEMMA DashboardOk ==
    ASSUME NEW rows \in Nat \ {0}
    PROVE  LET d == Dashboard(rows) IN MenuOk(d) /\ d.selected \in SelectableRows(d)
<1>1. \A id \in Ids, key \in Keys, has \in SUBSET {"e", "v"} :
         /\ Item(id, key, has) \in AnyItem
         /\ id # "separator" => Selectable(Item(id, key, has))
  BY DEF Item, AnyItem, Selectable, Separator
<1>2. Separator \in AnyItem
  BY DEF Item, AnyItem, Separator, Ids, Keys
<1>3. {{}, {"e"}, {"e", "v"}} \subseteq SUBSET {"e", "v"}
  OBVIOUS
<1>4. /\ no_project_menu \in Seq(AnyItem) /\ no_project_menu # <<>>
      /\ 1 \in DOMAIN no_project_menu /\ 2 \in DOMAIN no_project_menu
      /\ no_project_menu[1] = Item("get started", "g", {"e"})
      /\ no_project_menu[2] = Item("sites", "s", {"e"})
  <2>1. /\ Item("get started", "g", {"e"}) \in AnyItem /\ Item("sites", "s", {"e"}) \in AnyItem
        /\ Item("deploy", "d", {"e"}) \in AnyItem /\ Item("new site", "n", {"e"}) \in AnyItem
        /\ Item("doctor", "c", {}) \in AnyItem /\ Item("serve", "v", {"e", "v"}) \in AnyItem
    BY <1>1, <1>3 DEF Ids, Keys
  <2>2. /\ Item("connect host", "t", {"e"}) \in AnyItem /\ Item("new host", "u", {"e"}) \in AnyItem
        /\ Item("settings", "i", {"e"}) \in AnyItem
        /\ Item("help", "h", {"e"}) \in AnyItem /\ Item("exit", "x", {"e"}) \in AnyItem
    BY <1>1, <1>3 DEF Ids, Keys
  <2> QED BY <1>2, <2>1, <2>2, TwelveItems DEF no_project_menu
<1>5. /\ valid_project_menu \in Seq(AnyItem) /\ valid_project_menu # <<>>
      /\ 1 \in DOMAIN valid_project_menu /\ 2 \in DOMAIN valid_project_menu
      /\ valid_project_menu[1] = Item("preview", "p", {"e", "v"})
      /\ valid_project_menu[2] = Item("deploy", "d", {"e"})
  <2>1. /\ Item("preview", "p", {"e", "v"}) \in AnyItem /\ Item("deploy", "d", {"e"}) \in AnyItem
        /\ Item("open site", "o", {"e"}) \in AnyItem /\ Item("sites", "s", {"e"}) \in AnyItem
        /\ Item("new site", "n", {"e"}) \in AnyItem /\ Item("doctor", "c", {}) \in AnyItem
    BY <1>1, <1>3 DEF Ids, Keys
  <2>2. /\ Item("serve", "v", {"e", "v"}) \in AnyItem /\ Item("settings", "i", {"e"}) \in AnyItem
        /\ Item("get started", "g", {"e"}) \in AnyItem
        /\ Item("help", "h", {"e"}) \in AnyItem /\ Item("exit", "x", {"e"}) \in AnyItem
    BY <1>1, <1>3 DEF Ids, Keys
  <2> QED BY <1>2, <2>1, <2>2, TwelveItems DEF valid_project_menu
<1>6. /\ malformed_project_menu \in Seq(AnyItem) /\ malformed_project_menu # <<>>
      /\ 1 \in DOMAIN malformed_project_menu /\ 2 \in DOMAIN malformed_project_menu
      /\ malformed_project_menu[1] = Item("fix project", "f", {"e"})
      /\ malformed_project_menu[2] = Item("get started", "g", {"e"})
  <2>1. /\ Item("fix project", "f", {"e"}) \in AnyItem /\ Item("get started", "g", {"e"}) \in AnyItem
        /\ Item("sites", "s", {"e"}) \in AnyItem /\ Item("deploy", "d", {"e"}) \in AnyItem
        /\ Item("new site", "n", {"e"}) \in AnyItem /\ Item("doctor", "c", {}) \in AnyItem
    BY <1>1, <1>3 DEF Ids, Keys
  <2>2. /\ Item("serve", "v", {"e", "v"}) \in AnyItem /\ Item("settings", "i", {"e"}) \in AnyItem
        /\ Item("help", "h", {"e"}) \in AnyItem /\ Item("exit", "x", {"e"}) \in AnyItem
    BY <1>1, <1>3 DEF Ids, Keys
  <2> QED BY <1>2, <2>1, <2>2, ElevenItems DEF malformed_project_menu
<1>7. /\ Selectable(Item("get started", "g", {"e"})) /\ Selectable(Item("sites", "s", {"e"}))
      /\ Selectable(Item("preview", "p", {"e", "v"})) /\ Selectable(Item("fix project", "f", {"e"}))
  BY DEF Selectable, Separator, Item
<1>8. /\ Selectable(no_project_menu[1]) /\ Selectable(no_project_menu[2])
      /\ Selectable(valid_project_menu[1]) /\ Selectable(malformed_project_menu[1])
  BY <1>4, <1>5, <1>6, <1>7
<1> QED BY <1>4, <1>5, <1>6, <1>8, OpenedOk DEF Dashboard

(***************************************************************************)
(* Profiles and the file they are in.                                      *)
(***************************************************************************)
\* The first value that is there.
LEMMA FirstIs ==
    ASSUME NEW s, NEW n \in Nat, DOMAIN s = 1..n, NEW i \in 1..n, s[i] # None,
           \A j \in 1..(i - 1) : s[j] = None
    PROVE  First(s) = s[i]
<1> DEFINE Q(k) == s[k] # None /\ \A j \in 1..(k - 1) : s[j] = None
<1>1. Q(i)
  OBVIOUS
<1>2. ASSUME NEW k \in 1..n, Q(k) PROVE k = i
  BY <1>2
<1>3. i \in DOMAIN s /\ \A k \in DOMAIN s : Q(k) <=> k = i
  BY <1>1, <1>2
<1>4. First(s) = s[CHOOSE k \in DOMAIN s : Q(k)]
  BY DEF First
<1>5. (CHOOSE k \in DOMAIN s : Q(k)) = i
  <2> HIDE DEF Q
  <2> QED BY <1>3
<1> QED BY <1>4, <1>5

LEMMA FirstOf3 ==
    ASSUME NEW a, NEW b, NEW c
    PROVE  First(<<a, b, c>>) = IF a # None THEN a ELSE IF b # None THEN b ELSE c
<1> DEFINE s == <<a, b, c>>
<1>1. DOMAIN s = 1..3 /\ s[1] = a /\ s[2] = b /\ s[3] = c
  OBVIOUS
<1> HIDE DEF s
<1>2. CASE a # None
  <2>1. 1 \in 1..3 /\ s[1] # None /\ \A j \in 1..(1 - 1) : s[j] = None
    BY <1>1, <1>2
  <2>2. First(s) = s[1]
    BY <1>1, <2>1, FirstIs
  <2> QED BY <1>1, <1>2, <2>2 DEF s
<1>3. CASE a = None /\ b # None
  <2>1. 2 \in 1..3 /\ s[2] # None /\ \A j \in 1..(2 - 1) : s[j] = None
    BY <1>1, <1>3
  <2>2. First(s) = s[2]
    BY <1>1, <2>1, FirstIs
  <2> QED BY <1>1, <1>3, <2>2 DEF s
<1>4. CASE a = None /\ b = None /\ c # None
  <2>1. 3 \in 1..3 /\ s[3] # None /\ \A j \in 1..(3 - 1) : s[j] = None
    BY <1>1, <1>4
  <2>2. First(s) = s[3]
    BY <1>1, <2>1, FirstIs
  <2> QED BY <1>1, <1>4, <2>2 DEF s
<1>5. CASE a = None /\ b = None /\ c = None
  <2>1. ~ \E j \in DOMAIN s : s[j] # None
    BY <1>1, <1>5
  <2> QED BY <1>5, <2>1 DEF First, s
<1> QED BY <1>2, <1>3, <1>4, <1>5

\* What a file says is a configuration; what has been written can be read, and nothing is in
\* a file that a write has spoilt.
LEMMA LoadedIs ==
    /\ NoProfiles \in Config /\ Lost \subseteq File
    /\ \A f \in File : Loaded(f) \in Config
    /\ \A c \in Config : c \in File /\ Loaded(c) = c
<1>1. NoProfiles \in Config
  BY DEF NoProfiles, Config
<1>2. \A c \in Config : c \notin {NoFile, Malformed}
  BY FileAssumption
<1>3. Malformed \in File /\ NoProfiles \in File
  BY <1>1 DEF File
<1> QED BY <1>1, <1>2, <1>3 DEF Loaded, File, Lost

\* The form of a host screen: every field has a value, but for the domain.
Forms == [profile : Names, host : Hosts, domain : Domains \cup {None}, iap : Iaps]

\* What the save writes for a form: the profile in it changes, and no other one.
LEMMA WrittenIs ==
    ASSUME NEW c \in Config, NEW f \in Forms
    PROVE  /\ WrittenProfile(c, f) \in Config
           /\ \A n \in Names \ {f.profile} : WrittenProfile(c, f).profiles[n] = c.profiles[n]
           /\ WrittenProfile(c, f).profiles[f.profile] =
                 [ssh |-> f.host, url |-> Upserted(c, f.profile).url, iap |-> f.iap,
                  domain |-> IF f.domain = None THEN Upserted(c, f.profile).domain ELSE f.domain]
<1> DEFINE p == Upserted(c, f.profile)
           q == [p EXCEPT !.ssh = f.host, !.iap = f.iap,
                          !.domain = IF f.domain = None THEN @ ELSE f.domain]
           w == [c EXCEPT !.default = IF @ = None THEN f.profile ELSE @,
                          !.profiles[f.profile] = q]
<1>1. f.profile \in Names /\ f.host \in Hosts /\ f.domain \in Domains \cup {None} /\ f.iap \in Iaps
  BY DEF Forms
<1>2. c.default \in Names \cup {None} /\ c.profiles \in [Names -> Profile \cup {None}]
      /\ c = [default |-> c.default, profiles |-> c.profiles]
  BY DEF Config
<1>3. p \in Profile
  <2>1. BlankProfile \in Profile
    BY DEF BlankProfile, Profile
  <2> QED BY <1>1, <1>2, <2>1 DEF Upserted
<1> HIDE DEF p
<1>4. /\ q \in Profile
      /\ q = [ssh |-> f.host, url |-> p.url, iap |-> f.iap,
              domain |-> IF f.domain = None THEN p.domain ELSE f.domain]
  <2>1. /\ p = [ssh |-> p.ssh, domain |-> p.domain, url |-> p.url, iap |-> p.iap]
        /\ p.domain \in Domains \cup {None} /\ p.url \in Urls \cup {None}
    BY <1>3 DEF Profile
  <2>2. /\ q.ssh = f.host /\ q.url = p.url /\ q.iap = f.iap
        /\ q.domain = IF f.domain = None THEN p.domain ELSE f.domain
    BY <2>1
  <2>3. q \in Profile
    BY <1>1, <1>3, <2>1 DEF Profile
  <2>4. q = [ssh |-> q.ssh, domain |-> q.domain, url |-> q.url, iap |-> q.iap]
    <3> HIDE DEF q
    <3> QED BY <2>3 DEF Profile
  <2> HIDE DEF q
  <2> QED BY <2>2, <2>3, <2>4
<1>5. WrittenProfile(c, f) = w
  BY DEF WrittenProfile, p
<1> HIDE DEF q
<1>6. w.profiles = [c.profiles EXCEPT ![f.profile] = q] /\ w \in Config
  <2>1. w.profiles = [c.profiles EXCEPT ![f.profile] = q]
    BY <1>2
  <2>2. [c.profiles EXCEPT ![f.profile] = q] \in [Names -> Profile \cup {None}]
    BY <1>1, <1>2, <1>4
  <2>3. w \in Config
    BY <1>1, <1>2, <2>2 DEF Config
  <2> QED BY <2>1, <2>3
<1> HIDE DEF w
<1>7. w \in Config
  BY <1>6
<1>8. /\ \A n \in Names \ {f.profile} : w.profiles[n] = c.profiles[n]
      /\ w.profiles[f.profile] = q
  BY <1>1, <1>2, <1>6
<1> QED BY <1>4, <1>5, <1>7, <1>8 DEF p, q, w

\* The ways a save of a form ends.
LEMMA SavesAre ==
    ASSUME file \in File, NEW f \in Forms, NEW w \in WriteProfile(f)
    PROVE  \/ w[1] = "ok" /\ w[2] = WrittenProfile(Loaded(file), f)
           \/ w[1] = "error" /\ (w[2] = file \/ w[2] \in Lost)
  BY DEF WriteProfile, Write

\* The candidate that the doctor is given is the profile as a save to the file that is in
\* memory would leave it.
LEMMA CandidateIsWritten ==
    ASSUME mem \in Config, NEW f \in Forms
    PROVE  Candidate(f) = WrittenProfile(mem, f).profiles[f.profile]
<1>1. f.profile \in Names /\ f.profile # None
  BY ConfigAssumption DEF Forms
<1>2. Find(mem, f.profile) = mem.profiles[f.profile]
  BY <1>1 DEF Find
<1>3. CASE mem.profiles[f.profile] = None
  <2>1. Upserted(mem, f.profile) = BlankProfile
    BY <1>3 DEF Upserted
  <2>2. /\ WrittenProfile(mem, f).profiles[f.profile] =
            [ssh |-> f.host, url |-> BlankProfile.url, iap |-> f.iap,
             domain |-> IF f.domain = None THEN BlankProfile.domain ELSE f.domain]
    BY <2>1, WrittenIs
  <2> QED BY <1>2, <1>3, <2>2 DEF Candidate, BlankProfile
<1>4. CASE mem.profiles[f.profile] # None
  <2> DEFINE p == mem.profiles[f.profile]
  <2>1. Upserted(mem, f.profile) = p
    BY <1>4 DEF Upserted
  <2>2. WrittenProfile(mem, f).profiles[f.profile] =
            [ssh |-> f.host, url |-> p.url, iap |-> f.iap,
             domain |-> IF f.domain = None THEN p.domain ELSE f.domain]
    BY <2>1, WrittenIs
  <2>3. Candidate(f) = [ssh |-> f.host, domain |-> IF f.domain = None THEN p.domain ELSE f.domain,
                        url |-> p.url, iap |-> f.iap]
    BY <1>2, <1>4 DEF Candidate
  <2> QED BY <2>2, <2>3
<1> QED BY <1>3, <1>4

\* The doctor's plan for a candidate names the candidate's host, when QUICK_REMOTE is not set.
LEMMA PlanReaches ==
    ASSUME EnvRemote = None, NEW n \in Names, NEW p, p.ssh # None, NEW json, NEW base,
           NEW config, config.profiles[n] = p, p # None,
           NEW plan, plan = Resolve([NoOverrides EXCEPT !.profile = n], Env0, json, NoFile, base, config),
           plan.ok
    PROVE  plan.ssh = p.ssh
<1> DEFINE o == [NoOverrides EXCEPT !.profile = n]
           root == SiteRoot(json, NoFile)
           name == PlanProfile(o, Env0, root.config, config)
           site == PlanSite(o, Env0, root.config, base)
           subdomain == PlanSubdomain(o, root.config, site)
           profile == Find(config, name)
<1>1. n # None
  BY ConfigAssumption
<1>2. o.profile = n /\ o.remote = None /\ Env0.remote = None
  BY DEF NoOverrides, Env0
<1> HIDE DEF o, root
<1>3. name = n
  <2> DEFINE s == <<o.profile, Env0.profile, root.config.profile, config.default>>
  <2>1. DOMAIN s = 1..4 /\ s[1] = n
    BY <1>2
  <2> HIDE DEF s
  <2>2. 1 \in 1..4 /\ s[1] # None /\ \A j \in 1..(1 - 1) : s[j] = None
    BY <1>1, <2>1
  <2>3. First(s) = n
    BY <2>1, <2>2, FirstIs
  <2> QED BY <1>1, <2>3 DEF PlanProfile, s
<1>4. profile = p
  BY <1>1, <1>3 DEF Find
<1> HIDE DEF name
<1>5. PlanSsh(o, Env0, profile) = p.ssh
  BY <1>2, <1>4, FirstOf3 DEF PlanSsh
<1>6. plan = NoPlan \/ plan.ssh = PlanSsh(o, Env0, profile)
  <2> DEFINE yes == [ok |-> TRUE, root |-> root.at, profile |-> name, site |-> site,
                     subdomain |-> subdomain, ssh |-> PlanSsh(o, Env0, profile),
                     url |-> MakeUrl(subdomain, PlanDomain(Env0, profile),
                                     IF profile = None THEN None ELSE profile.url)]
  <2>1. plan = NoPlan \/ plan = yes
    BY DEF Resolve, o, root, name
  <2>2. yes.ssh = PlanSsh(o, Env0, profile)
    OBVIOUS
  <2> HIDE DEF yes
  <2> QED BY <2>1, <2>2
<1>7. plan # NoPlan
  BY DEF NoPlan
<1> QED BY <1>5, <1>6, <1>7

(***************************************************************************)
(* The model of the guided setup.                                          *)
(***************************************************************************)
LEMMA Restarts ==
    ASSUME NEW m \in Model, NEW s \in Steps, NEW flow \in Flows
    PROVE  Restart(m, s, flow) \in Model
  BY DEF Restart, Model

LEMMA MovesState ==
    ASSUME NEW m \in Model, NEW from, NEW to \in Steps
    PROVE  /\ Moved(m, from, to) \subseteq Model
           /\ \A n \in Moved(m, from, to) : n.flow = m.flow
  BY DEF Moved, Model

\* Every event leaves a state of the model; the one that confirms and the one that begins to
\* change things stay in their flow.
LEMMA Transitions ==
    ASSUME NEW m \in Model, NEW event
    PROVE  /\ Transition(m, event) \subseteq Model
           /\ event \in {"CONFIRM", "BEGIN_MUTATION"} => \A n \in Transition(m, event) : n.flow = m.flow
<1>0. m.state \in Steps /\ m.flow \in Flows /\ m.adopt \in BOOLEAN
  BY DEF Model
<1>1. CASE event = "SHOW_WELCOME"
  BY <1>0, <1>1, Restarts DEF Transition, Steps, Flows
<1>2. CASE event \in {"CHOOSE_LOCAL", "CHOOSE_ADOPT"}
  <2> DEFINE r == Restart(m, "LOCAL_DIRECTORY", "LOCAL")
  <2>1. r \in Model
    BY Restarts DEF Steps, Flows
  <2> HIDE DEF r
  <2>2. [r EXCEPT !.adopt = (event = "CHOOSE_ADOPT")] \in Model
    BY <2>1 DEF Model
  <2>3. Transition(m, event) \subseteq {[r EXCEPT !.adopt = (event = "CHOOSE_ADOPT")]}
    BY <1>2 DEF Transition, r
  <2> QED BY <1>2, <2>2, <2>3
<1>3. CASE event \in {"CHOOSE_CONNECT", "CHOOSE_INSTALL"}
  BY <1>3, Restarts DEF Transition, Steps, Flows
<1>4. CASE event = "NEXT"
  <2>1. /\ Moved(m, {"LOCAL_DIRECTORY"}, "LOCAL_IDENTITY") \subseteq Model
        /\ Moved(m, {"LOCAL_IDENTITY"}, IF m.adopt THEN "LOCAL_REVIEW" ELSE "LOCAL_TEMPLATE") \subseteq Model
        /\ Moved(m, {"LOCAL_TEMPLATE"}, "LOCAL_REVIEW") \subseteq Model
        /\ Moved(m, {"LOCAL_APPLY"}, "LOCAL_PREVIEW") \subseteq Model
        /\ Moved(m, {"HOST_FIELDS"}, "HOST_REVIEW") \subseteq Model
    BY MovesState DEF Steps
  <2>2. Transition(m, event) =
            Moved(m, {"LOCAL_DIRECTORY"}, "LOCAL_IDENTITY")
            \cup Moved(m, {"LOCAL_IDENTITY"}, IF m.adopt THEN "LOCAL_REVIEW" ELSE "LOCAL_TEMPLATE")
            \cup Moved(m, {"LOCAL_TEMPLATE"}, "LOCAL_REVIEW")
            \cup Moved(m, {"LOCAL_APPLY"}, "LOCAL_PREVIEW")
            \cup Moved(m, {"HOST_FIELDS"}, "HOST_REVIEW")
    BY <1>4 DEF Transition
  <2> QED BY <1>4, <2>1, <2>2
<1>5. CASE event = "BACK"
  <2>1. /\ Moved(m, {"LOCAL_DIRECTORY", "HOST_FIELDS"}, "WELCOME") \subseteq Model
        /\ Moved(m, {"LOCAL_IDENTITY"}, "LOCAL_DIRECTORY") \subseteq Model
        /\ Moved(m, {"LOCAL_TEMPLATE"}, "LOCAL_IDENTITY") \subseteq Model
        /\ Moved(m, {"LOCAL_REVIEW"}, IF m.adopt THEN "LOCAL_IDENTITY" ELSE "LOCAL_TEMPLATE") \subseteq Model
        /\ Moved(m, {"HOST_REVIEW"}, "HOST_FIELDS") \subseteq Model
    BY MovesState DEF Steps
  <2>2. \/ Transition(m, event) = {}
        \/ Transition(m, event) =
            Moved(m, {"LOCAL_DIRECTORY", "HOST_FIELDS"}, "WELCOME")
            \cup Moved(m, {"LOCAL_IDENTITY"}, "LOCAL_DIRECTORY")
            \cup Moved(m, {"LOCAL_TEMPLATE"}, "LOCAL_IDENTITY")
            \cup Moved(m, {"LOCAL_REVIEW"}, IF m.adopt THEN "LOCAL_IDENTITY" ELSE "LOCAL_TEMPLATE")
            \cup Moved(m, {"HOST_REVIEW"}, "HOST_FIELDS")
    BY <1>5 DEF Transition
  <2> QED BY <1>5, <2>1, <2>2
<1>6. CASE event = "CONFIRM"
  <2> DEFINE a == Moved(m, {"LOCAL_REVIEW"}, "LOCAL_APPLY")
             b == Moved(m, {"HOST_REVIEW"}, "HOST_VERIFY")
             c == Moved(m, {"HOST_REVIEW"}, "HOST_INSTALL")
  <2>1. /\ a \subseteq Model /\ b \subseteq Model /\ c \subseteq Model
        /\ \A n \in a \cup b \cup c : n.flow = m.flow
    BY MovesState DEF Steps
  <2>2. Transition(m, event) \subseteq a \cup b \cup c
    BY <1>6 DEF Transition
  <2> HIDE DEF a, b, c
  <2> QED BY <2>1, <2>2
<1>7. CASE event = "BEGIN_MUTATION"
  <2>1. Transition(m, event) \subseteq {[m EXCEPT !.mutation = "left"]}
    BY <1>7 DEF Transition
  <2>2. [m EXCEPT !.mutation = "left"] \in Model /\ [m EXCEPT !.mutation = "left"].flow = m.flow
    BY DEF Model
  <2> QED BY <2>1, <2>2
<1>8. CASE event = "VERIFY_OK"
  <2>1. Transition(m, event) \subseteq Model
    BY <1>8, MovesState DEF Transition, Steps
  <2> QED BY <1>8, <2>1
<1>9. CASE event = "VERIFY_FAILED"
  <2>1. Transition(m, event) \subseteq Model
    BY <1>9, MovesState DEF Transition, Steps
  <2> QED BY <1>9, <2>1
<1>10. CASE event = "RETRY"
  <2>1. Restart(m, IF m.flow = "LOCAL" THEN "LOCAL_DIRECTORY" ELSE "HOST_FIELDS", m.flow) \in Model
    BY <1>0, Restarts DEF Steps
  <2>2. Transition(m, event) \subseteq Model
    BY <1>10, <2>1 DEF Transition
  <2> QED BY <1>10, <2>2
<1>11. CASE event = "COMPLETE"
  <2>1. Transition(m, event) \subseteq Model
    BY <1>11, MovesState DEF Transition, Steps
  <2> QED BY <1>11, <2>1
<1>12. CASE event = "CANCEL"
  <2>1. [m EXCEPT !.state = "CANCELLED"] \in Model
    BY DEF Model, Steps
  <2>2. Transition(m, event) \subseteq {[m EXCEPT !.state = "CANCELLED"]}
    BY <1>12 DEF Transition
  <2> QED BY <1>12, <2>1, <2>2
<1>13. CASE event \notin {"SHOW_WELCOME", "CHOOSE_LOCAL", "CHOOSE_ADOPT", "CHOOSE_CONNECT",
                          "CHOOSE_INSTALL", "NEXT", "BACK", "CONFIRM", "BEGIN_MUTATION",
                          "VERIFY_OK", "VERIFY_FAILED", "RETRY", "COMPLETE", "CANCEL"}
  <2>1. Transition(m, event) = {}
    BY <1>13 DEF Transition
  <2> QED BY <1>13, <2>1
<1> QED BY <1>1, <1>2, <1>3, <1>4, <1>5, <1>6, <1>7, <1>8, <1>9, <1>10, <1>11, <1>12, <1>13

LEMMA AfterIs ==
    ASSUME NEW m \in Model, NEW event
    PROVE  /\ After(m, event) \in Model
           /\ event \in {"CONFIRM", "BEGIN_MUTATION"} => After(m, event).flow = m.flow
<1>1. After(m, event) = m \/ After(m, event) \in Transition(m, event)
  BY DEF After
<1> QED BY <1>1, Transitions

\* What the model makes of an install: one that left changes behind is told apart.
LEMMA InstallNoted ==
    ASSUME NEW m \in Model, NEW result, NEW residue \in BOOLEAN
    PROVE  LET n == NoteInstall(After(m, "BEGIN_MUTATION"), result, residue)
           IN  /\ n \in Model /\ n.flow = m.flow /\ n.residue = residue
               /\ result \in {"left", "undone"} => n.mutation = result
<1> DEFINE b == After(m, "BEGIN_MUTATION")
<1>1. b \in Model /\ b.flow = m.flow
  BY AfterIs
<1> HIDE DEF b
<1> DEFINE n == NoteInstall(b, result, residue)
<1>2. /\ n \in Model /\ n.flow = b.flow /\ n.residue = residue
      /\ result \in {"left", "undone"} => n.mutation = result
  BY <1>1 DEF NoteInstall, Model, Steps
<1> QED BY <1>1, <1>2 DEF b

LEMMA PreparedIs ==
    ASSUME NEW m \in Model, NEW choice
    PROVE  Prepared(m, choice) \in Model /\ NewModel \in Model
<1>1. NewModel \in Model
  BY DEF NewModel, Model, Steps, Flows
<1>2. After(m, choice) \in Model /\ After(NewModel, choice) \in Model
  BY <1>1, AfterIs
<1> QED BY <1>1, <1>2 DEF Prepared

(***************************************************************************)
(* The forms of the host screens.                                          *)
(***************************************************************************)
\* The values that outlive a flow; a form is seeded from four of them.
ValuesOk(v) ==
    /\ {"profile", "host", "domain", "iap"} \subseteq DOMAIN v
    /\ v.profile \in Names \cup {None} /\ v.host \in Hosts \cup {None}
    /\ v.domain \in Domains \cup {None} /\ v.iap \in Iaps \cup {None}

LEMMA ValuesAre ==
    /\ ValuesOk(NoValues)
    /\ \A n \in Names \cup {None} : ValuesOk([NoValues EXCEPT !.profile = n])
<1>1. ValuesOk(NoValues)
  BY DEF ValuesOk, NoValues
<1>2. ASSUME NEW n \in Names \cup {None} PROVE ValuesOk([NoValues EXCEPT !.profile = n])
  BY DEF ValuesOk, NoValues
<1> QED BY <1>1, <1>2

LEMMA FirstOf2 ==
    ASSUME NEW a, NEW b
    PROVE  First(<<a, b>>) = IF a # None THEN a ELSE b
<1> DEFINE s == <<a, b>>
<1>1. DOMAIN s = 1..2 /\ s[1] = a /\ s[2] = b
  OBVIOUS
<1> HIDE DEF s
<1>2. CASE a # None
  <2>1. 1 \in 1..2 /\ s[1] # None /\ \A j \in 1..(1 - 1) : s[j] = None
    BY <1>1, <1>2
  <2>2. First(s) = s[1]
    BY <1>1, <2>1, FirstIs
  <2> QED BY <1>1, <1>2, <2>2 DEF s
<1>3. CASE a = None /\ b # None
  <2>1. 2 \in 1..2 /\ s[2] # None /\ \A j \in 1..(2 - 1) : s[j] = None
    BY <1>1, <1>3
  <2>2. First(s) = s[2]
    BY <1>1, <2>1, FirstIs
  <2> QED BY <1>1, <1>3, <2>2 DEF s
<1>4. CASE a = None /\ b = None
  <2>1. ~ \E j \in DOMAIN s : s[j] # None
    BY <1>1, <1>4
  <2> QED BY <1>4, <2>1 DEF First, s
<1> QED BY <1>2, <1>3, <1>4

\* A host screen opens on a form that has a value in every field but the domain's.
LEMMA SeededIs ==
    ASSUME NEW v, ValuesOk(v), NEW config \in Config
    PROVE  Seeded(v, config) \in Forms
<1> DEFINE name == First(<<v.profile, config.default, Local>>)
           saved == Find(config, name)
           p == IF saved = None THEN BlankProfile ELSE saved
<1>1. config.default \in Names \cup {None} /\ config.profiles \in [Names -> Profile \cup {None}]
  BY DEF Config
<1>2. name \in Names
  BY <1>1, FirstOf3, ConfigAssumption DEF ValuesOk
<1>3. p \in Profile
  <2>1. BlankProfile \in Profile
    BY DEF BlankProfile, Profile
  <2>2. saved \in Profile \cup {None}
    BY <1>1, <1>2, ConfigAssumption DEF Find
  <2> HIDE DEF saved
  <2> QED BY <2>1, <2>2
<1> HIDE DEF name, saved, p
<1>4. p.ssh \in Hosts \cup {None} /\ p.domain \in Domains \cup {None} /\ p.iap \in Iaps \cup {None}
  BY <1>3 DEF Profile
<1>5. First(<<v.host, p.ssh, Placeholder>>) \in Hosts
  BY <1>4, FirstOf3, ConfigAssumption, OnboardingAssumption DEF ValuesOk
<1>6. First(<<v.domain, p.domain>>) \in Domains \cup {None}
  BY <1>4, FirstOf2 DEF ValuesOk
<1>7. First(<<v.iap, p.iap, "tailscale">>) \in Iaps
  <2>1. "tailscale" \in Iaps
    BY DEF Iaps
  <2> QED BY <1>4, <2>1, FirstOf3 DEF ValuesOk
<1> QED BY <1>2, <1>5, <1>6, <1>7 DEF Seeded, Forms, name, saved, p

LEMMA CollectedIs ==
    ASSUME NEW t \in Typed, NEW k \in {0, 2, 4}, mem \in Config, form \in Forms, ValuesOk(values)
    PROVE  /\ Collected(t, k) \in Forms
           /\ \A f \in Forms : ValuesOk(Noted(f))
<1> DEFINE name == IF k >= 1 THEN Kept(t.profile, form.profile) ELSE form.profile
           saved == Find(mem, name)
           domain == IF name # form.profile /\ saved # None /\ saved.domain # None
                     THEN saved.domain ELSE form.domain
<1>1. /\ form.profile \in Names /\ form.host \in Hosts /\ form.domain \in Domains \cup {None}
      /\ form.iap \in Iaps
  BY DEF Forms
<1>2. /\ t.profile \in Names \cup {None} /\ t.host \in Hosts \cup {None}
      /\ t.domain \in Domains \cup {None} /\ t.iap \in Iaps \cup {None}
  BY OnboardingAssumption
<1>3. name \in Names
  BY <1>1, <1>2 DEF Kept
<1>4. domain \in Domains \cup {None}
  <2>1. saved \in Profile \cup {None}
    BY <1>3, ConfigAssumption DEF Find, Config
  <2> HIDE DEF saved, name
  <2>2. saved # None => saved.domain \in Domains \cup {None}
    BY <2>1 DEF Profile
  <2> QED BY <1>1, <2>2
<1> HIDE DEF name, saved, domain
<1>5. /\ (IF k >= 2 THEN Kept(t.host, form.host) ELSE form.host) \in Hosts
      /\ (IF k >= 3 THEN Kept(t.domain, domain) ELSE domain) \in Domains \cup {None}
      /\ (IF k >= 4 THEN Kept(t.iap, form.iap) ELSE form.iap) \in Iaps
  BY <1>1, <1>2, <1>4 DEF Kept
<1>6. Collected(t, k) \in Forms
  BY <1>3, <1>5 DEF Collected, Forms, name, saved, domain
<1>7. ASSUME NEW f \in Forms PROVE ValuesOk(Noted(f))
  BY DEF Noted, ValuesOk, Forms
<1> QED BY <1>6, <1>7

(***************************************************************************)
(* What a save may change.                                                 *)
(***************************************************************************)
LEMMA OneDiffers ==
    ASSUME NEW c, NEW d, NEW n \in Names, \A m \in Names \ {n} : c.profiles[m] = d.profiles[m]
    PROVE  Cardinality({m \in Names : c.profiles[m] # d.profiles[m]}) <= 1
<1> DEFINE S == {m \in Names : c.profiles[m] # d.profiles[m]}
<1>1. S \subseteq {n}
  OBVIOUS
<1>2. IsFiniteSet({n}) /\ Cardinality({n}) = 1
  BY FS_Singleton
<1> HIDE DEF S
<1>3. Cardinality(S) <= Cardinality({n})
  BY <1>1, <1>2, FS_Subset
<1> QED BY <1>2, <1>3 DEF S

LEMMA NoneDiffers ==
    ASSUME NEW c
    PROVE  Cardinality({m \in Names : c.profiles[m] # c.profiles[m]}) <= 1
<1>1. {m \in Names : c.profiles[m] # c.profiles[m]} = {}
  OBVIOUS
<1> QED BY <1>1, FS_EmptySet

(***************************************************************************)
(* The invariant.                                                          *)
(***************************************************************************)
Callers == {"launch", "loop", "deploy.saved"}
HostSteps == {"host.fields", "host.review", "host.unsafe", "host.install", "host.save",
              "host.save?", "host.verify", "host.override", "host.write"}
HostScreens == HostSteps \cup {"host.failed"}
Guarded == HostScreens \cup {"menu", "profiles", "profile", "unsaved"}

Sound ==
    /\ file \in File /\ mem \in Config /\ model \in Model
    /\ ValuesOk(values) /\ form \in Forms /\ caller \in Callers

\* A host that an install has left something on is behind the screens that could try again,
\* but for the one that tells of the failure, and that one knows.
PartialKept ==
    /\ at = "host.install" => model.flow = "INSTALL_HOST"
    /\ partial # "none" =>
          /\ at \notin HostSteps /\ said \notin {"nothing changed", "nothing changed, residue"}
          /\ at = "host.failed" =>
                model.flow = "INSTALL_HOST" /\ model.residue /\ model.mutation # "none"
    /\ partial = "half" => said # "restored, residue"

\* The host screens have the profiles in memory that are in the file, unless a write of theirs
\* has spoilt it.
HostFresh == at \in HostScreens /\ file \notin Lost => mem = Loaded(file)

\* What is about to be saved as verified is the candidate that was.
CandidateIs ==
    at \in {"host.override", "host.write"} =>
        /\ candidate.name = form.profile /\ candidate.profile = Candidate(form)
        /\ EnvRemote = None /\ candidate.healthy => candidate.reached = form.host

\* In the profiles section only the profile of the panel differs from the file.
PanelOf ==
    /\ at = "profiles" => mem = Loaded(file)
    /\ at \in {"profile", "unsaved"} =>
          /\ shown \in Names /\ mem.profiles[shown] \in Profile
          /\ file \notin Lost =>
                \A n \in Names \ {shown} : mem.profiles[n] = Loaded(file).profiles[n]

MenuDrawn == at = "menu" => MenuOk(menu) /\ InView(menu)

Inv == Sound /\ PartialKept /\ HostFresh /\ CandidateIs /\ PanelOf /\ MenuDrawn

\* The steps of SavedIsVerified and SavesOneProfile.
Verified ==
    said' = "verified" /\ said # "verified" =>
          /\ file \notin Lost => file'.profiles[candidate.name] = candidate.profile
          /\ EnvRemote = None => candidate.reached = candidate.profile.ssh
OneSaved ==
    {file, file'} \cap Lost = {} =>
          Cardinality({n \in Names : Loaded(file).profiles[n] # Loaded(file').profiles[n]}) <= 1
\* The step of HighlightShown that is about rows that cannot be chosen.
Highlights ==
    at' = "menu" =>
        \/ menu'.selected \in SelectableRows(menu')
        \/ at = "menu" /\ Strays(menu, menu')
Keeps == Inv' /\ Verified /\ OneSaved /\ Highlights

(***************************************************************************)
(* Kinds of steps.                                                         *)
(***************************************************************************)
invariantVars == <<at, file, mem, model, values, form, caller, candidate, partial, said, shown, menu>>

LEMMA NothingSaved == ASSUME file' = file PROVE OneSaved
  BY NoneDiffers DEF OneSaved

LEMMA UnmovedKeeps == ASSUME Inv, UNCHANGED invariantVars PROVE Keeps
<1>1. Sound' /\ PartialKept' /\ HostFresh' /\ CandidateIs' /\ PanelOf' /\ MenuDrawn'
  <2>1. Sound'
    BY DEF Inv, Sound, invariantVars
  <2>2. PartialKept'
    BY DEF Inv, PartialKept, invariantVars
  <2>3. HostFresh'
    BY DEF Inv, HostFresh, invariantVars
  <2>4. CandidateIs'
    BY DEF Inv, CandidateIs, Candidate, invariantVars
  <2>5. PanelOf'
    BY DEF Inv, PanelOf, invariantVars
  <2>6. MenuDrawn'
    BY DEF Inv, MenuDrawn, invariantVars
  <2> QED BY <2>1, <2>2, <2>3, <2>4, <2>5, <2>6
<1>2. Verified
  BY DEF Verified, invariantVars
<1>3. OneSaved
  BY NothingSaved DEF invariantVars
<1>4. Highlights
  BY UnmovedOk DEF invariantVars, Highlights
<1> QED BY <1>1, <1>2, <1>3, <1>4 DEF Keeps, Inv

\* A step to a screen that keeps nothing the invariant is about.
Quiet ==
    /\ at' \notin Guarded
    /\ file' = file /\ partial' = partial
    /\ mem' \in {mem, Loaded(file)}
    /\ model' \in Model /\ caller' \in Callers /\ ValuesOk(values') /\ form' \in Forms
    /\ said' \in {said, "none", "serving", "not serving"}

LEMMA QuietKeeps == ASSUME Inv, Quiet PROVE Keeps
<1>1. Sound'
  BY LoadedIs DEF Inv, Sound, Quiet
<1>2. PartialKept'
  BY DEF Inv, PartialKept, Quiet, Guarded, HostScreens, HostSteps
<1>3. HostFresh' /\ CandidateIs' /\ PanelOf' /\ MenuDrawn'
  BY DEF Quiet, Guarded, HostScreens, HostSteps, HostFresh, CandidateIs, PanelOf, MenuDrawn
<1>4. Verified
  BY DEF Verified, Quiet
<1>5. OneSaved
  BY NothingSaved DEF Quiet
<1>6. Highlights
  BY DEF Quiet, Guarded, Highlights
<1> QED BY <1>1, <1>2, <1>3, <1>4, <1>5, <1>6 DEF Keeps, Inv

\* A step of a host screen that writes no file.
HostMoves ==
    /\ at \in HostScreens
    /\ at' \in HostScreens \cup Callers
    /\ file' = file /\ mem' = mem
    /\ model' \in Model /\ caller' = caller /\ ValuesOk(values') /\ form' \in Forms
    /\ said' \in {said, "nothing changed", "nothing changed, residue",
                   "restored, residue", "not restored, residue"}

LEMMA HostMovesKeep == ASSUME Inv, HostMoves, PartialKept', CandidateIs' PROVE Keeps
<1>1. Sound'
  BY DEF Inv, Sound, HostMoves
<1>2. HostFresh'
  BY DEF Inv, HostFresh, HostMoves
<1>3. PanelOf' /\ MenuDrawn'
  BY DEF HostMoves, HostScreens, HostSteps, Callers, PanelOf, MenuDrawn
<1>4. Verified
  BY DEF Verified, HostMoves
<1>5. OneSaved
  BY NothingSaved DEF HostMoves
<1>6. Highlights
  BY DEF HostMoves, HostScreens, HostSteps, Callers, Highlights
<1> QED BY <1>1, <1>2, <1>3, <1>4, <1>5, <1>6 DEF Keeps, Inv

\* The way into a host screen.
LEMMA OpenHostKeeps ==
    ASSUME Inv, NEW m \in Model, NEW v, ValuesOk(v), NEW choice, OpenHost(m, v, choice),
           caller' \in Callers, file' = file
    PROVE  Keeps
<1>1. model' \in Model /\ mem' = Loaded(file) /\ mem' \in Config /\ form' \in Forms
  BY PreparedIs, SeededIs, LoadedIs DEF OpenHost, Reload, Inv, Sound
<1>2. at' = "host.fields" /\ partial' = "none" /\ said' = "none" /\ values' = v
  BY DEF OpenHost
<1>3. Sound'
  BY <1>1, <1>2 DEF Inv, Sound
<1>4. PartialKept' /\ CandidateIs' /\ PanelOf' /\ MenuDrawn'
  BY <1>2 DEF PartialKept, CandidateIs, PanelOf, MenuDrawn
<1>5. HostFresh'
  BY <1>1 DEF HostFresh
<1>6. Verified
  BY <1>2 DEF Verified
<1>7. OneSaved
  BY NothingSaved
<1>8. Highlights
  BY <1>2 DEF Highlights
<1> QED BY <1>3, <1>4, <1>5, <1>6, <1>7, <1>8 DEF Keeps, Inv

(***************************************************************************)
(* The welcome menu and the local quickstart.                              *)
(***************************************************************************)
LEMMA WelcomeIs ==
    ASSUME NEW return \in Callers, OpenWelcome(return), model \in Model
    PROVE  at' \in {"welcome", "loop"} /\ model' \in Model /\ caller' \in Callers
  BY AfterIs DEF OpenWelcome

LEMMA LocalKeeps ==
    ASSUME Inv, \/ ChooseLocal \/ LeaveWelcome \/ LocalDirectory \/ LocalIdentity \/ LocalTemplate
                \/ LocalReview \/ LocalApply \/ LocalFailed \/ LocalDone
    PROVE  Keeps
<1>0. /\ model \in Model /\ caller \in Callers /\ ValuesOk(values) /\ form \in Forms
      /\ {"welcome", "loop", "local", "local.done", "local.failed"} \cap Guarded = {}
      /\ Callers \cap Guarded = {}
  BY DEF Inv, Sound, Guarded, HostScreens, HostSteps, Callers
<1>1. CASE ChooseLocal
  <2>1. model' \in Model /\ ValuesOk(values')
    BY <1>0, <1>1, AfterIs DEF ChooseLocal, ValuesOk
  <2>2. Quiet
    BY <1>0, <1>1, <2>1 DEF ChooseLocal, Quiet, Reload
  <2> QED BY <2>2, QuietKeeps
<1>2. CASE LeaveWelcome
  <2>1. model' \in Model
    BY <1>0, <1>2, AfterIs DEF LeaveWelcome
  <2>2. Quiet
    BY <1>0, <1>2, <2>1 DEF LeaveWelcome, Quiet
  <2> QED BY <2>2, QuietKeeps
<1>3. CASE LocalDirectory
  <2>1. /\ at' \in {at, caller} /\ at = "local"
        /\ model' \in {After(model, "CANCEL"), After(model, "NEXT")}
        /\ values' = values \/ \E d : values' = [values EXCEPT !.dir = d]
    <3>1. PICK input \in Input(Dirs) :
              \/ model' = After(model, "CANCEL") /\ at' = caller /\ UNCHANGED values
              \/ /\ values' = [values EXCEPT !.dir = Kept(input, @)]
                 /\ model' = After(model, "NEXT") /\ UNCHANGED at
      BY <1>3 DEF LocalDirectory
    <3> QED BY <1>3, <3>1 DEF LocalDirectory
  <2>3. model' \in Model /\ ValuesOk(values')
    <3>1. model' \in Model
      BY <1>0, <2>1, AfterIs
    <3>2. ValuesOk(values')
      BY <1>0, <2>1 DEF ValuesOk
    <3> QED BY <3>1, <3>2
  <2>2. Quiet
    BY <1>0, <1>3, <2>1, <2>3 DEF LocalDirectory, localVars, Quiet
  <2> QED BY <2>2, QuietKeeps
<1>4. CASE LocalIdentity
  <2>1. /\ model' \in {model, After(model, "BACK"), After(model, "NEXT")}
        /\ \E s : values' = [values EXCEPT !.site = s]
    BY <1>4 DEF LocalIdentity
  <2>3. model' \in Model /\ ValuesOk(values')
    <3>1. model' \in Model
      BY <1>0, <2>1, AfterIs
    <3>2. ValuesOk(values')
      BY <1>0, <2>1 DEF ValuesOk
    <3> QED BY <3>1, <3>2
  <2>2. Quiet
    BY <1>0, <1>4, <2>3 DEF LocalIdentity, localVars, Quiet
  <2> QED BY <2>2, QuietKeeps
<1>5. CASE LocalTemplate
  <2>1. model' \in Model
    BY <1>0, <1>5, AfterIs DEF LocalTemplate
  <2>2. Quiet
    BY <1>0, <1>5, <2>1 DEF LocalTemplate, localVars, Quiet
  <2> QED BY <2>2, QuietKeeps
<1>6. CASE LocalReview
  <2>1. model' \in Model
    BY <1>0, <1>6, AfterIs DEF LocalReview
  <2>2. Quiet
    BY <1>0, <1>6, <2>1 DEF LocalReview, localVars, Quiet
  <2> QED BY <2>2, QuietKeeps
<1>7. CASE LocalApply
  <2>1. /\ \E event : model' = After(After(model, "BEGIN_MUTATION"), event)
        /\ at' \in {"local.done", "local.failed"}
        /\ said' \in {said, "serving", "not serving"}
    BY <1>7 DEF LocalApply
  <2>3. model' \in Model
    BY <1>0, <2>1, AfterIs
  <2>2. Quiet
    BY <1>0, <1>7, <2>1, <2>3 DEF LocalApply, localVars, Quiet
  <2> QED BY <2>2, QuietKeeps
<1>8. CASE LocalFailed
  <2>1. model' \in Model /\ at' \in {"local", caller}
    BY <1>0, <1>8, AfterIs DEF LocalFailed
  <2>2. Quiet
    BY <1>0, <1>8, <2>1 DEF LocalFailed, localVars, Quiet
  <2> QED BY <2>2, QuietKeeps
<1>9. CASE LocalDone
  <2>1. model' \in Model
    BY <1>0, <1>9, AfterIs DEF LocalDone
  <2>2. Quiet
    BY <1>0, <1>9, <2>1 DEF LocalDone, localVars, Quiet
  <2> QED BY <2>2, QuietKeeps
<1> QED BY <1>1, <1>2, <1>3, <1>4, <1>5, <1>6, <1>7, <1>8, <1>9

(***************************************************************************)
(* The host screens.                                                       *)
(***************************************************************************)
LEMMA ChooseHostKeeps == ASSUME Inv, ChooseHost PROVE Keeps
<1>1. PICK choice : OpenHost(After(model, choice), values, choice)
  BY DEF ChooseHost
<1>2. After(model, choice) \in Model /\ ValuesOk(values)
  BY AfterIs DEF Inv, Sound
<1>3. caller' \in Callers /\ file' = file
  BY DEF ChooseHost, hostVars, Inv, Sound
<1> QED BY <1>1, <1>2, <1>3, OpenHostKeeps

LEMMA HostFieldsKeeps == ASSUME Inv, HostFields PROVE Keeps
<1>1. form' \in Forms /\ ValuesOk(values')
  BY CollectedIs DEF HostFields, Inv, Sound
<1>2. /\ at = "host.fields" /\ at' \in {caller, "host.fields", "host.review"}
      /\ model' \in {model, After(model, "CANCEL"), After(model, "NEXT")}
  BY DEF HostFields
<1>3. HostMoves
  BY <1>1, <1>2, AfterIs DEF HostFields, hostVars, HostMoves, HostScreens, HostSteps, Inv, Sound
<1>4. PartialKept'
  BY <1>2 DEF HostFields, Inv, PartialKept, HostSteps, Sound, Callers
<1>5. CandidateIs'
  BY <1>2 DEF CandidateIs, Inv, Sound, Callers
<1> QED BY <1>3, <1>4, <1>5, HostMovesKeep

LEMMA HostReviewKeeps == ASSUME Inv, HostReview PROVE Keeps
<1>1. /\ at \in {"host.review", "host.unsafe"}
      /\ at' \in {"host.fields", "host.unsafe", "host.install", "host.verify"}
      /\ model' \in {model, After(model, "BACK"), After(model, "CONFIRM")}
      /\ at' = "host.install" => model.flow = "INSTALL_HOST" /\ model' = After(model, "CONFIRM")
  BY DEF HostReview, Installing
<1>2. HostMoves
  BY <1>1, AfterIs DEF HostReview, hostVars, HostMoves, HostScreens, HostSteps, Inv, Sound
<1>3. PartialKept'
  BY <1>1, AfterIs DEF HostReview, Inv, Sound, PartialKept, HostSteps
<1>4. CandidateIs'
  BY <1>1 DEF CandidateIs
<1> QED BY <1>2, <1>3, <1>4, HostMovesKeep

LEMMA HostInstallKeeps == ASSUME Inv, HostInstall PROVE Keeps
<1>1. PICK r \in InstallResults :
          /\ model' = NoteInstall(After(model, "BEGIN_MUTATION"), r[1], r[2])
          /\ partial' = CASE r[1] = "left" -> "half" [] r[1] = "undone" -> "residue" [] OTHER -> partial
          /\ \/ r[1] = "completed" /\ at' = "host.save" /\ UNCHANGED said
             \/ r[1] # "completed" /\ said' = FailureTold(r[1], r[2]) /\ at' = "host.failed"
  BY DEF HostInstall
<1> DEFINE result == r[1]
           residue == r[2]
<1>2. residue \in BOOLEAN /\ (result \in {"left", "undone"} => residue)
  <2> DEFINE early == {"unchanged"} \cup (IF Attentive THEN {} ELSE {"cancelled"})
  <2>1. \/ r = <<"completed", FALSE>> \/ r = <<"undone", TRUE>> \/ r = <<"left", TRUE>>
        \/ r \in early \X BOOLEAN
    BY <1>1 DEF InstallResults
  <2>2. early \cap {"left", "undone"} = {}
    OBVIOUS
  <2> HIDE DEF early
  <2>3. CASE r = <<"completed", FALSE>>
    BY <2>3
  <2>4. CASE r = <<"undone", TRUE>>
    BY <2>4
  <2>5. CASE r = <<"left", TRUE>>
    BY <2>5
  <2>6. CASE r \in early \X BOOLEAN
    <3>1. result \in early /\ residue \in BOOLEAN
      BY <2>6
    <3> QED BY <2>2, <3>1
  <2> QED BY <2>1, <2>3, <2>4, <2>5, <2>6
<1>3. /\ model' \in Model /\ model'.flow = model.flow /\ model'.residue = residue
      /\ result \in {"left", "undone"} => model'.mutation = result
  BY <1>1, <1>2, InstallNoted DEF Inv, Sound
<1> HIDE DEF result, residue
<1>4. at = "host.install" /\ model.flow = "INSTALL_HOST" /\ partial = "none"
  BY DEF HostInstall, Inv, PartialKept, HostSteps
<1>5. said' \in {said, "nothing changed", "nothing changed, residue",
                 "restored, residue", "not restored, residue"}
  BY <1>1 DEF FailureTold
<1>6. HostMoves
  BY <1>1, <1>3, <1>4, <1>5 DEF HostInstall, hostVars, HostMoves, HostScreens, HostSteps, Inv, Sound
<1>7. PartialKept'
  <2>1. CASE result = "left"
    <3>1. said' = "not restored, residue" /\ at' = "host.failed" /\ partial' = "half"
      BY <1>1, <2>1 DEF FailureTold, result
    <3> QED BY <1>2, <1>3, <1>4, <2>1, <3>1 DEF PartialKept, HostSteps
  <2>2. CASE result = "undone"
    <3>1. said' = "restored, residue" /\ at' = "host.failed" /\ partial' = "residue"
      BY <1>1, <2>2 DEF FailureTold, result
    <3> QED BY <1>2, <1>3, <1>4, <2>2, <3>1 DEF PartialKept, HostSteps
  <2>3. CASE result \notin {"left", "undone"}
    <3>1. partial' = "none" /\ at' # "host.install"
      BY <1>1, <1>4, <2>3 DEF result
    <3> QED BY <3>1 DEF PartialKept
  <2> QED BY <2>1, <2>2, <2>3
<1>8. CandidateIs'
  BY <1>1 DEF CandidateIs
<1> QED BY <1>6, <1>7, <1>8, HostMovesKeep

LEMMA HostSaveAgainKeeps == ASSUME Inv, HostSaveAgain PROVE Keeps
<1>1. at = "host.save?" /\ at' \in {"host.save", caller} /\ model' \in {model, After(model, "VERIFY_FAILED")}
  BY DEF HostSaveAgain
<1>2. HostMoves
  BY <1>1, AfterIs DEF HostSaveAgain, hostVars, HostMoves, HostScreens, HostSteps, Inv, Sound
<1>3. PartialKept'
  BY <1>1 DEF HostSaveAgain, Inv, Sound, PartialKept, HostSteps, Callers
<1>4. CandidateIs'
  BY <1>1 DEF CandidateIs, Inv, Sound, Callers
<1> QED BY <1>2, <1>3, <1>4, HostMovesKeep

\* The doctor is given the form as the save would leave it, and reaches its host.
LEMMA HostVerifyKeeps == ASSUME Inv, HostVerify PROVE Keeps
<1> DEFINE profile == Candidate(form)
           config == [NoProfiles EXCEPT !.default = form.profile, !.profiles[form.profile] = profile]
           plan == Resolve([NoOverrides EXCEPT !.profile = form.profile], Env0,
                           project[<<>>].json, NoFile, DirName[<<>>], config)
<1>0. /\ at = "host.verify" /\ partial = "none"
      /\ file' = file /\ mem' = mem /\ form' = form /\ values' = values /\ partial' = partial
      /\ said' = said /\ caller' = caller
  BY DEF HostVerify, hostVars, Inv, PartialKept, HostSteps
<1>1. \/ \E healthy \in {FALSE, plan.ok} :
            /\ candidate' = [name |-> form.profile, profile |-> profile,
                             reached |-> IF plan.ok THEN plan.ssh ELSE None,
                             healthy |-> healthy]
            /\ model' = After(model, IF healthy THEN "VERIFY_OK" ELSE "VERIFY_FAILED")
            /\ at' = IF healthy THEN "host.write" ELSE "host.override"
      \/ model' = After(model, "CANCEL") /\ at' = caller
  BY DEF HostVerify
<1>2. EnvRemote = None /\ plan.ok => plan.ssh = form.host
  <2> SUFFICES ASSUME EnvRemote = None, plan.ok PROVE plan.ssh = form.host
    OBVIOUS
  <2>1. form.profile \in Names /\ form.host \in Hosts
    BY DEF Inv, Sound, Forms
  <2>2. profile.ssh = form.host /\ profile.ssh # None
    BY <2>1, ConfigAssumption DEF Candidate
  <2>3. config.profiles[form.profile] = profile
    <3> HIDE DEF profile
    <3> QED BY <2>1 DEF NoProfiles
  <2>4. profile # None
    <3> DEFINE existing == Find(mem, form.profile)
    <3>1. existing \in Profile \cup {None}
      BY <2>1, ConfigAssumption DEF Find, Inv, Sound, Config
    <3> HIDE DEF existing
    <3>2. /\ existing # None => existing.domain \in Domains \cup {None} /\ existing.url \in Urls \cup {None}
          /\ form.domain \in Domains \cup {None} /\ form.iap \in Iaps
      BY <3>1 DEF Profile, Inv, Sound, Forms
    <3>3. profile \in Profile
      BY <2>1, <3>2 DEF Candidate, existing, Profile
    <3> QED BY <3>3, FileAssumption
  <2> HIDE DEF profile, config
  <2> QED BY <2>1, <2>2, <2>3, <2>4, PlanReaches
<1> HIDE DEF plan, config, profile
<1>3. at' \in {"host.write", "host.override", caller} /\ model' \in Model
  BY <1>1, AfterIs DEF Inv, Sound
<1>4. HostMoves
  BY <1>0, <1>3 DEF HostMoves, HostScreens, HostSteps, Inv, Sound
<1>5. PartialKept'
  BY <1>0, <1>3 DEF PartialKept, Inv, Sound, Callers
<1>6. CandidateIs'
  <2> SUFFICES ASSUME at' \in {"host.override", "host.write"}
               PROVE  /\ candidate'.name = form.profile /\ candidate'.profile = profile
                      /\ EnvRemote = None /\ candidate'.healthy => candidate'.reached = form.host
    BY <1>0 DEF CandidateIs, profile, Candidate
  <2>1. PICK healthy \in {FALSE, plan.ok} :
            candidate' = [name |-> form.profile, profile |-> profile,
                          reached |-> IF plan.ok THEN plan.ssh ELSE None, healthy |-> healthy]
    BY <1>1 DEF Inv, Sound, Callers
  <2> QED BY <1>2, <2>1
<1> QED BY <1>4, <1>5, <1>6, HostMovesKeep

LEMMA HostOverrideKeeps == ASSUME Inv, HostOverride PROVE Keeps
<1>1. /\ at = "host.override" /\ at' \in {"host.write", "host.fields"}
      /\ model' \in {After(model, "VERIFY_OK"), After(model, "RETRY")}
      /\ UNCHANGED <<file, mem, values, form, candidate, partial, said>>
  BY DEF HostOverride
<1>2. HostMoves
  BY <1>1, AfterIs DEF HostOverride, hostVars, HostMoves, HostScreens, HostSteps, Inv, Sound
<1>3. PartialKept'
  BY <1>1 DEF Inv, PartialKept, HostSteps
<1>4. CandidateIs'
  BY <1>1 DEF Inv, CandidateIs, Candidate
<1> QED BY <1>2, <1>3, <1>4, HostMovesKeep

LEMMA HostFailedKeeps == ASSUME Inv, HostFailed PROVE Keeps
<1>1. /\ at = "host.failed" /\ at' \in {"host.fields", caller}
      /\ model' \in {model, After(model, "RETRY")}
      /\ at' = "host.fields" /\ model.flow = "INSTALL_HOST" => model.mutation = "none" \/ ~model.residue
      /\ UNCHANGED <<file, mem, values, form, candidate, partial, said>>
  BY DEF HostFailed, RetryIsSafe, Installing, Inv, Sound, Callers
<1>2. HostMoves
  BY <1>1, AfterIs DEF HostFailed, hostVars, HostMoves, HostScreens, HostSteps, Inv, Sound
<1>3. PartialKept'
  BY <1>1 DEF Inv, PartialKept, HostSteps, Sound, Callers
<1>4. CandidateIs'
  BY <1>1 DEF CandidateIs, Inv, Sound, Callers
<1> QED BY <1>2, <1>3, <1>4, HostMovesKeep

\* A save of the form changes its profile alone, or spoils the file, or nothing.
LEMMA SaveChangesOne ==
    ASSUME Inv, NEW w \in WriteProfile(form), file' = w[2]
    PROVE  OneSaved /\ file' \in File
<1>0. file \in File /\ Loaded(file) \in Config /\ form \in Forms /\ form.profile \in Names
  BY LoadedIs DEF Inv, Sound, Forms
<1>1. CASE w[1] = "ok" /\ w[2] = WrittenProfile(Loaded(file), form)
  <2> DEFINE c == Loaded(file)
             d == WrittenProfile(Loaded(file), form)
  <2>1. d \in Config /\ \A n \in Names \ {form.profile} : c.profiles[n] = d.profiles[n]
    BY <1>0, WrittenIs
  <2>2. d \in File /\ Loaded(file') = d
    BY <1>1, <2>1, LoadedIs
  <2> HIDE DEF c, d
  <2>3. Cardinality({n \in Names : c.profiles[n] # d.profiles[n]}) <= 1
    BY <1>0, <2>1, OneDiffers
  <2> QED BY <1>1, <2>2, <2>3 DEF OneSaved, c, d
<1>2. CASE w[2] = file
  BY <1>0, <1>2, NothingSaved
<1>3. CASE w[2] \in Lost
  BY <1>3, LoadedIs DEF OneSaved
<1> QED BY <1>0, <1>1, <1>2, <1>3, SavesAre

\* What a host screen does with its file.
HostSaves ==
    /\ at \in {"host.save", "host.write"}
    /\ at' \in {"host.save?", "host.failed"} \cup Callers
    /\ model' \in Model /\ caller' = caller /\ form' = form /\ values' = values /\ partial' = partial
    /\ said' \in {said, "installed", "verified", "unverified"}
    /\ \E w \in WriteProfile(form) :
          /\ file' = w[2]
          /\ w[1] = "ok" => at' \in Callers /\ mem' = Loaded(file')
          /\ w[1] = "error" => mem' = mem

LEMMA HostSavesKeep == ASSUME Inv, HostSaves, Verified PROVE Keeps
<1>1. PICK w \in WriteProfile(form) :
          /\ file' = w[2]
          /\ w[1] = "ok" => at' \in Callers /\ mem' = Loaded(file')
          /\ w[1] = "error" => mem' = mem
  BY DEF HostSaves
<1>2. OneSaved /\ file' \in File
  BY <1>1, SaveChangesOne
<1>3. \/ w[1] = "ok"
      \/ w[1] = "error" /\ (w[2] = file \/ w[2] \in Lost)
  BY SavesAre DEF Inv, Sound
<1>4. Sound'
  BY <1>1, <1>2, <1>3, LoadedIs DEF HostSaves, Inv, Sound
<1>5. PartialKept'
  BY DEF HostSaves, Inv, PartialKept, HostSteps, Callers
<1>6. HostFresh'
  <2>1. CASE w[1] = "ok"
    BY <1>1, <2>1 DEF HostFresh, HostScreens, HostSteps, Callers
  <2>2. CASE w[1] = "error" /\ w[2] = file
    BY <1>1, <2>2 DEF HostSaves, Inv, HostFresh, HostScreens, HostSteps
  <2>3. CASE w[2] \in Lost
    BY <1>1, <2>3 DEF HostFresh
  <2> QED BY <1>3, <2>1, <2>2, <2>3
<1>7. CandidateIs' /\ PanelOf' /\ MenuDrawn' /\ Highlights
  BY DEF HostSaves, Callers, CandidateIs, PanelOf, MenuDrawn, Highlights
<1> QED BY <1>2, <1>4, <1>5, <1>6, <1>7 DEF Keeps, Inv

LEMMA HostSaveKeeps == ASSUME Inv, HostSave PROVE Keeps
<1>1. PICK w \in WriteProfile(form) :
          /\ file' = w[2]
          /\ \/ w[1] = "ok" /\ HostSaved("installed")
             \/ w[1] = "error" /\ at' = "host.save?" /\ UNCHANGED <<mem, model, said>>
  BY DEF HostSave
<1>2. /\ model' \in Model /\ said' \in {said, "installed"} /\ at' \in {"host.save?", caller}
      /\ w[1] = "ok" => at' = caller /\ mem' = Loaded(file')
      /\ w[1] = "error" => mem' = mem
  BY <1>1, AfterIs DEF HostSaved, Inv, Sound
<1>3. HostSaves
  BY <1>1, <1>2 DEF HostSave, hostVars, HostSaves, Inv, Sound
<1>4. Verified
  BY <1>2 DEF Verified
<1> QED BY <1>3, <1>4, HostSavesKeep

\* What was verified is what is saved, when the file is still the one that was loaded.
LEMMA HostWriteKeeps == ASSUME Inv, HostWrite PROVE Keeps
<1>1. PICK w \in WriteProfile(form) :
          /\ file' = w[2]
          /\ \/ w[1] = "ok" /\ HostSaved(IF candidate.healthy THEN "verified" ELSE "unverified")
             \/ /\ w[1] = "error"
                /\ model' = After(model, "VERIFY_FAILED") /\ at' = "host.failed"
                /\ UNCHANGED <<mem, said>>
  BY DEF HostWrite
<1>2. /\ model' \in Model /\ at' \in {"host.failed", caller}
      /\ said' \in {said, "verified", "unverified"}
      /\ said' = "verified" /\ said # "verified" => w[1] = "ok" /\ candidate.healthy
      /\ w[1] = "ok" => at' = caller /\ mem' = Loaded(file')
      /\ w[1] = "error" => mem' = mem
  BY <1>1, AfterIs DEF HostSaved, Inv, Sound
<1>3. HostSaves
  BY <1>1, <1>2 DEF HostWrite, hostVars, HostSaves, Inv, Sound
<1>4. Verified
  <2> SUFFICES ASSUME said' = "verified", said # "verified"
               PROVE  /\ file \notin Lost => file'.profiles[candidate.name] = candidate.profile
                      /\ EnvRemote = None => candidate.reached = candidate.profile.ssh
    BY DEF Verified
  <2>1. /\ w[1] = "ok" /\ candidate.healthy /\ candidate.name = form.profile
        /\ candidate.profile = Candidate(form)
        /\ EnvRemote = None => candidate.reached = form.host
    BY <1>2 DEF HostWrite, Inv, CandidateIs
  <2>2. file' = WrittenProfile(Loaded(file), form)
    BY <1>1, <2>1, SavesAre DEF Inv, Sound
  <2>3. file \notin Lost => mem = Loaded(file)
    BY DEF HostWrite, Inv, HostFresh, HostScreens, HostSteps
  <2>4. Candidate(form) = WrittenProfile(mem, form).profiles[form.profile]
    BY CandidateIsWritten DEF Inv, Sound
  <2>5. Candidate(form).ssh = form.host
    BY DEF Candidate
  <2> QED BY <2>1, <2>2, <2>3, <2>4, <2>5
<1> QED BY <1>3, <1>4, HostSavesKeep

LEMMA GuidedKeeps == ASSUME Inv, Guided PROVE Keeps
  BY LocalKeeps, ChooseHostKeeps, HostFieldsKeeps, HostReviewKeeps, HostInstallKeeps, HostSaveKeeps,
     HostSaveAgainKeeps, HostVerifyKeeps, HostOverrideKeeps, HostWriteKeeps, HostFailedKeeps
     DEF Guided

(***************************************************************************)
(* The settings.                                                           *)
(***************************************************************************)
\* A step of the profiles section, or into it.
SectionMoves ==
    /\ at' \in {"profiles", "profile", "unsaved"}
    /\ mem' \in Config /\ file' \in File
    /\ UNCHANGED <<model, values, form, caller, candidate, partial, said, menu>>

LEMMA SectionKeeps == ASSUME Inv, SectionMoves, PanelOf', OneSaved PROVE Keeps
<1>1. Sound'
  BY DEF Inv, Sound, SectionMoves
<1>2. PartialKept'
  BY DEF Inv, PartialKept, SectionMoves, HostSteps
<1>3. HostFresh' /\ CandidateIs' /\ MenuDrawn'
  BY DEF SectionMoves, HostFresh, HostScreens, HostSteps, CandidateIs, MenuDrawn
<1>4. Verified /\ Highlights
  BY DEF SectionMoves, Verified, Highlights
<1> QED BY <1>1, <1>2, <1>3, <1>4 DEF Keeps, Inv

\* The profile of the panel as a write leaves it.
LEMMA WritesPanel ==
    ASSUME Inv, at \in {"profile", "unsaved"}, NEW done \in {"profile", "profiles"},
           done = "profile" => at = "profile", WriteProfiles(done),
           UNCHANGED <<model, values, form, caller, candidate, partial, said, menu>>
    PROVE  Keeps
<1>1. PICK w \in Write(file, mem) :
          /\ file' = w[2]
          /\ IF w[1] = "ok" /\ done # at
             THEN at' = done /\ mem' = Loaded(file') /\ shown' = None
             ELSE at' = "profile" /\ UNCHANGED <<mem, shown>>
  BY DEF WriteProfiles
<1>2. file \in File /\ mem \in Config /\ mem \in File /\ Loaded(mem) = mem /\ Lost \subseteq File
  BY LoadedIs DEF Inv, Sound
<1>3. w = <<"ok", mem>> \/ w = <<"error", file>> \/ \E f \in Lost : w = <<"error", f>>
  BY DEF Write
<1>4. /\ shown \in Names /\ mem.profiles[shown] \in Profile
      /\ file \notin Lost => \A n \in Names \ {shown} : mem.profiles[n] = Loaded(file).profiles[n]
  BY DEF Inv, PanelOf
<1>5. CASE w = <<"ok", mem>>
  <2>1. /\ file' = mem /\ mem' = mem
        /\ at' = "profiles" \/ (at' = "profile" /\ shown' = shown)
    <3>1. w[1] = "ok" /\ w[2] = mem
      BY <1>5
    <3>2. CASE done = at
      BY <1>1, <3>1, <3>2
    <3>3. CASE done # at
      <4>1. done = "profiles" /\ at' = done /\ mem' = Loaded(file')
        BY <1>1, <3>1, <3>3
      <4>2. file' = mem
        BY <1>1, <3>1
      <4>3. Loaded(file') = mem
        BY <1>2, <4>2
      <4> QED BY <4>1, <4>2, <4>3
    <3> QED BY <3>2, <3>3
  <2>2. PanelOf'
    BY <1>2, <1>4, <2>1 DEF PanelOf
  <2>3. OneSaved
    <3> DEFINE c == Loaded(file)
    <3>1. CASE file \in Lost
      BY <3>1 DEF OneSaved
    <3>2. CASE file \notin Lost
      <4>1. shown \in Names /\ \A n \in Names \ {shown} : c.profiles[n] = mem.profiles[n]
        BY <1>4, <3>2
      <4> HIDE DEF c
      <4>2. Cardinality({n \in Names : c.profiles[n] # mem.profiles[n]}) <= 1
        BY <4>1, OneDiffers
      <4>3. Loaded(file') = mem
        BY <1>2, <2>1
      <4> QED BY <4>2, <4>3 DEF OneSaved, c
    <3> QED BY <3>1, <3>2
  <2>4. SectionMoves
    BY <1>2, <2>1 DEF SectionMoves
  <2> QED BY <2>2, <2>3, <2>4, SectionKeeps
<1>6. CASE w[1] = "error" /\ (w[2] = file \/ w[2] \in Lost)
  <2>1. at' = "profile" /\ mem' = mem /\ shown' = shown /\ file' \in File /\ (file' = file \/ file' \in Lost)
    BY <1>1, <1>2, <1>6
  <2>2. PanelOf'
    BY <1>4, <2>1 DEF PanelOf
  <2>3. OneSaved
    BY <2>1, NothingSaved DEF OneSaved
  <2>4. SectionMoves
    BY <1>2, <2>1 DEF SectionMoves
  <2> QED BY <2>2, <2>3, <2>4, SectionKeeps
<1> QED BY <1>3, <1>5, <1>6

LEMMA ConfigureKeeps == ASSUME Inv, Configure PROVE Keeps
<1>0. /\ UNCHANGED <<model, values, form, caller, candidate, partial, said, menu>>
      /\ file \in File /\ mem \in Config /\ Loaded(file) \in Config
      /\ model' \in Model /\ caller' \in Callers /\ ValuesOk(values') /\ form' \in Forms
      /\ {"settings", "site", "fix", "loop"} \cap Guarded = {}
      /\ mem.default \in Names \cup {None} /\ mem.profiles \in [Names -> Profile \cup {None}]
  BY LoadedIs DEF Configure, onboardingVars, Inv, Sound, Guarded, HostScreens, HostSteps, Config
<1>1. CASE SettingsMenu
  <2>1. PICK to : \/ at' = to /\ to \in {"profiles", "loop"} /\ mem' = IF to = "profiles" THEN Loaded(file) ELSE mem
                  \/ mem' = mem /\ at' \in {at, "site"}
    BY <1>1 DEF SettingsMenu
  <2>2. file' = file /\ at = "settings"
    BY <1>1 DEF SettingsMenu
  <2>3. CASE at' = "profiles"
    <3>1. mem' = Loaded(file')
      BY <2>1, <2>2, <2>3
    <3>2. PanelOf'
      BY <2>3, <3>1 DEF PanelOf
    <3>3. SectionMoves
      BY <1>0, <2>2, <2>3, <3>1 DEF SectionMoves
    <3> QED BY <2>2, <3>2, <3>3, SectionKeeps, NothingSaved
  <2>4. CASE at' # "profiles"
    <3>1. Quiet
      BY <1>0, <2>1, <2>2, <2>4 DEF Quiet
    <3> QED BY <3>1, QuietKeeps
  <2> QED BY <2>3, <2>4
<1>2. CASE ProfilesMenu
  <2>1. /\ at = "profiles" /\ file' = file /\ mem' = mem /\ mem = Loaded(file)
        /\ \/ at' = "settings"
           \/ at' = "profile" /\ shown' \in Names /\ mem.profiles[shown'] # None
    BY <1>2 DEF ProfilesMenu, Modal, Inv, PanelOf
  <2>2. CASE at' = "settings"
    <3>1. Quiet
      BY <1>0, <2>1, <2>2 DEF Quiet
    <3> QED BY <3>1, QuietKeeps
  <2>3. CASE at' = "profile"
    <3>1. PanelOf'
      BY <1>0, <2>1, <2>3 DEF PanelOf
    <3>2. SectionMoves
      BY <1>0, <2>1, <2>3 DEF SectionMoves
    <3> QED BY <2>1, <3>1, <3>2, SectionKeeps, NothingSaved
  <2> QED BY <2>1, <2>2, <2>3
<1>3. CASE NewProfile
  <2>1. file' = file /\ mem = Loaded(file)
    BY <1>3 DEF NewProfile, Inv, PanelOf
  <2>2. PICK n \in Names :
          IF Full(mem, n)
          THEN mem' = Loaded(file) /\ UNCHANGED <<at, shown, dirty>>
          ELSE /\ mem' = [mem EXCEPT !.profiles[n] = Upserted(mem, n)]
               /\ at' = "profile" /\ shown' = n /\ dirty' = FALSE
    BY <1>3 DEF NewProfile, Input, Modal
  <2>3. CASE Full(mem, n)
    <3>1. PanelOf'
      BY <1>3, <2>1, <2>2, <2>3 DEF PanelOf, NewProfile
    <3>2. SectionMoves
      BY <1>0, <1>3, <2>1, <2>2, <2>3 DEF SectionMoves, NewProfile
    <3> QED BY <2>1, <3>1, <3>2, SectionKeeps, NothingSaved
  <2>4. CASE ~Full(mem, n)
    <3>1. Upserted(mem, n) \in Profile
      BY <1>0 DEF Upserted, BlankProfile, Profile
    <3>2. /\ mem' \in Config /\ mem'.profiles[n] = Upserted(mem, n)
          /\ \A m \in Names \ {n} : mem'.profiles[m] = mem.profiles[m]
      BY <1>0, <2>2, <2>4, <3>1 DEF Config
    <3>3. PanelOf'
      BY <2>1, <2>2, <2>4, <3>1, <3>2 DEF PanelOf
    <3>4. SectionMoves
      BY <1>0, <2>1, <2>2, <2>4, <3>2 DEF SectionMoves
    <3> QED BY <2>1, <3>3, <3>4, SectionKeeps, NothingSaved
  <2> QED BY <2>3, <2>4
<1>4. CASE EditField
  <2>1. at = "profile" /\ at' = at /\ file' = file /\ shown' = shown
    BY <1>4 DEF EditField
  <2>2. /\ shown \in Names /\ mem.profiles[shown] \in Profile
        /\ file \notin Lost => \A n \in Names \ {shown} : mem.profiles[n] = Loaded(file).profiles[n]
    BY <2>1 DEF Inv, PanelOf
  <2>3. PICK e \in Edits : mem' = [mem EXCEPT !.profiles[shown] = Applied(@, e[1], e[2])]
    BY <1>4 DEF EditField
  <2> DEFINE p == Applied(mem.profiles[shown], e[1], e[2])
  <2>4. p \in Profile
    <3>1. /\ e[1] = "ssh" => e[2] \in Hosts \cup {None}
          /\ e[1] = "domain" => e[2] \in Domains \cup {None}
          /\ e[1] = "url" => e[2] \in Urls \cup {None}
          /\ e[1] = "iap" => e[2] \in Iaps \cup {None}
      BY SettingsAssumption
    <3> QED BY <2>2, <3>1 DEF Applied, Profile
  <2> HIDE DEF p
  <2>5. mem' = [mem EXCEPT !.profiles[shown] = p]
    BY <2>3 DEF p
  <2>6. /\ mem' \in Config /\ mem'.profiles[shown] = p
        /\ \A m \in Names \ {shown} : mem'.profiles[m] = mem.profiles[m]
    BY <1>0, <2>2, <2>4, <2>5 DEF Config
  <2>7. PanelOf'
    BY <2>1, <2>2, <2>4, <2>6 DEF PanelOf
  <2>8. SectionMoves
    BY <1>0, <2>1, <2>6 DEF SectionMoves
  <2> QED BY <2>1, <2>7, <2>8, SectionKeeps, NothingSaved
<1>5. CASE SetDefault
  <2>1. /\ at = "profile" /\ at' = at /\ file' = file /\ shown' = shown
        /\ mem' = [mem EXCEPT !.default = shown]
    BY <1>5 DEF SetDefault
  <2>2. /\ shown \in Names /\ mem.profiles[shown] \in Profile
        /\ file \notin Lost => \A n \in Names \ {shown} : mem.profiles[n] = Loaded(file).profiles[n]
    BY <2>1 DEF Inv, PanelOf
  <2>3. mem' \in Config /\ mem'.profiles = mem.profiles
    BY <1>0, <2>1, <2>2 DEF Config
  <2>4. PanelOf'
    BY <2>1, <2>2, <2>3 DEF PanelOf
  <2>5. SectionMoves
    BY <1>0, <2>1, <2>3 DEF SectionMoves
  <2> QED BY <2>1, <2>4, <2>5, SectionKeeps, NothingSaved
<1>6. CASE WriteAsked
  BY <1>0, <1>6, WritesPanel DEF WriteAsked
<1>7. CASE LeavePanel
  <2>1. /\ at = "profile" /\ file' = file
        /\ \/ at' = "unsaved" /\ mem' = mem /\ shown' = shown
           \/ at' = "profiles" /\ mem' = Loaded(file)
           \/ at' = "settings" /\ mem' = mem
    BY <1>7 DEF LeavePanel
  <2>2. CASE at' = "settings"
    <3>1. Quiet
      BY <1>0, <2>1, <2>2 DEF Quiet
    <3> QED BY <3>1, QuietKeeps
  <2>3. CASE at' \in {"unsaved", "profiles"}
    <3>1. PanelOf'
      BY <2>1, <2>3 DEF PanelOf, Inv
    <3>2. SectionMoves
      BY <1>0, <2>1, <2>3 DEF SectionMoves
    <3> QED BY <2>1, <3>1, <3>2, SectionKeeps, NothingSaved
  <2> QED BY <2>1, <2>2, <2>3
<1>8. CASE Unsaved
  <2>1. /\ at = "unsaved"
        /\ \/ WriteProfiles("profiles")
           \/ at' = "profiles" /\ mem' = Loaded(file) /\ file' = file
           \/ at' = "profile" /\ mem' = mem /\ file' = file /\ shown' = shown
    BY <1>8 DEF Unsaved
  <2>2. CASE WriteProfiles("profiles")
    BY <1>0, <2>1, <2>2, WritesPanel
  <2>3. CASE ~WriteProfiles("profiles")
    <3>1. file' = file /\ at' \in {"profiles", "profile"} /\ mem' \in Config
      BY <1>0, <2>1, <2>3
    <3>2. PanelOf'
      BY <2>1, <2>3 DEF PanelOf, Inv
    <3>3. SectionMoves
      BY <1>0, <3>1 DEF SectionMoves
    <3> QED BY <3>1, <3>2, <3>3, SectionKeeps, NothingSaved
  <2> QED BY <2>2, <2>3
<1>9. CASE EditSite \/ WriteSite \/ LeaveSite
  <2>1. at' \in {"site", "fix", "settings", "loop"} /\ file' = file /\ mem' = mem
    BY <1>9 DEF EditSite, WriteSite, LeaveSite
  <2>2. Quiet
    BY <1>0, <2>1 DEF Quiet
  <2> QED BY <2>2, QuietKeeps
<1> QED BY <1>1, <1>2, <1>3, <1>4, <1>5, <1>6, <1>7, <1>8, <1>9 DEF Configure

(***************************************************************************)
(* Deploy.                                                                 *)
(***************************************************************************)
\* The profile that the deploy is for, which the host screens start from.
DeployNamed == "profile" \in DOMAIN deploy /\ deploy.profile \in Names \cup {None}

LEMMA DeployNamedKept == ASSUME Inv, DeployNamed, Next PROVE DeployNamed'
<1>1. DefaultName \in Names /\ NoDeploy.profile = None /\ "profile" \in DOMAIN NoDeploy
  BY ConfigAssumption DEF DefaultName, Inv, Sound, Config, NoDeploy
<1>2. ASSUME NEW site, OpenDeploy(site) PROVE DeployNamed'
  BY <1>1, <1>2 DEF OpenDeploy, NoDeploy, DeployNamed
<1>3. CASE deploy' = deploy
  BY <1>3 DEF DeployNamed
<1>4. CASE InitTui \/ Start \/ Launch \/ MenuKey \/ MenuLeave \/ Overlay \/ Exit \/ MenuEnds \/ Guided
           \/ Configure \/ InitScreen \/ ServeScreen \/ ServeStatus \/ Around
  <2>1. deploy' = deploy
    BY <1>4 DEF InitTui, Start, Launch, MenuKey, MenuLeave, Overlay, Exit, MenuEnds, Guided,
                Configure, InitScreen, ServeScreen, ServeStatus, Around, Others, screens, deployVars
  <2> QED BY <1>3, <2>1
<1>5. CASE Loop
  BY <1>1, <1>5 DEF Loop, LocalsGone, DeployNamed
<1>6. CASE Choose
  <2>1. PICK i \in Chosen(menu) : Dispatch(menu.items[i].id)
    BY <1>6 DEF Choose
  <2>2. deploy' = deploy \/ OpenDeploy(None) \/ \E s \in Sites : OpenDeploy(s)
    BY <2>1 DEF Dispatch, deployVars
  <2> QED BY <1>2, <1>3, <2>2
<1>7. CASE InitCreated
  <2>1. OpenDeploy(created.site) \/ deploy' = deploy
    BY <1>7 DEF InitCreated
  <2> QED BY <1>2, <1>3, <2>1
<1>8. CASE DeployPath
  BY <1>8 DEF DeployPath, DeployNamed
<1>9. CASE DeployProfile
  <2>1. PICK n : /\ n = DefaultName \/ n \in Modal({m \in Names : mem.profiles[m] # None}, None)
                 /\ deploy' = [deploy EXCEPT !.profile = n]
    BY <1>9 DEF DeployProfile
  <2>2. n \in Names \cup {None}
    BY <1>1, <2>1 DEF Modal
  <2> QED BY <2>1, <2>2 DEF DeployNamed
<1>10. CASE DeployHost \/ DeploySaved \/ DeployAttempt
  <2>1. deploy' = deploy
    BY <1>10 DEF DeployHost, DeploySaved, DeployAttempt, deployVars
  <2> QED BY <1>3, <2>1
<1>11. CASE DeployNames
  BY <1>11 DEF DeployNames, DeployNamed
<1>12. CASE DeployPlan
  BY <1>12 DEF DeployPlan, DeployNamed
<1>13. CASE AskOverwrite
  BY <1>13 DEF AskOverwrite, DeployNamed
<1>14. CASE AskPublication
  BY <1>14 DEF AskPublication, DeployNamed
<1> QED
  BY <1>4, <1>5, <1>6, <1>7, <1>8, <1>9, <1>10, <1>11, <1>12, <1>13, <1>14 DEF Next, Process, Deploying

LEMMA DeployingKeeps == ASSUME Inv, DeployNamed, Deploying PROVE Keeps
<1>0. /\ UNCHANGED file
      /\ model \in Model /\ caller \in Callers /\ ValuesOk(values) /\ form \in Forms
      /\ {"loop", "deploy.path", "deploy.profile", "deploy.host", "deploy.site", "deploy.plan",
          "deploy.run", "deploy.overwrite", "deploy.publish", "deploy.saved"} \cap Guarded = {}
  BY DEF Deploying, DeployPath, DeployProfile, DeployHost, DeploySaved, DeployNames, DeployPlan,
         DeployAttempt, AskOverwrite, AskPublication, othersVars, Inv, Sound, Guarded,
         HostScreens, HostSteps
<1>1. CASE DeployPath
  <2>1. at' \in {"loop", "deploy.profile"}
    BY <1>1 DEF DeployPath
  <2>2. Quiet
    BY <1>0, <1>1, <2>1 DEF DeployPath, onboardingVars, Quiet
  <2> QED BY <2>2, QuietKeeps
<1>2. CASE DeployProfile
  <2>1. at' \in {"loop", "deploy.host", "deploy.site"}
    BY <1>2 DEF DeployProfile
  <2>2. Quiet
    BY <1>0, <1>2, <2>1 DEF DeployProfile, onboardingVars, Quiet
  <2> QED BY <2>2, QuietKeeps
<1>3. CASE DeployHost
  <2>1. PICK choice \in Modal({"CHOOSE_CONNECT", "CHOOSE_INSTALL"}, None) :
          \/ at' = "loop" /\ UNCHANGED <<mem, onboardingVars>>
          \/ /\ OpenHost(NewModel, [NoValues EXCEPT !.profile = deploy.profile], choice)
             /\ caller' = "deploy.saved"
    BY <1>3 DEF DeployHost
  <2>2. CASE at' = "loop" /\ UNCHANGED <<mem, onboardingVars>>
    <3>1. Quiet
      BY <1>0, <2>2 DEF onboardingVars, Quiet
    <3> QED BY <3>1, QuietKeeps
  <2>3. CASE OpenHost(NewModel, [NoValues EXCEPT !.profile = deploy.profile], choice) /\ caller' = "deploy.saved"
    <3> DEFINE v == [NoValues EXCEPT !.profile = deploy.profile]
    <3>1. ValuesOk(v)
      BY DEF ValuesOk, NoValues, DeployNamed
    <3> HIDE DEF v
    <3>2. NewModel \in Model /\ caller' \in Callers
      BY <1>0, <2>3, PreparedIs DEF Callers
    <3> QED BY <1>0, <2>3, <3>1, <3>2, OpenHostKeeps DEF v
  <2> QED BY <2>1, <2>2, <2>3
<1>4. CASE DeploySaved
  <2>1. at' \in {"loop", "deploy.site"} /\ mem' \in {mem, Loaded(file)}
    BY <1>4 DEF DeploySaved, Reload
  <2>2. Quiet
    BY <1>0, <1>4, <2>1 DEF DeploySaved, onboardingVars, Quiet
  <2> QED BY <2>2, QuietKeeps
<1>5. CASE DeployNames
  <2>1. at' \in {"loop", "deploy.plan"}
    BY <1>5 DEF DeployNames
  <2>2. Quiet
    BY <1>0, <1>5, <2>1 DEF DeployNames, onboardingVars, Quiet
  <2> QED BY <2>2, QuietKeeps
<1>6. CASE DeployPlan
  <2>1. at' \in {"loop", "deploy.run"}
    BY <1>6 DEF DeployPlan
  <2>2. Quiet
    BY <1>0, <1>6, <2>1 DEF DeployPlan, onboardingVars, Quiet
  <2> QED BY <2>2, QuietKeeps
<1>7. CASE DeployAttempt
  <2>1. at' \in {"loop", "deploy.overwrite", "deploy.publish"}
    BY <1>7 DEF DeployAttempt
  <2>2. Quiet
    BY <1>0, <1>7, <2>1 DEF DeployAttempt, onboardingVars, Quiet
  <2> QED BY <2>2, QuietKeeps
<1>8. CASE AskOverwrite
  <2>1. at' \in {"loop", "deploy.run"}
    BY <1>8 DEF AskOverwrite
  <2>2. Quiet
    BY <1>0, <1>8, <2>1 DEF AskOverwrite, onboardingVars, Quiet
  <2> QED BY <2>2, QuietKeeps
<1>9. CASE AskPublication
  <2>1. at' \in {"loop", "deploy.run"}
    BY <1>9 DEF AskPublication
  <2>2. Quiet
    BY <1>0, <1>9, <2>1 DEF AskPublication, onboardingVars, Quiet
  <2> QED BY <2>2, QuietKeeps
<1> QED BY <1>1, <1>2, <1>3, <1>4, <1>5, <1>6, <1>7, <1>8, <1>9 DEF Deploying

(***************************************************************************)
(* The dashboard and the screens of the main loop.                         *)
(***************************************************************************)
LEMMA MenuKeyKeeps == ASSUME Inv, MenuKey PROVE Keeps
<1>1. /\ at = "menu" /\ UNCHANGED <<at, file, mem, model, values, form, caller, candidate, partial, said, shown>>
      /\ menu' \in Keyed(menu, Letters) \/ \E rows \in RowsOf : menu' = Resized(menu, rows)
  BY DEF MenuKey, screens, onboardingVars, settingsVars
<1>2. MenuOk(menu)
  BY <1>1 DEF Inv, MenuDrawn
<1>3. MenuOk(menu') /\ InView(menu') /\ Strays(menu, menu')
  BY <1>1, <1>2, KeyedOk, ResizedOk, FrontEndAssumption
<1>4. Sound' /\ PartialKept' /\ HostFresh' /\ CandidateIs' /\ PanelOf'
  BY <1>1 DEF Inv, Sound, PartialKept, HostFresh, HostScreens, HostSteps, CandidateIs, PanelOf
<1>5. MenuDrawn'
  BY <1>3 DEF MenuDrawn
<1>6. Verified
  BY <1>1 DEF Verified
<1>7. Highlights
  BY <1>1, <1>3 DEF Highlights
<1> QED BY <1>1, <1>4, <1>5, <1>6, NothingSaved, <1>7 DEF Keeps, Inv

LEMMA LoopKeeps == ASSUME Inv, Loop PROVE Keeps
<1>1. /\ at' = "menu" /\ mem' = Loaded(file) /\ file' = file /\ partial' = "none" /\ said' = "none"
      /\ form' = Seeded(NoValues, NoProfiles)
      /\ UNCHANGED <<model, values, caller>>
  BY DEF Loop, LocalsGone, Reload
<1>2. PICK rows \in RowsOf : menu' = Shown(Dashboard(rows))
  BY DEF Loop
<1>3. MenuOk(menu') /\ InView(menu') /\ menu'.selected \in SelectableRows(menu')
  BY <1>2, DashboardOk, ShownOk, FrontEndAssumption
<1>4. Sound'
  BY <1>1, SeededIs, ValuesAre, LoadedIs DEF Inv, Sound
<1>5. PartialKept' /\ HostFresh' /\ CandidateIs' /\ PanelOf'
  BY <1>1 DEF PartialKept, HostFresh, HostScreens, HostSteps, CandidateIs, PanelOf
<1>6. MenuDrawn'
  BY <1>3 DEF MenuDrawn
<1>7. Verified
  BY <1>1 DEF Verified
<1>8. Highlights
  BY <1>3 DEF Highlights
<1> QED BY <1>1, <1>4, <1>5, <1>6, <1>7, NothingSaved, <1>8 DEF Keeps, Inv

LEMMA ChooseKeeps == ASSUME Inv, Choose PROVE Keeps
<1>0. /\ UNCHANGED file /\ at = "menu"
      /\ model \in Model /\ caller \in Callers /\ ValuesOk(values) /\ form \in Forms
      /\ {"loop", "welcome", "settings", "fix", "init", "serve", "deploy.path", "deploy.profile"}
            \cap Guarded = {}
  BY DEF Choose, Inv, Sound, Guarded, HostScreens, HostSteps
<1>1. PICK i \in Chosen(menu) : Dispatch(menu.items[i].id)
  BY DEF Choose
<1> DEFINE id == menu.items[i].id
<1> HIDE DEF id
<1>2. CASE id = "get started" /\ OpenWelcome("loop") /\ UNCHANGED <<mem, values, form, candidate, partial, said>>
  <2>1. at' \in {"welcome", "loop"} /\ model' \in Model /\ caller' \in Callers
    BY <1>0, <1>2, WelcomeIs DEF Callers
  <2>2. Quiet
    BY <1>0, <1>2, <2>1 DEF Quiet
  <2> QED BY <2>2, QuietKeeps
<1>3. CASE \E choice : HostScreen(choice)
  <2>1. PICK choice : HostScreen(choice)
    BY <1>3
  <2> DEFINE m == After([NewModel EXCEPT !.state = "IDLE"], choice)
  <2>2. m \in Model
    <3>1. [NewModel EXCEPT !.state = "IDLE"] \in Model
      BY DEF NewModel, Model, Steps, Flows
    <3> QED BY <3>1, AfterIs
  <2>3. OpenHost(m, NoValues, choice) /\ caller' \in Callers
    BY <2>1 DEF HostScreen, Callers
  <2> HIDE DEF m
  <2> QED BY <1>0, <2>2, <2>3, ValuesAre, OpenHostKeeps
<1>4. CASE /\ at' \in {"loop", "settings", "fix", "init", "serve", "deploy.path", "deploy.profile"}
           /\ mem' \in {mem, Loaded(file)} /\ UNCHANGED onboardingVars
  <2>1. Quiet
    BY <1>0, <1>4 DEF onboardingVars, Quiet
  <2> QED BY <2>1, QuietKeeps
<1>5. \/ id = "get started" /\ OpenWelcome("loop") /\ UNCHANGED <<mem, values, form, candidate, partial, said>>
      \/ \E choice : HostScreen(choice)
      \/ /\ at' \in {"loop", "settings", "fix", "init", "serve", "deploy.path", "deploy.profile"}
         /\ mem' \in {mem, Loaded(file)} /\ UNCHANGED onboardingVars
  BY <1>1 DEF Dispatch, id, Preview, OpenSettings, FixProject, OpenDeploy, ReadOnly, Reload
<1> QED BY <1>2, <1>3, <1>4, <1>5

\* The steps that leave the terminal, or a screen that saves nothing.
LEMMA ScreensKeep ==
    ASSUME Inv, \/ InitTui \/ Start \/ Launch \/ MenuLeave \/ Overlay \/ Exit \/ MenuEnds
                \/ InitScreen \/ InitCreated \/ ServeScreen \/ ServeStatus
    PROVE  Keeps
<1>0. /\ model \in Model /\ caller \in Callers /\ ValuesOk(values) /\ form \in Forms
      /\ {"ended", "launch", "loop", "welcome", "overlay", "exit?", "init", "init.created",
          "deploy.path", "deploy.profile", "serve", "serve.status"} \cap Guarded = {}
  BY DEF Inv, Sound, Guarded, HostScreens, HostSteps
<1>1. CASE InitTui
  <2>1. Quiet
    BY <1>0, <1>1 DEF InitTui, InitFails, screens, onboardingVars, Quiet
  <2> QED BY <2>1, QuietKeeps
<1>2. CASE Start
  <2>1. at' \in {"launch", "loop"} /\ mem' = Loaded(file)
    BY <1>2 DEF Start, Reload
  <2>2. Quiet
    BY <1>0, <1>2, <2>1 DEF Start, screens, onboardingVars, Quiet
  <2> QED BY <2>2, QuietKeeps
<1>3. CASE Launch
  <2>1. /\ at' \in {"welcome", "loop"} /\ model' \in Model /\ caller' \in Callers
    <3>1. OpenWelcome("launch") \/ (at' = "loop" /\ UNCHANGED <<model, caller>>)
      BY <1>3 DEF Launch
    <3>2. "launch" \in Callers
      BY DEF Callers
    <3> QED BY <1>0, <3>1, <3>2, WelcomeIs
  <2>2. Quiet
    BY <1>0, <1>3, <2>1 DEF Launch, Quiet
  <2> QED BY <2>2, QuietKeeps
<1>4. CASE MenuLeave
  <2>1. at' \in {"overlay", "exit?"}
    BY <1>4 DEF MenuLeave
  <2>2. Quiet
    BY <1>0, <1>4, <2>1 DEF MenuLeave, screens, onboardingVars, Quiet
  <2> QED BY <2>2, QuietKeeps
<1>5. CASE Overlay
  <2>1. at' \in {"overlay", "exit?", "loop"}
    BY <1>5 DEF Overlay, Modal
  <2>2. Quiet
    BY <1>0, <1>5, <2>1 DEF Overlay, screens, onboardingVars, Quiet
  <2> QED BY <2>2, QuietKeeps
<1>6. CASE Exit
  <2>1. at' \in {"ended", "loop"}
    BY <1>6 DEF Exit, Quit
  <2>2. Quiet
    BY <1>0, <1>6, <2>1 DEF Exit, screens, onboardingVars, Quiet
  <2> QED BY <2>2, QuietKeeps
<1>7. CASE MenuEnds
  <2>1. at' = "ended"
    BY <1>7 DEF MenuEnds, Quit
  <2>2. Quiet
    BY <1>0, <1>7, <2>1 DEF MenuEnds, screens, onboardingVars, Quiet
  <2> QED BY <2>2, QuietKeeps
<1>8. CASE InitScreen
  <2>1. at' \in {"loop", "init.created"}
    BY <1>8 DEF InitScreen
  <2>2. Quiet
    BY <1>0, <1>8, <2>1 DEF InitScreen, onboardingVars, Quiet
  <2> QED BY <2>2, QuietKeeps
<1>9. CASE InitCreated
  <2>1. at' \in {"deploy.path", "deploy.profile", "loop"} /\ mem' \in {mem, Loaded(file)}
    BY <1>9 DEF InitCreated, OpenDeploy, Reload
  <2>2. Quiet
    BY <1>0, <1>9, <2>1 DEF InitCreated, onboardingVars, Quiet
  <2> QED BY <2>2, QuietKeeps
<1>10. CASE ServeScreen
  <2>1. at' \in {"serve", "serve.status", "loop"}
    BY <1>10 DEF ServeScreen, Modal
  <2>2. Quiet
    BY <1>0, <1>10, <2>1 DEF ServeScreen, screens, onboardingVars, Quiet
  <2> QED BY <2>2, QuietKeeps
<1>11. CASE ServeStatus
  <2>1. Quiet
    BY <1>0, <1>11 DEF ServeStatus, screens, onboardingVars, Quiet
  <2> QED BY <2>1, QuietKeeps
<1> QED BY <1>1, <1>2, <1>3, <1>4, <1>5, <1>6, <1>7, <1>8, <1>9, <1>10, <1>11

LEMMA AroundKeeps == ASSUME Inv, Around PROVE Keeps
<1>1. UNCHANGED invariantVars
  BY DEF Around, Signal, ChildEnds, Others, othersVars, screens, onboardingVars, settingsVars, invariantVars
<1> QED BY <1>1, UnmovedKeeps

(***************************************************************************)
(* The theorems.                                                           *)
(***************************************************************************)
LEMMA InitInv == ASSUME Init PROVE Inv /\ DeployNamed
<1>1. /\ file \in File /\ at = "shell" /\ mem = NoProfiles /\ model = NewModel /\ values = NoValues
      /\ form = Seeded(NoValues, NoProfiles) /\ caller = "loop" /\ partial = "none"
  BY FrontEndAssumption DEF Init
<1>2. Sound
  <2>1. NoProfiles \in Config /\ ValuesOk(NoValues)
    BY LoadedIs, ValuesAre
  <2>2. NewModel \in Model
    BY DEF NewModel, Model, Steps, Flows
  <2>3. Seeded(NoValues, NoProfiles) \in Forms
    BY <2>1, SeededIs
  <2> QED BY <1>1, <2>1, <2>2, <2>3 DEF Sound, Callers
<1>3. PartialKept /\ HostFresh /\ CandidateIs /\ PanelOf /\ MenuDrawn
  BY <1>1 DEF PartialKept, HostFresh, HostScreens, HostSteps, CandidateIs, PanelOf, MenuDrawn
<1>4. DeployNamed
  BY DEF Init, NoDeploy, DeployNamed
<1> QED BY <1>2, <1>3, <1>4 DEF Inv

LEMMA StepKeeps == ASSUME Inv, DeployNamed, [Next]_vars PROVE Keeps /\ DeployNamed'
<1>1. CASE Next
  <2>1. Keeps
    <3>1. CASE \/ InitTui \/ Start \/ Launch \/ MenuLeave \/ Overlay \/ Exit \/ MenuEnds
               \/ InitScreen \/ InitCreated \/ ServeScreen \/ ServeStatus
      BY <3>1, ScreensKeep
    <3>2. CASE Loop
      BY <3>2, LoopKeeps
    <3>3. CASE MenuKey
      BY <3>3, MenuKeyKeeps
    <3>4. CASE Choose
      BY <3>4, ChooseKeeps
    <3>5. CASE Guided
      BY <3>5, GuidedKeeps
    <3>6. CASE Configure
      BY <3>6, ConfigureKeeps
    <3>7. CASE Deploying
      BY <3>7, DeployingKeeps
    <3>8. CASE Around
      BY <3>8, AroundKeeps
    <3> QED BY <1>1, <3>1, <3>2, <3>3, <3>4, <3>5, <3>6, <3>7, <3>8 DEF Next, Process
  <2> QED BY <1>1, <2>1, DeployNamedKept
<1>2. CASE UNCHANGED vars
  <2>1. UNCHANGED invariantVars /\ deploy' = deploy
    BY <1>2 DEF vars, invariantVars, onboardingVars, settingsVars, deployVars
  <2>2. DeployNamed'
    BY <2>1 DEF DeployNamed
  <2> QED BY <2>1, <2>2, UnmovedKeeps
<1> QED BY <1>1, <1>2

THEOREM Invariance == Spec => [](Inv /\ DeployNamed)
<1>1. Inv /\ DeployNamed /\ [Next]_vars => (Inv /\ DeployNamed)'
  BY StepKeeps DEF Keeps
<1> QED BY InitInv, <1>1, PTL DEF Spec

\* Once an install has failed after its first change, with or without a rollback that undid
\* the changes, the form of the host screens never opens for another try in that visit; they
\* never call the host unchanged, and one that is left half done never restored.
THEOREM NoRetry == Spec => []NoRetryOverPartial
<1>1. Inv => NoRetryOverPartial
  BY DEF Inv, PartialKept, HostSteps, NoRetryOverPartial
<1> QED BY <1>1, Invariance, PTL

\* The highlighted row is there and drawn.  It cannot be chosen only from the end of a search
\* whose hits the highlight was moved among until it is moved again.
THEOREM MenusShown == Spec => HighlightShown
<1> DEFINE Step1 ==
        at' = "menu" /\ menu'.visible # <<>> =>
          /\ menu'.selected \in DOMAIN menu'.visible \cap Drawn(menu')
          /\ \/ menu'.selected \in SelectableRows(menu')
             \/ /\ at = "menu" /\ menu.visible # <<>> /\ menu'.selected = menu.selected
                /\ menu.selected \in SelectableRows(menu) =>
                     menu.selected > 1 /\ menu.query # {} /\ menu'.query = {}
<1>1. Inv /\ DeployNamed /\ [Next]_vars => [Step1]_vars
  <2> SUFFICES ASSUME Inv, DeployNamed, [Next]_vars, at' = "menu", menu'.visible # <<>>
               PROVE  Step1
    OBVIOUS
  <2>1. Inv' /\ Highlights
    BY StepKeeps DEF Keeps
  <2>2. MenuOk(menu') /\ InView(menu')
    BY <2>1 DEF Inv, MenuDrawn
  <2>3. menu'.selected \in DOMAIN menu'.visible \cap Drawn(menu')
    BY <2>2 DEF MenuOk, InView
  <2> QED BY <2>1, <2>3 DEF Highlights, Strays
<1> QED BY <1>1, Invariance, PTL DEF Spec, HighlightShown

\* What is reported as verified is what is saved.
THEOREM VerifiedIsSaved == Spec => SavedIsVerified
<1>1. Inv /\ DeployNamed /\ [Next]_vars => [Verified]_vars
  BY StepKeeps DEF Keeps
<1> QED BY <1>1, Invariance, PTL DEF Spec, SavedIsVerified, Verified

\* A save changes one profile at most.
THEOREM OneProfileSaved == Spec => SavesOneProfile
<1>1. Inv /\ DeployNamed /\ [Next]_vars => [OneSaved]_vars
  BY StepKeeps DEF Keeps
<1> QED BY <1>1, Invariance, PTL DEF Spec, SavesOneProfile, OneSaved
=============================================================================
