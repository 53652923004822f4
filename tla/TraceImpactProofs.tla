-------------------------- MODULE TraceImpactProofs --------------------------
(***************************************************************************)
(* Proofs about TraceImpact, for any number of work products, links and    *)
(* handlers: the two recursive queries find exactly the links reached from *)
(* a work product, whatever cycles there are, and suspicion is not lost.   *)
(***************************************************************************)
EXTENDS TraceImpact, FiniteSetTheorems, NaturalsInduction, WellFoundedInduction, TLAPS

-----------------------------------------------------------------------------
(* What the properties rest on.                                            *)

\* The handlers of revisions of w.
On(w) == {h \in Handler : w \in effect[h].of}

\* A handler runs for one delivery, or has nothing.
EffectSound(h) ==
    /\ effect[h].running => \E w \in WorkProduct : effect[h].of = {w}
    /\ ~effect[h].running => effect[h].of = {} /\ effect[h].impact = {}
    /\ effect[h].impact \subseteq links

\* Every handler that runs has a delivery that is not done.
Counted == \A w \in WorkProduct : Cardinality(On(w)) <= due[w]

\* Links are never removed, so what rested on a work product still does.
UnseenRests == \A l \in Watched : \A w \in unseen[l] : l \in Dependents(w)

\* A delivery nobody has taken will find l, or a handler has found it.
Covered(w, l) ==
    \/ due[w] > Cardinality(On(w))
    \/ \E h \in On(w) : l \in effect[h].impact
UnseenCovered ==
    \A l \in Watched : unseen[l] # {} =>
        l \in suspect \/ \E w \in unseen[l] : Covered(w, l)

TInv ==
    /\ TypeOK
    /\ \A h \in Handler : EffectSound(h)
    /\ Counted
    /\ UnseenRests
    /\ UnseenCovered

-----------------------------------------------------------------------------
(* The rows of a recursive query.                                          *)

\* The two queries, of the links that rest on a work product ("up") and of
\* those it rests on ("down").
Direction == {"up", "down"}
FromOf(d, l) == IF d = "up" THEN l.target ELSE l.source
ToOf(d, l) == IF d = "up" THEN l.source ELSE l.target
FirstOf(d, l) == IF d = "up" THEN {l.target} ELSE {l.source, l.target}
SeenOf(l) == l.target

Row == [link : Link, path : SUBSET WorkProduct, cycle : BOOLEAN]
StartRows(d, w) ==
    {[link |-> l, path |-> FirstOf(d, l), cycle |-> FALSE] : l \in {x \in links : FromOf(d, x) = w}}
AfterRows(d, row) ==
    {[link |-> l, path |-> row.path \cup {SeenOf(l)}, cycle |-> SeenOf(l) \in row.path] :
        l \in {x \in links : FromOf(d, x) = ToOf(d, row.link)}}
Deeper(d, S) == UNION {AfterRows(d, row) : row \in {x \in S : ~x.cycle}}

\* f gives the rows of each depth up to D.
IsRows(d, w, D, f) ==
    f = [n \in 1..D |-> IF n = 1 THEN StartRows(d, w) ELSE Deeper(d, f[n - 1])]

\* Induction on a depth up to D.
LEMMA DepthInduction ==
  ASSUME NEW D \in Nat, NEW S, 1 \in S, \A n \in 1..D : n # D /\ n \in S => n + 1 \in S
  PROVE  1..D \subseteq S
<1>. DEFINE Wrong == {n \in 1..D : n \notin S}
<1>. SUFFICES ASSUME Wrong # {}
              PROVE  FALSE
  OBVIOUS
<1>1. Wrong \subseteq Nat
  OBVIOUS
<1>2. PICK n \in Wrong : \A m \in Wrong : <<m, n>> \notin OpToRel(<, Nat)
  <2>. HIDE DEF Wrong
  <2>. QED
    BY <1>1, WFMin, NatLessThanWellFounded
<1>3. \A m \in Wrong : ~(m < n)
  BY <1>1, <1>2 DEF OpToRel
<1>4. n \in 1..D /\ n # 1
  OBVIOUS
<1>5. n - 1 \in 1..D /\ n - 1 # D /\ n - 1 < n /\ (n - 1) + 1 = n
  BY <1>4
<1>6. n - 1 \in S
  BY <1>3, <1>5
<1>. QED
  BY <1>5, <1>6

LEMMA RowsExist ==
  ASSUME NEW d, NEW w, NEW D \in Nat
  PROVE  \E f : IsRows(d, w, D, f)
<1>. DEFINE S == {n \in 1..D : \E f : IsRows(d, w, n, f)}
<1>1. ASSUME D # 0
      PROVE  1 \in S
  <2>1. IsRows(d, w, 1, [n \in 1..1 |-> StartRows(d, w)])
    BY DEF IsRows
  <2>. QED
    BY <1>1, <2>1
<1>2. ASSUME NEW n \in 1..D, n # D, n \in S
      PROVE  n + 1 \in S
  <2>1. PICK f : IsRows(d, w, n, f)
    BY <1>2
  <2>. DEFINE g == [k \in 1..(n + 1) |-> IF k = n + 1 THEN Deeper(d, f[n]) ELSE f[k]]
  <2>2. ASSUME NEW k \in 1..(n + 1)
        PROVE  g[k] = IF k = 1 THEN StartRows(d, w) ELSE Deeper(d, g[k - 1])
    <3>1. CASE k = n + 1
      <4>1. k # 1 /\ k - 1 = n /\ n # n + 1 /\ n \in 1..(n + 1)
        BY <3>1
      <4>2. g[n] = f[n] /\ g[k] = Deeper(d, f[n])
        BY <3>1, <4>1
      <4>. QED
        BY <4>1, <4>2
    <3>2. CASE k # n + 1
      <4>1. k \in 1..n
        BY <3>2
      <4>2. g[k] = f[k]
        BY <3>2
      <4>3. f[k] = IF k = 1 THEN StartRows(d, w) ELSE Deeper(d, f[k - 1])
        BY <2>1, <4>1 DEF IsRows
      <4>4. k # 1 => g[k - 1] = f[k - 1]
        BY <4>1
      <4>. QED
        BY <4>2, <4>3, <4>4
    <3>. QED
      BY <3>1, <3>2
  <2>3. g = [k \in 1..(n + 1) |-> g[k]]
    OBVIOUS
  <2>. HIDE DEF g
  <2>4. IsRows(d, w, n + 1, g)
    BY <2>2, <2>3 DEF IsRows
  <2>5. n + 1 \in 1..D
    BY <1>2
  <2>. QED
    BY <2>4, <2>5
<1>3. CASE D = 0
  <2>1. IsRows(d, w, 0, [n \in 1..0 |-> {}])
    BY DEF IsRows
  <2>. QED
    BY <1>3, <2>1
<1>4. CASE D # 0
  <2>. HIDE DEF S
  <2>1. 1..D \subseteq S
    BY <1>1, <1>2, <1>4, DepthInduction
  <2>2. D \in 1..D
    BY <1>4
  <2>3. D \in S
    BY <2>1, <2>2
  <2>. QED
    BY <2>3 DEF S
<1>. QED
  BY <1>3, <1>4

\* The rows of all depths.
AllRows(f) == UNION {f[n] : n \in 1..MaxDepth}

\* What a query from w in direction d returns: the first rows, those after a
\* row that closes no cycle, and no others.
IsTraversal(d, w, R) ==
    /\ R \subseteq Row
    /\ StartRows(d, w) \subseteq R
    /\ \A row \in R : ~row.cycle => AfterRows(d, row) \subseteq R
    /\ \A P : /\ StartRows(d, w) \subseteq P
              /\ \A row \in R \cap P : ~row.cycle => AfterRows(d, row) \subseteq P
              => R \subseteq P

\* The types of the rows, and the length of a path: a link that closes no
\* cycle adds a work product to it.
LEMMA RowTypes ==
  ASSUME links \subseteq Link, NEW d \in Direction, NEW w \in WorkProduct
  PROVE  /\ \A row \in StartRows(d, w) :
               row \in Row /\ ~row.cycle /\ Cardinality(row.path) >= 1
         /\ \A row \in Row : \A next \in AfterRows(d, row) :
               /\ next \in Row
               /\ ~next.cycle => Cardinality(next.path) = Cardinality(row.path) + 1
<1>1. ASSUME NEW path \in SUBSET WorkProduct
      PROVE  /\ IsFiniteSet(path) /\ Cardinality(path) \in Nat
             /\ path # {} => Cardinality(path) >= 1
  BY SetsAssumption, FS_Subset, FS_CardinalityType, FS_EmptySet
<1>2. ASSUME NEW row \in StartRows(d, w)
      PROVE  row \in Row /\ ~row.cycle /\ Cardinality(row.path) >= 1
  <2>1. PICK l \in links : row = [link |-> l, path |-> FirstOf(d, l), cycle |-> FALSE]
    BY <1>2 DEF StartRows
  <2>2. l \in Link /\ FirstOf(d, l) \in SUBSET WorkProduct /\ FirstOf(d, l) # {}
    BY <2>1 DEF FirstOf, Link
  <2>. QED
    BY <1>1, <2>1, <2>2 DEF Row
<1>3. ASSUME NEW row \in Row, NEW next \in AfterRows(d, row)
      PROVE  /\ next \in Row
             /\ ~next.cycle => Cardinality(next.path) = Cardinality(row.path) + 1
  <2>1. PICK l \in links : next = [link |-> l, path |-> row.path \cup {SeenOf(l)},
                                   cycle |-> SeenOf(l) \in row.path]
    BY <1>3 DEF AfterRows
  <2>2. l \in Link /\ SeenOf(l) \in WorkProduct /\ row.path \in SUBSET WorkProduct
    BY <2>1 DEF SeenOf, Link, Row
  <2>3. next \in Row
    BY <2>1, <2>2 DEF Row
  <2>4. ~next.cycle => SeenOf(l) \notin row.path
    BY <2>1
  <2>5. ~next.cycle => Cardinality(row.path \cup {SeenOf(l)}) = Cardinality(row.path) + 1
    BY <1>1, <2>2, <2>4, FS_AddElement
  <2>. QED
    BY <2>1, <2>3, <2>5
<1>. QED
  BY <1>2, <1>3

\* The depth at which the queries stop leaves nothing out: a path that closes
\* no cycle is never so long.
LEMMA RowsTraverse ==
  ASSUME links \subseteq Link, NEW d \in Direction, NEW w \in WorkProduct,
         NEW f, IsRows(d, w, MaxDepth, f)
  PROVE  IsTraversal(d, w, AllRows(f))
<1>1. MaxDepth \in Nat /\ Cardinality(WorkProduct) \in Nat /\ Cardinality(WorkProduct) < MaxDepth
  BY DepthAssumption, SetsAssumption, FS_CardinalityType
<1>2. f[1] = StartRows(d, w) /\ 1 \in 1..MaxDepth
  BY <1>1 DEF IsRows
<1>3. \A n \in 1..MaxDepth : n # MaxDepth => f[n + 1] = Deeper(d, f[n]) /\ n + 1 \in 1..MaxDepth
  BY <1>1 DEF IsRows
<1>. DEFINE Long(n) == \A row \in f[n] : row \in Row /\ (~row.cycle => Cardinality(row.path) >= n)
            S == {n \in 1..MaxDepth : Long(n)}
<1>4. 1 \in S
  BY <1>2, RowTypes
<1>5. ASSUME NEW n \in 1..MaxDepth, n # MaxDepth, n \in S
      PROVE  n + 1 \in S
  <2>1. ASSUME NEW next \in f[n + 1]
        PROVE  next \in Row /\ (~next.cycle => Cardinality(next.path) >= n + 1)
    <3>1. PICK row \in f[n] : ~row.cycle /\ next \in AfterRows(d, row)
      BY <1>3, <1>5, <2>1 DEF Deeper
    <3>2. row \in Row /\ Cardinality(row.path) >= n
      BY <1>5, <3>1
    <3>3. Cardinality(row.path) \in Nat
      BY <3>2, SetsAssumption, FS_Subset, FS_CardinalityType DEF Row
    <3>4. next \in Row /\ (~next.cycle => Cardinality(next.path) = Cardinality(row.path) + 1)
      BY <3>1, <3>2, RowTypes
    <3>. QED
      BY <1>5, <3>2, <3>3, <3>4
  <2>. QED
    BY <1>3, <1>5, <2>1
<1>6. \A n \in 1..MaxDepth : Long(n)
  <2>1. 1..MaxDepth \subseteq S
    <3>. HIDE DEF S
    <3>. QED
      BY <1>1, <1>4, <1>5, DepthInduction
  <2>. QED
    BY <2>1
<1>7. AllRows(f) \subseteq Row
  BY <1>6 DEF AllRows
<1>8. StartRows(d, w) \subseteq AllRows(f)
  BY <1>2 DEF AllRows
<1>9. ASSUME NEW row \in AllRows(f), ~row.cycle
      PROVE  AfterRows(d, row) \subseteq AllRows(f)
  <2>1. PICK n \in 1..MaxDepth : row \in f[n]
    BY <1>9 DEF AllRows
  <2>2. row.path \in SUBSET WorkProduct /\ Cardinality(row.path) >= n
    BY <1>6, <1>9, <2>1 DEF Row
  <2>3. Cardinality(row.path) <= Cardinality(WorkProduct) /\ Cardinality(row.path) \in Nat
    BY <2>2, SetsAssumption, FS_Subset, FS_CardinalityType
  <2>4. n # MaxDepth
    BY <1>1, <2>2, <2>3
  <2>5. AfterRows(d, row) \subseteq f[n + 1]
    BY <1>3, <1>9, <2>1, <2>4 DEF Deeper
  <2>. QED
    BY <1>3, <2>4, <2>5 DEF AllRows
<1>10. ASSUME NEW P, StartRows(d, w) \subseteq P,
              \A row \in AllRows(f) \cap P : ~row.cycle => AfterRows(d, row) \subseteq P
       PROVE  AllRows(f) \subseteq P
  <2>. DEFINE Z == {n \in 1..MaxDepth : f[n] \subseteq P}
  <2>1. 1 \in Z
    BY <1>2, <1>10
  <2>2. ASSUME NEW n \in 1..MaxDepth, n # MaxDepth, n \in Z
        PROVE  n + 1 \in Z
    <3>1. f[n] \subseteq AllRows(f) \cap P
      BY <2>2 DEF AllRows
    <3>2. \A row \in f[n] : ~row.cycle => AfterRows(d, row) \subseteq P
      BY <1>10, <3>1
    <3>3. Deeper(d, f[n]) \subseteq P
      BY <3>2 DEF Deeper
    <3>. QED
      BY <1>3, <2>2, <3>3
  <2>3. 1..MaxDepth \subseteq Z
    <3>. HIDE DEF Z
    <3>. QED
      BY <1>1, <2>1, <2>2, DepthInduction
  <2>. QED
    BY <2>3 DEF AllRows
<1>. QED
  BY <1>7, <1>8, <1>9, <1>10 DEF IsTraversal


-----------------------------------------------------------------------------
(* What the queries find.                                                  *)

FirstLinks(d, w) == {x \in links : FromOf(d, x) = w}
ClosedIn(d, S) == \A l \in S, x \in links : FromOf(d, x) = ToOf(d, l) => x \in S
ReachedIn(d, w) ==
    {l \in links : \A S \in SUBSET links : FirstLinks(d, w) \subseteq S /\ ClosedIn(d, S) => l \in S}
Found(R) == {row.link : row \in R}

\* Every link found is reached.
LEMMA FoundIsReached ==
  ASSUME links \subseteq Link, NEW d \in Direction, NEW w \in WorkProduct,
         NEW R, IsTraversal(d, w, R)
  PROVE  Found(R) \subseteq ReachedIn(d, w)
<1>1. ASSUME NEW S \in SUBSET links, FirstLinks(d, w) \subseteq S, ClosedIn(d, S)
      PROVE  \A row \in R : row.link \in S
  <2>. DEFINE P == {row \in Row : row.link \in S}
  <2>1. StartRows(d, w) \subseteq P
    <3>1. \A row \in StartRows(d, w) : row \in Row
      BY RowTypes
    <3>2. \A row \in StartRows(d, w) : row.link \in FirstLinks(d, w)
      BY DEF StartRows, FirstLinks
    <3>. QED
      BY <1>1, <3>1, <3>2
  <2>2. ASSUME NEW row \in R \cap P, NEW next \in AfterRows(d, row)
        PROVE  next \in P
    <3>1. next \in Row
      BY <2>2, RowTypes
    <3>2. next.link \in links /\ FromOf(d, next.link) = ToOf(d, row.link)
      BY <2>2 DEF AfterRows
    <3>3. next.link \in S
      BY <1>1, <2>2, <3>2 DEF ClosedIn
    <3>. QED
      BY <3>1, <3>3
  <2>3. R \subseteq P
    <3>. HIDE DEF P
    <3>. QED
      BY <2>1, <2>2 DEF IsTraversal
  <2>. QED
    BY <2>3
<1>2. links \in SUBSET links /\ FirstLinks(d, w) \subseteq links /\ ClosedIn(d, links)
  BY DEF FirstLinks, ClosedIn
<1>3. \A row \in R : row.link \in links
  BY <1>1, <1>2
<1>. QED
  BY <1>1, <1>3 DEF Found, ReachedIn

\* The links that leave v are found, and so are those after the links that do.
Attached(d, v, R) == \A x \in links : FromOf(d, x) = v => x \in Found(R)
Followed(d, v, R) == \A x \in links : FromOf(d, x) = v => Attached(d, ToOf(d, x), R)

\* What a link to a work product seen before says about the links after it:
\* upwards that work product is where the link leaves, downwards where it leads.
Explored(d, R) ==
    IF d = "up" THEN {v \in WorkProduct : Followed(d, v, R)}
    ELSE {v \in WorkProduct : Attached(d, v, R)}

\* A row that closes no cycle is followed.
LEMMA RowIsFollowed ==
  ASSUME NEW d \in Direction, NEW w \in WorkProduct, NEW R, IsTraversal(d, w, R),
         NEW row \in R, ~row.cycle
  PROVE  Attached(d, ToOf(d, row.link), R)
<1>. SUFFICES ASSUME NEW x \in links, FromOf(d, x) = ToOf(d, row.link)
              PROVE  x \in Found(R)
  BY DEF Attached
<1>. DEFINE next == [link |-> x, path |-> row.path \cup {SeenOf(x)},
                     cycle |-> SeenOf(x) \in row.path]
<1>1. next \in AfterRows(d, row)
  BY DEF AfterRows
<1>2. next \in R /\ next.link = x
  BY <1>1 DEF IsTraversal
<1>. QED
  BY <1>2 DEF Found

\* The work products on the path of a row that closes no cycle are explored.
LEMMA PathIsExplored ==
  ASSUME links \subseteq Link, NEW d \in Direction, NEW w \in WorkProduct,
         NEW R, IsTraversal(d, w, R)
  PROVE  \A row \in R : ~row.cycle => row.path \subseteq Explored(d, R)
<1>. DEFINE E == Explored(d, R)
            P == {row \in Row : ~row.cycle => row.path \subseteq E}
<1>1. ASSUME NEW row \in StartRows(d, w)
      PROVE  row.path \subseteq E
  <2>1. PICK l \in links : /\ FromOf(d, l) = w
                           /\ row = [link |-> l, path |-> FirstOf(d, l), cycle |-> FALSE]
    BY <1>1 DEF StartRows
  <2>2. ASSUME NEW x \in links, FromOf(d, x) = w
        PROVE  x \in Found(R) /\ Attached(d, ToOf(d, x), R)
    <3>. DEFINE first == [link |-> x, path |-> FirstOf(d, x), cycle |-> FALSE]
    <3>1. first \in StartRows(d, w)
      BY <2>2 DEF StartRows
    <3>2. first \in R /\ ~first.cycle /\ first.link = x
      BY <3>1 DEF IsTraversal
    <3>. HIDE DEF first
    <3>3. Attached(d, ToOf(d, x), R)
      BY <3>2, RowIsFollowed
    <3>. QED
      BY <3>2, <3>3 DEF Found
  <2>3. Attached(d, w, R) /\ Followed(d, w, R)
    BY <2>2 DEF Attached, Followed
  <2>4. CASE d = "up"
    BY <2>1, <2>3, <2>4 DEF Explored, FirstOf, FromOf
  <2>5. CASE d = "down"
    <3>1. Attached(d, ToOf(d, l), R)
      BY <2>1, <2>2
    <3>2. l.source = w /\ l.target = ToOf(d, l) /\ l.target \in WorkProduct
      BY <2>1, <2>5 DEF FromOf, ToOf, Link
    <3>. QED
      BY <2>1, <2>3, <2>5, <3>1, <3>2 DEF Explored, FirstOf
  <2>. QED
    BY <2>4, <2>5 DEF Direction
<1>2. ASSUME NEW row \in R, ~row.cycle, row.path \subseteq E,
             NEW next \in AfterRows(d, row), ~next.cycle
      PROVE  next.path \subseteq E
  <2>1. PICK l \in links : /\ FromOf(d, l) = ToOf(d, row.link)
                           /\ next = [link |-> l, path |-> row.path \cup {SeenOf(l)},
                                      cycle |-> SeenOf(l) \in row.path]
    BY <1>2 DEF AfterRows
  <2>2. SeenOf(l) \in WorkProduct /\ SeenOf(l) \notin row.path
    BY <1>2, <2>1 DEF SeenOf, Link
  <2>3. next \in R
    BY <1>2 DEF IsTraversal
  <2>4. CASE d = "up"
    <3>1. SeenOf(l) = ToOf(d, row.link)
      BY <2>1, <2>4 DEF SeenOf, FromOf
    <3>2. ASSUME NEW x \in links, FromOf(d, x) = SeenOf(l)
          PROVE  Attached(d, ToOf(d, x), R)
      <4>. DEFINE other == [link |-> x, path |-> row.path \cup {SeenOf(x)},
                            cycle |-> SeenOf(x) \in row.path]
      <4>1. other \in AfterRows(d, row)
        BY <3>1, <3>2 DEF AfterRows
      <4>2. SeenOf(x) = SeenOf(l)
        BY <2>4, <3>2 DEF SeenOf, FromOf
      <4>3. other \in R /\ ~other.cycle /\ other.link = x
        BY <1>2, <2>2, <4>1, <4>2 DEF IsTraversal
      <4>. HIDE DEF other
      <4>. QED
        BY <4>3, RowIsFollowed
    <3>3. SeenOf(l) \in E
      BY <2>2, <2>4, <3>2 DEF Explored, Followed
    <3>. QED
      BY <1>2, <2>1, <3>3
  <2>5. CASE d = "down"
    <3>1. Attached(d, ToOf(d, next.link), R)
      BY <1>2, <2>3, RowIsFollowed
    <3>2. ToOf(d, next.link) = SeenOf(l)
      BY <2>1, <2>5 DEF ToOf, SeenOf
    <3>3. SeenOf(l) \in E
      BY <2>2, <2>5, <3>1, <3>2 DEF Explored
    <3>. QED
      BY <1>2, <2>1, <3>3
  <2>. QED
    BY <2>4, <2>5 DEF Direction
<1>. HIDE DEF E
<1>3. StartRows(d, w) \subseteq P
  BY <1>1, RowTypes
<1>4. ASSUME NEW row \in R \cap P, ~row.cycle, NEW next \in AfterRows(d, row)
      PROVE  next \in P
  BY <1>2, <1>4, RowTypes
<1>5. R \subseteq P
  <2>. HIDE DEF P
  <2>. QED
    BY <1>3, <1>4 DEF IsTraversal
<1>. QED
  BY <1>5 DEF E

\* Every link reached is found, also those after a link that closed a cycle.
LEMMA ReachedIsFound ==
  ASSUME links \subseteq Link, NEW d \in Direction, NEW w \in WorkProduct,
         NEW R, IsTraversal(d, w, R)
  PROVE  ReachedIn(d, w) \subseteq Found(R)
<1>1. FirstLinks(d, w) \subseteq Found(R)
  <2>. SUFFICES ASSUME NEW l \in links, FromOf(d, l) = w
                PROVE  l \in Found(R)
    BY DEF FirstLinks
  <2>. DEFINE first == [link |-> l, path |-> FirstOf(d, l), cycle |-> FALSE]
  <2>1. first \in StartRows(d, w)
    BY DEF StartRows
  <2>2. first \in R /\ first.link = l
    BY <2>1 DEF IsTraversal
  <2>. QED
    BY <2>2 DEF Found
<1>2. ASSUME NEW row \in R
      PROVE  Attached(d, ToOf(d, row.link), R)
  <2>. DEFINE P == {r \in Row : Attached(d, ToOf(d, r.link), R)}
  <2>1. StartRows(d, w) \subseteq P
    BY RowTypes, RowIsFollowed DEF IsTraversal
  <2>2. ASSUME NEW r \in R \cap P, ~r.cycle, NEW next \in AfterRows(d, r)
        PROVE  next \in P
    <3>1. next \in Row /\ next \in R
      BY <2>2, RowTypes DEF IsTraversal
    <3>2. CASE ~next.cycle
      BY <3>1, <3>2, RowIsFollowed
    <3>3. CASE next.cycle
      <4>1. SeenOf(next.link) \in r.path /\ next.link \in links
        <5>1. PICK l \in links : next = [link |-> l, path |-> r.path \cup {SeenOf(l)},
                                         cycle |-> SeenOf(l) \in r.path]
          BY <2>2 DEF AfterRows
        <5>. QED
          BY <3>3, <5>1
      <4>2. SeenOf(next.link) \in Explored(d, R)
        BY <2>2, <4>1, PathIsExplored
      <4>3. CASE d = "up"
        BY <3>1, <4>1, <4>2, <4>3 DEF Explored, Followed, SeenOf, FromOf
      <4>4. CASE d = "down"
        BY <3>1, <4>1, <4>2, <4>4 DEF Explored, SeenOf, ToOf
      <4>. QED
        BY <4>3, <4>4 DEF Direction
    <3>. QED
      BY <3>2, <3>3
  <2>3. R \subseteq P
    <3>. HIDE DEF P
    <3>. QED
      BY <2>1, <2>2 DEF IsTraversal
  <2>. QED
    BY <2>3
<1>3. ClosedIn(d, Found(R))
  BY <1>2 DEF ClosedIn, Attached, Found
<1>4. Found(R) \in SUBSET links
  BY FoundIsReached DEF ReachedIn
<1>. QED
  BY <1>1, <1>3, <1>4 DEF ReachedIn


-----------------------------------------------------------------------------
(* The two queries.                                                        *)

LEMMA ImpactTraverses ==
  ASSUME links \subseteq Link, NEW w \in WorkProduct
  PROVE  \E R : IsTraversal("up", w, R) /\ Impact(w) = Found(R)
<1>. DEFINE start == {[link |-> l, path |-> FirstOfImpact(l), cycle |-> FALSE] :
                         l \in {x \in links : Target(x) = w}}
            after(row) == {[link |-> l, path |-> row.path \cup {Target(l)},
                            cycle |-> Target(l) \in row.path] :
                              l \in {x \in links : Target(x) = Source(row.link)}}
            IsQuery(f) == f = [n \in 1..MaxDepth |->
                                  IF n = 1 THEN start
                                  ELSE UNION {after(row) : row \in {x \in f[n - 1] : ~x.cycle}}]
            query == CHOOSE f : IsQuery(f)
<1>1. start = StartRows("up", w)
  BY DEF StartRows, FirstOf, FromOf, FirstOfImpact, Target
<1>2. \A row : after(row) = AfterRows("up", row)
  BY DEF AfterRows, SeenOf, FromOf, ToOf, Target, Source
<1>3. Impact(w) = {row.link : row \in UNION {query[n] : n \in 1..MaxDepth}}
  BY DEF Impact, Rows
<1>. HIDE DEF start, after
<1>4. \A S : UNION {after(row) : row \in {x \in S : ~x.cycle}} = Deeper("up", S)
  BY <1>2, Zenon DEF Deeper
<1>5. \A f : IsQuery(f) <=> IsRows("up", w, MaxDepth, f)
  BY <1>1, <1>4, Zenon DEF IsRows
<1>6. \E f : IsQuery(f)
  BY <1>5, RowsExist, DepthAssumption
<1>. HIDE DEF IsQuery
<1>7. IsRows("up", w, MaxDepth, query)
  BY <1>5, <1>6
<1>8. IsTraversal("up", w, AllRows(query))
  BY <1>7, RowsTraverse DEF Direction
<1>. QED
  BY <1>3, <1>8 DEF AllRows, Found

LEMMA TraverseTraverses ==
  ASSUME links \subseteq Link, NEW w \in WorkProduct
  PROVE  \E R : IsTraversal("down", w, R) /\ Traverse(w) = Found(R)
<1>. DEFINE start == {[link |-> l, path |-> BothEnds(l), cycle |-> FALSE] :
                         l \in {x \in links : Source(x) = w}}
            after(row) == {[link |-> l, path |-> row.path \cup {SeenByTraverse(l)},
                            cycle |-> SeenByTraverse(l) \in row.path] :
                              l \in {x \in links : Source(x) = Target(row.link)}}
            IsQuery(f) == f = [n \in 1..MaxDepth |->
                                  IF n = 1 THEN start
                                  ELSE UNION {after(row) : row \in {x \in f[n - 1] : ~x.cycle}}]
            query == CHOOSE f : IsQuery(f)
<1>1. start = StartRows("down", w)
  BY DEF StartRows, FirstOf, FromOf, BothEnds, Source
<1>2. \A row : after(row) = AfterRows("down", row)
  BY DEF AfterRows, SeenOf, FromOf, ToOf, Target, Source, SeenByTraverse
<1>3. Traverse(w) = {row.link : row \in UNION {query[n] : n \in 1..MaxDepth}}
  BY DEF Traverse, Rows
<1>. HIDE DEF start, after
<1>4. \A S : UNION {after(row) : row \in {x \in S : ~x.cycle}} = Deeper("down", S)
  BY <1>2, Zenon DEF Deeper
<1>5. \A f : IsQuery(f) <=> IsRows("down", w, MaxDepth, f)
  BY <1>1, <1>4, Zenon DEF IsRows
<1>6. \E f : IsQuery(f)
  BY <1>5, RowsExist, DepthAssumption
<1>. HIDE DEF IsQuery
<1>7. IsRows("down", w, MaxDepth, query)
  BY <1>5, <1>6
<1>8. IsTraversal("down", w, AllRows(query))
  BY <1>7, RowsTraverse DEF Direction
<1>. QED
  BY <1>3, <1>8 DEF AllRows, Found

\* The query of the suspicion finds the dependents, whatever the links are.
LEMMA ImpactFinds ==
  ASSUME links \subseteq Link
  PROVE  ImpactIsClosure
<1>. SUFFICES ASSUME NEW w \in WorkProduct
              PROVE  Impact(w) = Dependents(w)
  BY DEF ImpactIsClosure
<1>1. PICK R : IsTraversal("up", w, R) /\ Impact(w) = Found(R)
  BY ImpactTraverses
<1>2. Found(R) = ReachedIn("up", w)
  BY <1>1, FoundIsReached, ReachedIsFound DEF Direction
<1>3. ReachedIn("up", w) = Dependents(w)
  BY DEF ReachedIn, FirstLinks, ClosedIn, FromOf, ToOf, Dependents, Reached, Closed, Target, Source
<1>. QED
  BY <1>1, <1>2, <1>3

\* So does the traversal.
LEMMA TraverseFinds ==
  ASSUME links \subseteq Link
  PROVE  TraversalIsComplete
<1>. SUFFICES ASSUME NEW w \in WorkProduct
              PROVE  Traverse(w) = Reached(w, Source, Target)
  BY DEF TraversalIsComplete
<1>1. PICK R : IsTraversal("down", w, R) /\ Traverse(w) = Found(R)
  BY TraverseTraverses
<1>2. Found(R) = ReachedIn("down", w)
  BY <1>1, FoundIsReached, ReachedIsFound DEF Direction
<1>3. ReachedIn("down", w) = Reached(w, Source, Target)
  BY DEF ReachedIn, FirstLinks, ClosedIn, FromOf, ToOf, Reached, Closed, Target, Source
<1>. QED
  BY <1>1, <1>2, <1>3

-----------------------------------------------------------------------------
(* The links reached from a work product.                                  *)

\* A set of links of L that holds the first links and is closed, and the
\* links in all of them.
Reaches(L, S, w) ==
    /\ \A l \in L : l.target = w => l \in S
    /\ \A l \in S, x \in L : x.target = l.source => x \in S
InAll(L, w) == {l \in L : \A S \in SUBSET L : Reaches(L, S, w) => l \in S}

\* Dependents finds them, at every moment.
LEMMA DependentsInAll ==
  ASSUME NEW w
  PROVE  Dependents(w) = InAll(links, w) /\ Dependents(w)' = InAll(links', w)
<1>1. ASSUME NEW L, NEW S \in SUBSET L
      PROVE  (/\ {x \in L : x.target = w} \subseteq S
              /\ \A l \in S, x \in L : x.target = l.source => x \in S)
             <=> Reaches(L, S, w)
  BY DEF Reaches
<1>2. Dependents(w) = InAll(links, w)
  BY <1>1 DEF Dependents, Reached, Closed, Target, Source, InAll
<1>3. Dependents(w)' = InAll(links', w)
  BY <1>1 DEF Dependents, Reached, Closed, Target, Source, InAll
<1>. QED
  BY <1>2, <1>3

\* More links, more dependents.
LEMMA DependentsGrow ==
  ASSUME links \subseteq links', NEW w
  PROVE  Dependents(w) \subseteq Dependents(w)'
<1>1. ASSUME NEW S \in SUBSET links', Reaches(links', S, w), NEW l \in InAll(links, w)
      PROVE  l \in S
  <2>1. S \cap links \in SUBSET links /\ Reaches(links, S \cap links, w)
    BY <1>1 DEF Reaches
  <2>. QED
    BY <2>1, <1>1 DEF InAll
<1>2. InAll(links, w) \subseteq InAll(links', w)
  BY <1>1 DEF InAll
<1>. QED
  BY <1>2, DependentsInAll

-----------------------------------------------------------------------------
(* Handlers of a work product.                                             *)

LEMMA OnFinite ==
  ASSUME NEW w
  PROVE  IsFiniteSet(On(w)) /\ Cardinality(On(w)) \in Nat
  BY SetsAssumption, FS_Subset, FS_CardinalityType DEF On

\* Nothing changes for the handlers.
LEMMA SameEffect ==
  ASSUME effect' = effect, NEW w
  PROVE  On(w)' = On(w)
  BY DEF On

\* A handler ends.
LEMMA EffectEnds ==
  ASSUME TInv, NEW h \in Handler, effect[h].running, effect' = [effect EXCEPT ![h] = NoEffect]
  PROVE  \E v \in WorkProduct :
            /\ effect[h].of = {v}
            /\ On(v)' = On(v) \ {h} /\ h \in On(v)
            /\ Cardinality(On(v)') = Cardinality(On(v)) - 1
            /\ \A w \in WorkProduct \ {v} : On(w)' = On(w)
            /\ \A k \in Handler \ {h} : effect'[k] = effect[k]
            /\ effect'[h] = NoEffect
<1>1. PICK v \in WorkProduct : effect[h].of = {v}
  BY DEF TInv, EffectSound
<1>2. effect'[h] = NoEffect /\ \A k \in Handler \ {h} : effect'[k] = effect[k]
  BY DEF TInv, TypeOK
<1>3. On(v)' = On(v) \ {h} /\ h \in On(v)
  BY <1>1, <1>2 DEF On, NoEffect
<1>4. \A w \in WorkProduct \ {v} : On(w)' = On(w)
  BY <1>1, <1>2 DEF On, NoEffect
<1>5. Cardinality(On(v)') = Cardinality(On(v)) - 1
  BY <1>3, OnFinite, FS_RemoveElement
<1>. QED
  BY <1>1, <1>2, <1>3, <1>4, <1>5

\* A handler that ended is sound, and so are the others.
LEMMA EffectsAfterEnd ==
  ASSUME TInv, NEW h \in Handler, effect'[h] = NoEffect, links' = links,
         \A k \in Handler \ {h} : effect'[k] = effect[k]
  PROVE  \A k \in Handler : EffectSound(k)'
<1>1. EffectSound(h)'
  BY DEF EffectSound, NoEffect
<1>2. ASSUME NEW k \in Handler \ {h}
      PROVE  EffectSound(k)'
  BY DEF TInv, EffectSound
<1>. QED
  BY <1>1, <1>2

LEMMA NoEffectType ==
  NoEffect \in [running : BOOLEAN, of : SUBSET WorkProduct, impact : SUBSET Link]
  BY DEF NoEffect

-----------------------------------------------------------------------------
(* Steps.                                                                  *)

LEMMA CreateTraceLinkSound ==
  ASSUME TInv, NEW l \in Link, CreateTraceLink(l)
  PROVE  TInv'
<1>1. links' = links \cup {l} /\ UNCHANGED <<suspect, revisions, due, effect, unseen>>
  BY DEF CreateTraceLink
<1>2. TypeOK' /\ (\A h \in Handler : EffectSound(h)') /\ Counted' /\ UnseenCovered'
  BY <1>1 DEF TInv, TypeOK, EffectSound, Counted, UnseenCovered, Covered, On
<1>3. \A w : Dependents(w) \subseteq Dependents(w)'
  BY <1>1, DependentsGrow
<1>4. UnseenRests'
  BY <1>1, <1>3 DEF TInv, UnseenRests
<1>. QED
  BY <1>2, <1>4 DEF TInv

LEMMA CommitRevisionSound ==
  ASSUME TInv, NEW v \in WorkProduct, CommitRevision(v)
  PROVE  TInv'
<1>1. /\ revisions' = revisions + 1 /\ due' = [due EXCEPT ![v] = @ + 1]
      /\ unseen' = [l \in Watched |-> IF l \in Dependents(v) THEN unseen[l] \cup {v} ELSE unseen[l]]
      /\ UNCHANGED <<links, suspect, effect>>
  BY DEF CommitRevision
<1>2. due \in [WorkProduct -> Nat] /\ unseen \in [Watched -> SUBSET WorkProduct]
  BY DEF TInv, TypeOK
<1>3. /\ due' \in [WorkProduct -> Nat] /\ due'[v] = due[v] + 1
      /\ \A w \in WorkProduct \ {v} : due'[w] = due[w]
  BY <1>1, <1>2
<1>4. unseen' \in [Watched -> SUBSET WorkProduct]
  BY <1>1, <1>2
<1>5. TypeOK' /\ \A h \in Handler : EffectSound(h)'
  BY <1>1, <1>3, <1>4 DEF TInv, TypeOK, EffectSound
<1>6. \A w : On(w)' = On(w) /\ Dependents(w)' = Dependents(w) /\ Cardinality(On(w)) \in Nat
  BY <1>1, OnFinite, DependentsInAll DEF On
<1>7. \A w \in WorkProduct : Cardinality(On(w)) <= due[w] /\ due[w] \in Nat
  BY <1>2 DEF TInv, Counted
<1>8. Counted'
  BY <1>3, <1>6, <1>7 DEF Counted
<1>9. UnseenRests'
  BY <1>1, <1>6 DEF TInv, UnseenRests
<1>10. \A l : Covered(v, l)'
  BY <1>3, <1>6, <1>7 DEF Covered
<1>11. \A l : \A w \in WorkProduct : Covered(w, l) => Covered(w, l)'
  BY <1>1, <1>3, <1>6, <1>10 DEF Covered
<1>12. UnseenCovered'
  BY <1>1, <1>2, <1>10, <1>11 DEF TInv, UnseenCovered
<1>. QED
  BY <1>5, <1>8, <1>9, <1>12 DEF TInv

LEMMA BeginEffectSound ==
  ASSUME TInv, NEW h \in Handler, NEW v \in WorkProduct, BeginEffect(h, v)
  PROVE  TInv'
<1>. DEFINE e == [running |-> TRUE, of |-> {v}, impact |-> Dependents(v)]
<1>1. /\ ~effect[h].running /\ due[v] > Cardinality(On(v))
      /\ effect' = [effect EXCEPT ![h] = e]
      /\ UNCHANGED <<links, suspect, revisions, due, unseen>>
  BY ImpactFinds DEF BeginEffect, Unhandled, Marked, ImpactIsClosure, TInv, TypeOK, On
<1>2. Dependents(v) \subseteq links /\ links \subseteq Link
  BY DependentsInAll DEF InAll, TInv, TypeOK
<1>3. e \in [running : BOOLEAN, of : SUBSET WorkProduct, impact : SUBSET Link]
  BY <1>2
<1>4. effect'[h] = e /\ \A k \in Handler \ {h} : effect'[k] = effect[k]
  BY <1>1 DEF TInv, TypeOK
<1>5. e.running /\ e.of = {v} /\ e.impact = Dependents(v)
  OBVIOUS
<1>. HIDE DEF e
<1>6. TypeOK'
  BY <1>1, <1>3 DEF TInv, TypeOK
<1>7. \A k \in Handler : EffectSound(k)'
  <2>1. EffectSound(h)'
    BY <1>1, <1>2, <1>4, <1>5 DEF EffectSound
  <2>2. ASSUME NEW k \in Handler \ {h}
        PROVE  EffectSound(k)'
    BY <1>1, <1>4 DEF TInv, EffectSound
  <2>. QED
    BY <2>1, <2>2
<1>8. effect[h].of = {} /\ effect[h].impact = {}
  BY <1>1 DEF TInv, EffectSound
<1>9. /\ On(v)' = On(v) \cup {h} /\ h \notin On(v)
      /\ \A w \in WorkProduct \ {v} : On(w)' = On(w)
  BY <1>4, <1>5, <1>8 DEF On
<1>10. Cardinality(On(v)') = Cardinality(On(v)) + 1 /\ Cardinality(On(v)) \in Nat
  BY <1>9, OnFinite, FS_AddElement
<1>11. due[v] \in Nat
  BY DEF TInv, TypeOK
<1>12. Counted'
  BY <1>1, <1>9, <1>10, <1>11 DEF TInv, Counted
<1>13. UnseenRests'
  BY <1>1, DependentsInAll DEF TInv, UnseenRests
<1>14. \A l \in Dependents(v) : Covered(v, l)'
  BY <1>4, <1>5, <1>9 DEF Covered
<1>15. \A l : \A w \in WorkProduct \ {v} : Covered(w, l) => Covered(w, l)'
  BY <1>1, <1>4, <1>8, <1>9 DEF Covered
<1>16. UnseenCovered'
  BY <1>1, <1>14, <1>15 DEF TInv, TypeOK, UnseenCovered, UnseenRests
<1>. QED
  BY <1>6, <1>7, <1>12, <1>13, <1>16 DEF TInv

LEMMA CommitEffectSound ==
  ASSUME TInv, NEW h \in Handler, CommitEffect(h)
  PROVE  TInv'
<1>1. /\ effect[h].running
      /\ suspect' = suspect \cup effect[h].impact
      /\ due' = [w \in WorkProduct |-> IF w \in effect[h].of THEN due[w] - 1 ELSE due[w]]
      /\ effect' = [effect EXCEPT ![h] = NoEffect]
      /\ UNCHANGED <<links, revisions, unseen>>
  BY DEF CommitEffect, CommitMarks
<1>2. PICK v \in WorkProduct :
            /\ effect[h].of = {v}
            /\ On(v)' = On(v) \ {h} /\ h \in On(v)
            /\ Cardinality(On(v)') = Cardinality(On(v)) - 1
            /\ \A w \in WorkProduct \ {v} : On(w)' = On(w)
            /\ \A k \in Handler \ {h} : effect'[k] = effect[k]
            /\ effect'[h] = NoEffect
  BY <1>1, EffectEnds
<1>3. \A w \in WorkProduct : /\ due[w] \in Nat /\ Cardinality(On(w)) \in Nat
                             /\ Cardinality(On(w)) <= due[w]
  BY OnFinite DEF TInv, TypeOK, Counted
<1>4. due'[v] = due[v] - 1 /\ \A w \in WorkProduct \ {v} : due'[w] = due[w]
  BY <1>1, <1>2
<1>5. Cardinality(On(v)) > 0
  BY <1>2, <1>3, OnFinite, FS_EmptySet
<1>6. due'[v] \in Nat /\ due' \in [WorkProduct -> Nat]
  <2>1. due'[v] \in Nat
    BY <1>3, <1>4, <1>5
  <2>. QED
    BY <1>1, <1>3, <1>4, <2>1
<1>7. TypeOK'
  BY <1>1, <1>6, NoEffectType DEF TInv, TypeOK, EffectSound
<1>8. \A k \in Handler : EffectSound(k)'
  BY <1>1, <1>2, EffectsAfterEnd
<1>9. Counted'
  <2>1. Cardinality(On(v)') <= due'[v]
    BY <1>2, <1>3, <1>4
  <2>2. \A w \in WorkProduct \ {v} : Cardinality(On(w)') <= due'[w]
    BY <1>2, <1>3, <1>4
  <2>. QED
    BY <2>1, <2>2 DEF Counted
<1>10. UnseenRests'
  BY <1>1, DependentsInAll DEF TInv, UnseenRests
<1>11. ASSUME NEW l, NEW w \in WorkProduct, Covered(w, l), l \notin suspect'
       PROVE  Covered(w, l)'
  <2>1. ASSUME due[w] > Cardinality(On(w))
        PROVE  due'[w] > Cardinality(On(w)')
    <3>1. CASE w = v
      <4>1. /\ due[v] \in Nat /\ Cardinality(On(v)) \in Nat /\ due[v] > Cardinality(On(v))
            /\ due'[v] = due[v] - 1 /\ Cardinality(On(v)') = Cardinality(On(v)) - 1
        BY <1>2, <1>3, <1>4, <2>1, <3>1
      <4>2. due'[v] > Cardinality(On(v)')
        BY <4>1
      <4>. QED
        BY <3>1, <4>2
    <3>2. CASE w # v
      BY <1>2, <1>4, <2>1, <3>2
    <3>. QED
      BY <3>1, <3>2
  <2>2. ASSUME NEW k \in On(w), l \in effect[k].impact
        PROVE  k \in On(w)' /\ l \in effect'[k].impact
    <3>1. k # h
      BY <1>1, <1>11, <2>2
    <3>. QED
      BY <1>2, <2>2, <3>1 DEF On
  <2>. QED
    BY <1>11, <2>1, <2>2 DEF Covered
<1>12. UnseenCovered'
  BY <1>1, <1>11 DEF TInv, TypeOK, UnseenCovered
<1>. QED
  BY <1>7, <1>8, <1>9, <1>10, <1>12 DEF TInv

LEMMA AbortEffectSound ==
  ASSUME TInv, NEW h \in Handler, AbortEffect(h)
  PROVE  TInv'
<1>1. /\ effect[h].running /\ effect' = [effect EXCEPT ![h] = NoEffect]
      /\ UNCHANGED <<links, suspect, revisions, due, unseen>>
  BY DEF AbortEffect
<1>2. PICK v \in WorkProduct :
            /\ effect[h].of = {v}
            /\ On(v)' = On(v) \ {h} /\ h \in On(v)
            /\ Cardinality(On(v)') = Cardinality(On(v)) - 1
            /\ \A w \in WorkProduct \ {v} : On(w)' = On(w)
            /\ \A k \in Handler \ {h} : effect'[k] = effect[k]
            /\ effect'[h] = NoEffect
  BY <1>1, EffectEnds
<1>3. \A w \in WorkProduct : /\ due[w] \in Nat /\ Cardinality(On(w)) \in Nat
                             /\ Cardinality(On(w)) <= due[w]
  BY OnFinite DEF TInv, TypeOK, Counted
<1>4. TypeOK'
  BY <1>1, NoEffectType DEF TInv, TypeOK
<1>5. \A k \in Handler : EffectSound(k)'
  BY <1>1, <1>2, EffectsAfterEnd
<1>6. Counted'
  BY <1>1, <1>2, <1>3 DEF Counted
<1>7. UnseenRests'
  BY <1>1, DependentsInAll DEF TInv, UnseenRests
<1>8. \A l : Covered(v, l)'
  BY <1>1, <1>2, <1>3 DEF Covered
<1>9. \A l : \A w \in WorkProduct \ {v} : Covered(w, l) => Covered(w, l)'
  BY <1>1, <1>2 DEF Covered, On
<1>10. UnseenCovered'
  BY <1>1, <1>8, <1>9 DEF TInv, TypeOK, UnseenCovered
<1>. QED
  BY <1>4, <1>5, <1>6, <1>7, <1>10 DEF TInv

LEMMA AcknowledgeSound ==
  ASSUME TInv, NEW l \in Link, AcknowledgeTraceLink(l)
  PROVE  TInv'
<1>1. /\ suspect' = suspect \ {l}
      /\ unseen' = [k \in Watched |-> IF k = l THEN {} ELSE unseen[k]]
      /\ UNCHANGED <<links, revisions, due, effect>>
  BY DEF AcknowledgeTraceLink
<1>2. TypeOK' /\ (\A h \in Handler : EffectSound(h)') /\ Counted'
  BY <1>1 DEF TInv, TypeOK, EffectSound, Counted, On
<1>3. UnseenRests'
  BY <1>1, DependentsInAll DEF TInv, UnseenRests
<1>4. \A k, w : Covered(w, k) => Covered(w, k)'
  BY <1>1 DEF Covered, On
<1>5. UnseenCovered'
  BY <1>1, <1>4 DEF TInv, UnseenCovered
<1>. QED
  BY <1>2, <1>3, <1>5 DEF TInv

-----------------------------------------------------------------------------
(* The inductive invariant.                                                *)

LEMMA InitSound ==
  ASSUME Init
  PROVE  TInv
<1>1. /\ links = {} /\ suspect = {} /\ revisions = 0 /\ due = [w \in WorkProduct |-> 0]
      /\ effect = [h \in Handler |-> NoEffect] /\ unseen = [l \in Watched |-> {}]
  BY DEF Init
<1>2. TypeOK
  BY <1>1, NoEffectType DEF TypeOK
<1>3. \A h \in Handler : EffectSound(h)
  BY <1>1 DEF EffectSound, NoEffect
<1>4. \A w \in WorkProduct : On(w) = {}
  BY <1>1 DEF On, NoEffect
<1>5. Counted
  BY <1>1, <1>4, FS_EmptySet DEF Counted
<1>6. UnseenRests /\ UnseenCovered
  BY <1>1 DEF UnseenRests, UnseenCovered
<1>. QED
  BY <1>2, <1>3, <1>5, <1>6 DEF TInv

LEMMA InvariantStep ==
  ASSUME TInv, [Next]_vars
  PROVE  TInv'
<1>1. ASSUME NEW l \in Link, CreateTraceLink(l) \/ AcknowledgeTraceLink(l)
      PROVE  TInv'
  BY <1>1, CreateTraceLinkSound, AcknowledgeSound
<1>2. ASSUME NEW w \in WorkProduct, CommitRevision(w)
      PROVE  TInv'
  BY <1>2, CommitRevisionSound
<1>3. ASSUME NEW h \in Handler, Effect(h) \/ AbortEffect(h)
      PROVE  TInv'
  BY <1>3, BeginEffectSound, CommitEffectSound, AbortEffectSound DEF Effect
<1>4. ASSUME UNCHANGED vars
      PROVE  TInv'
  <2>1. UNCHANGED <<links, suspect, revisions, due, effect, unseen>>
    BY <1>4 DEF vars
  <2>2. \A w : On(w)' = On(w) /\ Dependents(w)' = Dependents(w)
    BY <2>1, DependentsInAll DEF On
  <2>. QED
    BY <2>1, <2>2
    DEF TInv, TypeOK, EffectSound, Counted, UnseenRests, UnseenCovered, Covered
<1>. QED
  BY <1>1, <1>2, <1>3, <1>4 DEF Next

\* What links, handlers and deliveries keep at every step.
THEOREM Invariant == Spec => []TInv
<1>1. Init => TInv
  BY InitSound
<1>2. TInv /\ [Next]_vars => TInv'
  BY InvariantStep
<1>. QED
  BY <1>1, <1>2, PTL DEF Spec

\* Every variable has the type of its table or transaction.
THEOREM TypeCorrect == Spec => []TypeOK
<1>1. TInv => TypeOK
  BY DEF TInv
<1>. QED
  BY <1>1, Invariant, PTL

\* The query of propagateSuspect marks the links that rest on a work product,
\* all of them and no others.
THEOREM ImpactIsExact == Spec => []ImpactIsClosure
<1>1. TInv => ImpactIsClosure
  BY ImpactFinds DEF TInv, TypeOK
<1>. QED
  BY <1>1, Invariant, PTL

\* The traversal shows a user the links a work product rests on, all of them
\* and no others.
THEOREM TraversalIsExact == Spec => []TraversalIsComplete
<1>1. TInv => TraversalIsComplete
  BY TraverseFinds DEF TInv, TypeOK
<1>. QED
  BY <1>1, Invariant, PTL

\* Neither new links nor acknowledgements nor failing handlers lose a
\* suspicion.
THEOREM SuspicionIsKept == Spec => []SuspicionIsNotLost
<1>1. ASSUME TInv, NEW l \in Watched, NEW w \in unseen[l], Covered(w, l)
      PROVE  due[w] > 0
  <2>1. w \in WorkProduct /\ due[w] \in Nat
    BY <1>1 DEF TInv, TypeOK
  <2>2. Cardinality(On(w)) \in Nat /\ Cardinality(On(w)) <= due[w]
    BY <1>1, <2>1, OnFinite DEF TInv, Counted
  <2>3. On(w) # {} => Cardinality(On(w)) > 0
    BY <2>2, OnFinite, FS_EmptySet
  <2>. QED
    BY <1>1, <2>1, <2>2, <2>3 DEF Covered
<1>2. TInv => SuspicionIsNotLost
  BY <1>1 DEF TInv, UnseenCovered, SuspicionIsNotLost
<1>. QED
  BY <1>2, Invariant, PTL
=============================================================================
