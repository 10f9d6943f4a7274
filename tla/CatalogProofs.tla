----------------------------- MODULE CatalogProofs -----------------------------
(***************************************************************************)
(* What is proved for every value of the constants: of the pages of a      *)
(* listing, that none repeats an artifact or skips one that stayed; of a   *)
(* walk through the graph, what it shows while access changes; of the      *)
(* Slack adapter, what an artifact that keeps a search's result may hold;  *)
(* of the agent recipe, that it makes one artifact for each role.          *)
(***************************************************************************)
EXTENDS Catalog, FiniteSetTheorems, SequenceTheorems, WellFoundedInduction, TLAPS

------------------------------------------------------------------------------
(* Places in an order: R has every pair whose second comes after its first. *)
Comes(R, S) ==
  /\ \A a \in S : <<a, a>> \notin R
  /\ \A a, b, c \in S : <<a, b>> \in R /\ <<b, c>> \in R => <<a, c>> \in R
  /\ \A a, b \in S : a = b \/ <<a, b>> \in R \/ <<b, a>> \in R

PlaceIn(S, R, a) == Cardinality({b \in S : <<a, b>> \notin R})

LEMMA LaterGrows ==
  ASSUME NEW S, IsFiniteSet(S), NEW R, Comes(R, S), NEW a \in S, NEW b \in S, <<a, b>> \in R
  PROVE  PlaceIn(S, R, a) < PlaceIn(S, R, b)
<1> DEFINE T == {c \in S : <<b, c>> \notin R}
           U == {c \in S : <<a, c>> \notin R}
<1>1. IsFiniteSet(T)
  BY FS_Subset
<1>2. U \subseteq T /\ b \in T /\ b \notin U
  BY DEF Comes
<1>3. /\ IsFiniteSet(U) /\ Cardinality(U) <= Cardinality(T)
      /\ (Cardinality(T) = Cardinality(U) => T = U)
  BY <1>1, <1>2, FS_Subset
<1>4. Cardinality(T) \in Nat /\ Cardinality(U) \in Nat
  BY <1>1, <1>3, FS_CardinalityType
<1>5. T # U
  BY <1>2
<1> HIDE DEF T, U
<1>6. Cardinality(U) < Cardinality(T)
  BY <1>3, <1>4, <1>5
<1> QED BY <1>6 DEF T, U, PlaceIn

(* Each member has a place of its own, and every place is somebody's.       *)
LEMMA PlacesIn ==
  ASSUME NEW S, IsFiniteSet(S), NEW R, Comes(R, S)
  PROVE  /\ Cardinality(S) \in Nat
         /\ \A a \in S : PlaceIn(S, R, a) \in 1..Cardinality(S)
         /\ \A a, b \in S : PlaceIn(S, R, a) = PlaceIn(S, R, b) => a = b
         /\ \A n \in 1..Cardinality(S) : \E a \in S : PlaceIn(S, R, a) = n
<1> DEFINE N == Cardinality(S)
           f == [a \in S |-> PlaceIn(S, R, a)]
<1>1. N \in Nat
  BY FS_CardinalityType
<1>2. ASSUME NEW a \in S PROVE PlaceIn(S, R, a) \in 1..N
  <2> DEFINE T == {b \in S : <<a, b>> \notin R}
  <2>1. IsFiniteSet(T) /\ Cardinality(T) <= N
    BY FS_Subset
  <2>2. Cardinality(T) \in Nat /\ a \in T
    BY <2>1, FS_CardinalityType DEF Comes
  <2>3. Cardinality(T) # 0
    BY <2>1, <2>2, FS_EmptySet
  <2> HIDE DEF T, N
  <2>4. Cardinality(T) \in 1..N
    BY <1>1, <2>1, <2>2, <2>3
  <2> QED BY <2>4 DEF T, PlaceIn
<1>3. ASSUME NEW a \in S, NEW b \in S, PlaceIn(S, R, a) = PlaceIn(S, R, b) PROVE a = b
  <2>1. PlaceIn(S, R, a) \in Int
    BY <1>2
  <2>2. <<a, b>> \notin R
    BY <1>3, <2>1, LaterGrows
  <2>3. <<b, a>> \notin R
    BY <1>3, <2>1, LaterGrows
  <2> QED BY <2>2, <2>3 DEF Comes
<1>4. f \in Injection(S, 1..N)
  <2>1. f \in [S -> 1..N]
    BY <1>2
  <2> QED BY <1>3, <2>1, Zenon DEF Injection, IsInjective
<1>5. IsFiniteSet(1..N) /\ Cardinality(1..N) = N
  BY <1>1, FS_Interval
<1> HIDE DEF N, f
<1>6. f \in Surjection(S, 1..N)
  BY <1>4, <1>5, FS_Injection DEF N
<1>7. \A n \in 1..N : \E a \in S : f[a] = n
  BY <1>6 DEF Surjection
<1> QED BY <1>1, <1>2, <1>3, <1>7 DEF f, N

LEMMA PlaceTaken ==
  ASSUME NEW S, IsFiniteSet(S), NEW R, Comes(R, S), NEW n \in 1..Cardinality(S)
  PROVE  \E a \in S : PlaceIn(S, R, a) = n
BY PlacesIn

------------------------------------------------------------------------------
(* Pages of a listing *)

Keys == Nat \X Nat

LEMMA OlderOrders ==
  /\ \A k \in Keys : ~Older(k, k)
  /\ \A k, l, m \in Keys : Older(k, l) /\ Older(l, m) => Older(k, m)
  /\ \A k, l \in Keys : k = l \/ Older(k, l) \/ Older(l, k)
<1>1. ASSUME NEW k \in Keys PROVE ~Older(k, k)
  BY DEF Older, Keys
<1>2. ASSUME NEW k \in Keys, NEW l \in Keys, NEW m \in Keys, Older(k, l), Older(l, m)
      PROVE  Older(k, m)
  <2>1. {k[1], k[2], l[1], l[2], m[1], m[2]} \subseteq Nat
    BY DEF Keys
  <2> QED BY <1>2, <2>1 DEF Older
<1>3. ASSUME NEW k \in Keys, NEW l \in Keys PROVE k = l \/ Older(k, l) \/ Older(l, k)
  <2>1. k = <<k[1], k[2]>> /\ l = <<l[1], l[2]>> /\ {k[1], k[2], l[1], l[2]} \subseteq Nat
    BY DEF Keys
  <2>2. k[1] = l[1] /\ k[2] = l[2] => k = l
    BY <2>1
  <2> QED BY <2>1, <2>2 DEF Older
<1> QED BY <1>1, <1>2, <1>3

WalkRec ==
  [pc : {"paging", "done"}, op : {"list", "search", "short"}, cursor : Keys, listed : Seq(Artifacts),
   steady : SUBSET Artifacts, crowded : BOOLEAN]

Listed(w) == {w.listed[i] : i \in DOMAIN w.listed}

(* What the pages owe: no artifact that was listed lies behind the cursor,  *)
(* and one that is steady does, or was listed, if it is named so or there    *)
(* were never too many rows.                                                *)
WalkOk(w, found, named, at) ==
  \/ w = NoWalk
  \/ /\ w \in WalkRec
     /\ \A i, j \in DOMAIN w.listed : w.listed[i] = w.listed[j] => i = j
     /\ \A a \in Listed(w) : ~Older(<<at[a], a>>, w.cursor)
     /\ w.steady \subseteq found
     /\ \A a \in w.steady : a \in named \/ ~w.crowded =>
          a \in Listed(w) \/ (w.pc = "paging" /\ Older(<<at[a], a>>, w.cursor))

PagesInv ==
  /\ now \in 0..PagesTime
  /\ stamp \in [Artifacts -> 0..(now + 1)]
  /\ \/ writer = NoWriter
     \/ /\ writer.art \in Artifacts /\ writer.at \in 1..(now + 1)
        /\ \A a \in Artifacts : stamp[a] <= writer.at
  /\ hits \in [Artifacts -> Nat] /\ readable \subseteq Artifacts
  /\ WalkOk(walk, Found(walk.op), titled, stamp)

LEMMA InitPagesInv == Init => PagesInv
<1> SUFFICES ASSUME Init PROVE PagesInv
  OBVIOUS
<1>1. now = 0 /\ stamp \in [Artifacts -> {0, 1}] /\ writer = NoWriter /\ walk = NoWalk
  BY DEF Init, PagesInit
<1>2. stamp \in [Artifacts -> 0..(now + 1)]
  BY <1>1
<1>3. hits \in [Artifacts -> Nat] /\ readable \subseteq Artifacts
  <2>1. readable \in SUBSET {a \in Artifacts : stamp[a] > 0} /\ hits \in [Artifacts -> RowCounts]
    BY DEF Init, PagesInit
  <2> QED BY <2>1, PagesAssumption
<1> QED BY <1>1, <1>2, <1>3, PagesAssumption DEF PagesInv, WalkOk

LEMMA PagesHold == PagesInv => PagesWhole
<1> SUFFICES ASSUME PagesInv, walk.pc \in {"paging", "done"}
             PROVE  /\ \A i, j \in DOMAIN walk.listed : walk.listed[i] = walk.listed[j] => i = j
                    /\ walk.pc = "done" =>
                         \A a \in walk.steady :
                           a \in titled \/ ~walk.crowded => a \in ToSet(walk.listed)
  BY DEF PagesWhole
<1>1. walk # NoWalk
  BY DEF NoWalk
<1> QED BY <1>1 DEF PagesInv, WalkOk, Listed, ToSet

(* What a page is cut from. *)
LEMMA Ordered ==
  ASSUME stamp \in [Artifacts -> Nat], NEW arts \in SUBSET Artifacts
  PROVE  /\ InOrder(arts) \in Seq(Artifacts) /\ Cardinality(arts) \in Nat
         /\ Len(InOrder(arts)) = Cardinality(arts)
         /\ \A i \in 1..Cardinality(arts) : InOrder(arts)[i] \in arts
         /\ \A i, j \in 1..Cardinality(arts) :
              i < j => Older(Key(InOrder(arts)[j]), Key(InOrder(arts)[i]))
         /\ \A a \in arts : \E i \in 1..Cardinality(arts) : InOrder(arts)[i] = a
<1> DEFINE N == Cardinality(arts)
           R == {p \in arts \X arts : Older(Key(p[2]), Key(p[1]))}
           place(a) == Cardinality({b \in arts : ~Older(Key(b), Key(a))})
           who(n) == CHOOSE a \in arts : place(a) = n
           items == [n \in 1..N |-> who(n)]
<1>1. IsFiniteSet(arts) /\ arts \subseteq Nat
  BY PagesAssumption, FS_Subset
<1>2. \A a \in arts : Key(a) \in Keys
  BY <1>1 DEF Key, Keys
<1>r. \A a, b \in arts : <<a, b>> \in R <=> Older(Key(b), Key(a))
  OBVIOUS
<1>3. Comes(R, arts)
  <2>1. \A a, b \in arts : Key(a) = Key(b) => a = b
    BY DEF Key
  <2> HIDE DEF R
  <2>2. \A a \in arts : <<a, a>> \notin R
    BY <1>2, <1>r, OlderOrders
  <2>3. \A a, b, c \in arts : <<a, b>> \in R /\ <<b, c>> \in R => <<a, c>> \in R
    BY <1>2, <1>r, OlderOrders
  <2>4. \A a, b \in arts : a = b \/ <<a, b>> \in R \/ <<b, a>> \in R
    BY <1>2, <1>r, <2>1, OlderOrders
  <2> QED BY <2>2, <2>3, <2>4 DEF Comes
<1>4. \A a \in arts : PlaceIn(arts, R, a) = place(a)
  <2> TAKE a \in arts
  <2>1. {b \in arts : <<a, b>> \notin R} = {b \in arts : ~Older(Key(b), Key(a))}
    BY <1>r
  <2> QED BY <2>1 DEF PlaceIn
<1>5. InOrder(arts) = items
  BY DEF InOrder
<1> HIDE DEF R, place, N
<1>6. /\ N \in Nat
      /\ \A a \in arts : place(a) \in 1..N
      /\ \A a, b \in arts : place(a) = place(b) => a = b
      /\ \A n \in 1..N : \E a \in arts : place(a) = n
  <2> HIDE DEF who, items
  <2>1. N \in Nat
    BY <1>1, FS_CardinalityType DEF N
  <2>2. \A a \in arts : PlaceIn(arts, R, a) \in 1..N
    BY <1>1, <1>3, PlacesIn DEF N
  <2>3. \A a, b \in arts : PlaceIn(arts, R, a) = PlaceIn(arts, R, b) => a = b
    BY <1>1, <1>3, PlacesIn
  <2>4. \A n \in 1..N : \E a \in arts : PlaceIn(arts, R, a) = n
    <3>1. \A n \in 1..Cardinality(arts) : \E a \in arts : PlaceIn(arts, R, a) = n
      <4> TAKE n \in 1..Cardinality(arts)
      <4> QED BY <1>1, <1>3, PlaceTaken
    <3> QED BY <3>1 DEF N
  <2> QED BY <1>4, <2>1, <2>2, <2>3, <2>4
<1>7. \A a, b \in arts : Older(Key(b), Key(a)) => place(a) < place(b)
  <2> HIDE DEF who, items
  <2>1. \A a, b \in arts : <<a, b>> \in R => PlaceIn(arts, R, a) < PlaceIn(arts, R, b)
    BY <1>1, <1>3, LaterGrows
  <2> QED BY <1>4, <1>r, <2>1
<1>8. \A n \in 1..N : who(n) \in arts /\ place(who(n)) = n
  BY <1>6
<1> HIDE DEF who
<1>9. DOMAIN items = 1..N /\ \A n \in 1..N : items[n] = who(n)
  OBVIOUS
<1>10. items \in Seq(Artifacts) /\ Len(items) = N
  <2>1. items \in [1..N -> Artifacts]
    BY <1>8
  <2> HIDE DEF items
  <2> QED BY <1>6, <1>9, <2>1
<1> HIDE DEF items
<1>11. ASSUME NEW i \in 1..N, NEW j \in 1..N, i < j PROVE Older(Key(items[j]), Key(items[i]))
  <2>1. items[i] \in arts /\ items[j] \in arts /\ place(items[i]) = i /\ place(items[j]) = j
    BY <1>8, <1>9
  <2>2. items[i] # items[j]
    BY <1>11, <2>1
  <2>3. ~Older(Key(items[i]), Key(items[j]))
    BY <1>6, <1>7, <1>11, <2>1
  <2>4. <<items[i], items[j]>> \in R \/ <<items[j], items[i]>> \in R
    BY <1>3, <2>1, <2>2 DEF Comes
  <2> QED BY <1>r, <2>1, <2>3, <2>4
<1>12. ASSUME NEW a \in arts PROVE \E i \in 1..N : items[i] = a
  <2>1. place(a) \in 1..N
    BY <1>6
  <2>2. who(place(a)) = a
    BY <1>6, <1>8, <2>1
  <2> QED BY <1>9, <2>1, <2>2
<1> QED BY <1>5, <1>6, <1>8, <1>9, <1>10, <1>11, <1>12 DEF N

(* One page: its last item is the new cursor, and parts those shown from    *)
(* those behind it.                                                         *)
Cut(arts, k) == SubSeq(InOrder(arts), 1, k)

LEMMA PageCut ==
  ASSUME stamp \in [Artifacts -> Nat], NEW arts \in SUBSET Artifacts, NEW k \in Nat,
         k <= Cardinality(arts), k = 0 => Cardinality(arts) = 0
  PROVE  /\ Cut(arts, k) \in Seq(Artifacts)
         /\ Cut(arts, k) = <<>> => arts = {}
         /\ Cut(arts, k) # <<>> => Len(Cut(arts, k)) \in Nat \ {0} /\ Last(Cut(arts, k)) \in arts
         /\ \A i \in DOMAIN Cut(arts, k) : Cut(arts, k)[i] \in arts
         /\ \A i, j \in DOMAIN Cut(arts, k) : Cut(arts, k)[i] = Cut(arts, k)[j] => i = j
         /\ Cut(arts, k) # <<>> =>
              \A i \in DOMAIN Cut(arts, k) : ~Older(Key(Cut(arts, k)[i]), Key(Last(Cut(arts, k))))
         /\ Cut(arts, k) # <<>> =>
              \A a \in arts : \/ \E i \in DOMAIN Cut(arts, k) : Cut(arts, k)[i] = a
                             \/ Older(Key(a), Key(Last(Cut(arts, k))))
<1> DEFINE items == InOrder(arts)
           page == Cut(arts, k)
           N == Cardinality(arts)
<1>1. /\ items \in Seq(Artifacts) /\ N \in Nat /\ Len(items) = N
      /\ \A i \in 1..N : items[i] \in arts
      /\ \A i, j \in 1..N : i < j => Older(Key(items[j]), Key(items[i]))
      /\ \A a \in arts : \E i \in 1..N : items[i] = a
  BY Ordered
<1>2. \A a \in arts : Key(a) \in Keys
  BY PagesAssumption DEF Key, Keys
<1>3. page = SubSeq(items, 1, k)
  BY <1>1 DEF Cut
<1>0. k \in Nat /\ k <= N /\ (k = 0 => N = 0)
  OBVIOUS
<1> HIDE DEF items, N, page
<1>4. k \in Nat /\ k <= N /\ 1..k \subseteq 1..N /\ (k = 0 => N = 0)
  BY <1>1, <1>0
<1>5. page \in Seq(Artifacts) /\ Len(page) = k /\ DOMAIN page = 1..k
      /\ \A i \in 1..k : page[i] = items[i]
  <2>1. \A i \in 1..k : items[i] \in Artifacts
    BY <1>1, <1>4
  <2>t. 1 \in Int /\ k \in Int
    BY <1>4
  <2>a. SubSeq(items, 1, k) \in Seq(Artifacts)
    BY <2>1, <2>t, SubSeqProperties
  <2>b. Len(SubSeq(items, 1, k)) = (IF 1 <= k THEN k - 1 + 1 ELSE 0)
    BY <2>1, <2>t, SubSeqProperties
  <2>c. \A i \in 1..(k - 1 + 1) : SubSeq(items, 1, k)[i] = items[1 + i - 1]
    BY <2>1, <2>t, SubSeqProperties
  <2>2. page \in Seq(Artifacts) /\ Len(page) = (IF 1 <= k THEN k - 1 + 1 ELSE 0)
        /\ \A i \in 1..(k - 1 + 1) : page[i] = items[1 + i - 1]
    BY <1>3, <2>a, <2>b, <2>c
  <2>3. Len(page) = k
    BY <1>4, <2>2
  <2>4. \A i \in 1..k : i \in 1..(k - 1 + 1) /\ 1 + i - 1 = i
    BY <1>4
  <2>5. \A i \in 1..k : page[i] = items[i]
    BY <2>2, <2>4
  <2> QED BY <2>2, <2>3, <2>5, LenProperties
<1>6. page = <<>> <=> k = 0
  BY <1>5, EmptySeq
<1>7. page = <<>> => arts = {}
  <2>1. k = 0 => 1..N = {}
    BY <1>4
  <2> QED BY <1>1, <1>6, <2>1
<1>8. page # <<>> => k \in 1..k /\ Last(page) = items[k] /\ items[k] \in arts
  BY <1>1, <1>4, <1>5, <1>6 DEF Last
<1>9. \A i, j \in 1..N : items[i] = items[j] => i = j
  <2> TAKE i, j \in 1..N
  <2>1. ~Older(Key(items[i]), Key(items[i]))
    BY <1>1, <1>2, OlderOrders
  <2>2. i < j => items[i] # items[j]
    BY <1>1, <2>1
  <2>3. j < i => items[i] # items[j]
    BY <1>1, <2>1
  <2> QED BY <2>2, <2>3
<1>10. page # <<>> => \A i \in 1..k : ~Older(Key(items[i]), Key(items[k]))
  <2> SUFFICES ASSUME page # <<>>, NEW i \in 1..k PROVE ~Older(Key(items[i]), Key(items[k]))
    OBVIOUS
  <2>1. {items[i], items[k]} \subseteq arts /\ i \in 1..N /\ k \in 1..N
    BY <1>1, <1>4, <1>8
  <2>2. CASE i = k
    BY <2>1, <2>2, <1>2, OlderOrders
  <2>3. CASE i # k
    <3>1. i < k
      BY <1>4, <2>3
    <3>2. Older(Key(items[k]), Key(items[i]))
      BY <1>1, <2>1, <3>1
    <3> QED BY <1>2, <2>1, <3>2, OlderOrders
  <2> QED BY <2>2, <2>3
<1>11. page # <<>> => \A a \in arts : (\E i \in 1..k : items[i] = a) \/ Older(Key(a), Key(items[k]))
  <2> SUFFICES ASSUME page # <<>>, NEW a \in arts, \A i \in 1..k : items[i] # a
               PROVE  Older(Key(a), Key(items[k]))
    OBVIOUS
  <2>1. PICK i \in 1..N : items[i] = a
    BY <1>1
  <2>2. k \in 1..N /\ k < i
    BY <1>1, <1>4, <1>8, <2>1
  <2> QED BY <1>1, <2>1, <2>2
<1>12. page # <<>> => Len(page) \in Nat \ {0} /\ Last(page) \in arts
  BY <1>4, <1>5, <1>6, <1>8
<1>13. \A i \in DOMAIN page : page[i] \in arts
  BY <1>1, <1>4, <1>5
<1>14. \A i, j \in DOMAIN page : page[i] = page[j] => i = j
  BY <1>4, <1>5, <1>9
<1>15. page # <<>> => \A i \in DOMAIN page : ~Older(Key(page[i]), Key(Last(page)))
  BY <1>5, <1>8, <1>10
<1>16. page # <<>> => \A a \in arts : \/ \E i \in DOMAIN page : page[i] = a
                                      \/ Older(Key(a), Key(Last(page)))
  BY <1>5, <1>8, <1>11
<1> QED BY <1>5, <1>7, <1>12, <1>13, <1>14, <1>15, <1>16 DEF page

LEMMA WalkParts ==
  ASSUME NEW w \in WalkRec
  PROVE  /\ w.cursor \in Keys /\ w.listed \in Seq(Artifacts) /\ w.steady \subseteq Artifacts
         /\ w.crowded \in BOOLEAN /\ w.pc \in {"paging", "done"} /\ w # NoWalk
<1>1. NoWalk.pc = "idle"
  BY DEF NoWalk
<1> QED BY <1>1 DEF WalkRec

(* An artifact is written or its access changes: no stamp falls, and the    *)
(* caller counts on it no more.                                             *)
LEMMA DisturbedOk ==
  ASSUME NEW w, NEW v, NEW found, NEW later, NEW named, NEW called, NEW at \in [Artifacts -> Nat],
         NEW bt \in [Artifacts -> Nat], NEW a \in Artifacts, WalkOk(w, found, named, at),
         \A b \in Artifacts : at[b] <= bt[b], \A b \in Artifacts \ {a} : at[b] = bt[b],
         \A b \in found : b # a => b \in later, \A b \in called : b # a => b \in named,
         v = IF w.pc = "idle" THEN w ELSE [w EXCEPT !.steady = @ \ {a}]
  PROVE  WalkOk(v, later, called, bt)
<1>1. CASE w = NoWalk
  BY <1>1 DEF WalkOk, NoWalk
<1>2. CASE w # NoWalk
  <2>1. /\ w \in WalkRec
        /\ \A i, j \in DOMAIN w.listed : w.listed[i] = w.listed[j] => i = j
        /\ \A b \in Listed(w) : ~Older(<<at[b], b>>, w.cursor)
        /\ w.steady \subseteq found
        /\ \A b \in w.steady : b \in named \/ ~w.crowded =>
             b \in Listed(w) \/ (w.pc = "paging" /\ Older(<<at[b], b>>, w.cursor))
    BY <1>2 DEF WalkOk
  <2> DEFINE t == w.steady \ {a}
  <2>2. v = [w EXCEPT !.steady = t]
    BY <2>1, WalkParts
  <2>3. t \subseteq Artifacts
    BY <2>1, WalkParts
  <2> HIDE DEF t
  <2>4. /\ v \in WalkRec /\ v.pc = w.pc /\ v.cursor = w.cursor /\ v.listed = w.listed
        /\ v.steady = t /\ v.crowded = w.crowded
    BY <2>1, <2>2, <2>3 DEF WalkRec
  <2>5. Listed(v) = Listed(w) /\ Listed(w) \subseteq Artifacts
    <3>1. w.listed \in Seq(Artifacts)
      BY <2>1, WalkParts
    <3>2. Listed(w) \subseteq Artifacts
      BY <3>1, LenProperties, ElementOfSeq DEF Listed
    <3> QED BY <2>4, <3>2 DEF Listed
  <2>6. \A b \in Artifacts : Older(<<bt[b], b>>, w.cursor) => Older(<<at[b], b>>, w.cursor)
    <3> SUFFICES ASSUME NEW b \in Artifacts, Older(<<bt[b], b>>, w.cursor)
                 PROVE  Older(<<at[b], b>>, w.cursor)
      OBVIOUS
    <3>1. at[b] \in Nat /\ bt[b] \in Nat /\ at[b] <= bt[b] /\ w.cursor[1] \in Nat
      BY <2>1, WalkParts DEF Keys
    <3> QED BY <3>1 DEF Older
  <2>7. \A b \in Listed(v) : ~Older(<<bt[b], b>>, v.cursor)
    BY <2>1, <2>4, <2>5, <2>6
  <2>8. v.steady \subseteq later
    BY <2>1, <2>4 DEF t
  <2>9. ASSUME NEW b \in v.steady, b \in called \/ ~v.crowded
        PROVE  b \in Listed(v) \/ (v.pc = "paging" /\ Older(<<bt[b], b>>, v.cursor))
    <3>1. b \in w.steady /\ b # a /\ b \in Artifacts
      BY <2>3, <2>4, <2>9 DEF t
    <3>2. bt[b] = at[b]
      BY <3>1
    <3> QED BY <2>1, <2>4, <2>5, <2>9, <3>1, <3>2
  <2> QED BY <2>1, <2>4, <2>7, <2>8, <2>9 DEF WalkOk
<1> QED BY <1>1, <1>2

(* A page is shown. *)
LEMMA ShownOk ==
  ASSUME PagesInv, walk.pc = "paging", NEW arts \in SUBSET Eligible, Eligible \cap titled \subseteq arts,
         ~TooMany => arts = Eligible, NEW k \in Lengths(InOrder(arts)), Page(arts, k)
  PROVE  WalkOk(walk', Found(walk.op), titled, stamp)
<1> DEFINE page == Cut(arts, k)
           w == walk
           found == Found(walk.op)
<1>1. /\ w \in WalkRec
      /\ \A i, j \in DOMAIN w.listed : w.listed[i] = w.listed[j] => i = j
      /\ \A b \in Listed(w) : ~Older(Key(b), w.cursor)
      /\ w.steady \subseteq found
      /\ \A b \in w.steady : b \in titled \/ ~w.crowded => b \in Listed(w) \/ Older(Key(b), w.cursor)
  <2>1. w # NoWalk
    BY DEF NoWalk
  <2> QED BY <2>1 DEF PagesInv, WalkOk, Key
<1>2. /\ w.cursor \in Keys /\ w.listed \in Seq(Artifacts) /\ w.steady \subseteq Artifacts
      /\ w.crowded \in BOOLEAN
  BY <1>1, WalkParts
<1>s. stamp \in [Artifacts -> Nat]
  BY DEF PagesInv
<1>3. /\ arts \in SUBSET Artifacts
      /\ \A a \in arts : Older(Key(a), w.cursor)
  BY DEF Eligible, Found, PagesInv
<1>l. k \in Nat /\ k <= Cardinality(arts) /\ (k = 0 => Cardinality(arts) = 0)
  <2>1. Len(InOrder(arts)) = Cardinality(arts) /\ Cardinality(arts) \in Nat
    BY <1>s, <1>3, Ordered
  <2> QED BY <2>1, PagesAssumption DEF Lengths
<1>f. PICK f \in BOOLEAN : f = (w.crowded \/ TooMany)
  <2>1. (w.crowded \/ TooMany) \in BOOLEAN
    OBVIOUS
  <2> QED BY <2>1, Zenon
<1>m. \A b \in w.steady : Older(Key(b), w.cursor) /\ (b \in titled \/ ~f) => b \in arts
  <2>1. \A b \in w.steady : Older(Key(b), w.cursor) => b \in Eligible
    BY <1>1 DEF Eligible
  <2> QED BY <1>f, <2>1
<1>c. \A b \in w.steady : b \in titled \/ ~f =>
        b \in Listed(w) \/ (Older(Key(b), w.cursor) /\ b \in arts)
  BY <1>1, <1>f, <1>m
<1>k. \A a \in Artifacts : Key(a) \in Keys
  BY <1>s, PagesAssumption DEF Key, Keys
<1>w. walk' = IF page = <<>> THEN [w EXCEPT !.pc = "done", !.crowded = f]
              ELSE [w EXCEPT !.cursor = Key(Last(page)), !.listed = @ \o page, !.crowded = f]
  BY <1>f DEF Page, Cut
<1>4. /\ page \in Seq(Artifacts)
      /\ page = <<>> => arts = {}
      /\ page # <<>> => Len(page) \in Nat \ {0} /\ Last(page) \in arts
      /\ \A i \in DOMAIN page : page[i] \in arts
      /\ \A i, j \in DOMAIN page : page[i] = page[j] => i = j
      /\ page # <<>> => \A i \in DOMAIN page : ~Older(Key(page[i]), Key(Last(page)))
      /\ page # <<>> => \A a \in arts : \/ \E i \in DOMAIN page : page[i] = a
                                       \/ Older(Key(a), Key(Last(page)))
  BY <1>s, <1>3, <1>l, PageCut
<1> HIDE DEF page, found
<1>5. CASE page = <<>>
  <2>1. walk' = [w EXCEPT !.pc = "done", !.crowded = f] /\ arts = {}
    BY <1>4, <1>5, <1>w
  <2> DEFINE v == walk'
  <2> HIDE DEF w, v
  <2>2. /\ v \in WalkRec /\ v.cursor = w.cursor /\ v.listed = w.listed
        /\ v.steady = w.steady /\ v.crowded = f
    BY <1>1, <2>1 DEF WalkRec, v
  <2>3. Listed(v) = Listed(w)
    BY <2>2 DEF Listed
  <2>4. \A b \in v.steady : b \in titled \/ ~v.crowded => b \in Listed(v)
    BY <1>c, <2>1, <2>2, <2>3
  <2> QED BY <1>1, <2>2, <2>3, <2>4 DEF WalkOk, Key, v, found
<1>6. CASE page # <<>>
  <2> DEFINE c == Key(Last(page))
             l == w.listed \o page
             n == Len(w.listed)
  <2>1. walk' = [w EXCEPT !.cursor = c, !.listed = l, !.crowded = f]
    BY <1>6, <1>w
  <2>2. c \in Keys /\ Older(c, w.cursor)
    BY <1>3, <1>4, <1>6, <1>k
  <2>3. /\ l \in Seq(Artifacts) /\ n \in Nat /\ Len(page) \in Nat /\ DOMAIN l = 1..(n + Len(page))
        /\ DOMAIN w.listed = 1..n /\ DOMAIN page = 1..Len(page)
        /\ \A i \in 1..(n + Len(page)) : l[i] = IF i <= n THEN w.listed[i] ELSE page[i - n]
    <3>1. /\ l \in Seq(Artifacts) /\ Len(l) = n + Len(page)
          /\ \A i \in 1..(n + Len(page)) : l[i] = IF i <= n THEN w.listed[i] ELSE page[i - n]
      BY <1>2, <1>4, ConcatProperties
    <3> QED BY <1>2, <1>4, <3>1, LenProperties
  <2> HIDE DEF c, l, n
  <2>4. \A i \in DOMAIN w.listed : i \in DOMAIN l /\ l[i] = w.listed[i]
    BY <2>3
  <2>5. \A j \in DOMAIN page : n + j \in DOMAIN l /\ l[n + j] = page[j]
    <3> TAKE j \in DOMAIN page
    <3>1. j \in 1..Len(page)
      BY <2>3
    <3>2. n + j \in 1..(n + Len(page)) /\ ~(n + j <= n) /\ (n + j) - n = j
      BY <2>3, <3>1
    <3> QED BY <2>3, <3>2
  <2>6. \A i \in DOMAIN l : (i \in DOMAIN w.listed /\ l[i] = w.listed[i])
                            \/ \E j \in DOMAIN page : i = n + j /\ l[i] = page[j]
    <3> TAKE i \in DOMAIN l
    <3>1. i \in 1..(n + Len(page))
      BY <2>3
    <3>2. CASE i <= n
      <4>1. i \in 1..n
        BY <2>3, <3>1, <3>2
      <4> QED BY <2>3, <2>4, <4>1
    <3>3. CASE ~(i <= n)
      <4>1. i - n \in 1..Len(page) /\ i = n + (i - n)
        BY <2>3, <3>1, <3>3
      <4> QED BY <2>3, <3>1, <3>3, <4>1
    <3> QED BY <3>2, <3>3
  <2> DEFINE v == walk'
  <2> HIDE DEF w, v
  <2>7. /\ v \in WalkRec /\ v.pc = w.pc /\ v.cursor = c /\ v.listed = l
        /\ v.steady = w.steady /\ v.crowded = f
    BY <1>1, <2>1, <2>2, <2>3 DEF WalkRec, v
  <2>8. ASSUME NEW i \in DOMAIN l, NEW j \in DOMAIN l, l[i] = l[j] PROVE i = j
    <3>1. ASSUME NEW x \in DOMAIN w.listed, NEW y \in DOMAIN page PROVE w.listed[x] # page[y]
      BY <1>1, <1>3, <1>4 DEF Listed
    <3>2. CASE i \in DOMAIN w.listed /\ j \in DOMAIN w.listed
      BY <1>1, <2>4, <2>8, <3>2
    <3>3. CASE i \in DOMAIN w.listed /\ j \notin DOMAIN w.listed
      BY <2>4, <2>6, <2>8, <3>1, <3>3
    <3>4. CASE i \notin DOMAIN w.listed /\ j \in DOMAIN w.listed
      BY <2>4, <2>6, <2>8, <3>1, <3>4
    <3>5. CASE i \notin DOMAIN w.listed /\ j \notin DOMAIN w.listed
      <4>1. PICK x \in DOMAIN page : i = n + x /\ l[i] = page[x]
        BY <2>6, <3>5
      <4>2. PICK y \in DOMAIN page : j = n + y /\ l[j] = page[y]
        BY <2>6, <3>5
      <4>3. x = y
        BY <1>4, <2>8, <4>1, <4>2
      <4> QED BY <4>1, <4>2, <4>3
    <3> QED BY <3>2, <3>3, <3>4, <3>5
  <2>9. ASSUME NEW b \in Listed(v) PROVE ~Older(Key(b), c)
    <3>1. PICK i \in DOMAIN l : b = l[i]
      BY <2>7, <2>9 DEF Listed
    <3>2. CASE i \in DOMAIN w.listed
      <4>1. b \in Listed(w) /\ b \in Artifacts
        BY <1>2, <2>3, <2>4, <3>1, <3>2, ElementOfSeq DEF Listed, n
      <4>2. ~Older(Key(b), w.cursor)
        BY <1>1, <4>1
      <4> QED BY <1>2, <1>k, <2>2, <4>1, <4>2, OlderOrders
    <3>3. CASE i \notin DOMAIN w.listed
      <4>1. PICK j \in DOMAIN page : l[i] = page[j]
        BY <2>6, <3>3
      <4> QED BY <1>4, <1>6, <3>1, <4>1 DEF c
    <3> QED BY <3>2, <3>3
  <2>10. ASSUME NEW b \in v.steady, b \in titled \/ ~v.crowded
         PROVE  b \in Listed(v) \/ Older(Key(b), c)
    <3>1. b \in w.steady /\ (b \in titled \/ ~f)
      BY <2>7, <2>10
    <3>2. CASE b \in Listed(w)
      <4>1. b \in Listed(v)
        BY <2>4, <2>7, <3>2 DEF Listed
      <4> QED BY <4>1
    <3>3. CASE b \in arts
      <4>2. (\E j \in DOMAIN page : page[j] = b) => b \in Listed(v)
        BY <2>5, <2>7 DEF Listed
      <4> QED BY <1>4, <1>6, <3>3, <4>2 DEF c
    <3> QED BY <1>c, <3>1, <3>2, <3>3
  <2>11. w.pc = "paging"
    BY DEF w
  <2> QED BY <1>1, <2>7, <2>8, <2>9, <2>10, <2>11 DEF WalkOk, Key, v, found
<1> QED BY <1>5, <1>6

LEMMA PagesStepInv == PagesInv /\ PagesNext => PagesInv'
<1> SUFFICES ASSUME PagesInv, PagesNext PROVE PagesInv'
  OBVIOUS
<1>1. /\ now \in 0..PagesTime /\ stamp \in [Artifacts -> 0..(now + 1)]
      /\ \/ writer = NoWriter
         \/ /\ writer.art \in Artifacts /\ writer.at \in 1..(now + 1)
            /\ \A a \in Artifacts : stamp[a] <= writer.at
      /\ hits \in [Artifacts -> Nat] /\ readable \subseteq Artifacts
      /\ WalkOk(walk, Found(walk.op), titled, stamp)
  BY DEF PagesInv
<1>2. now \in Nat /\ stamp \in [Artifacts -> Nat] /\ PagesTime \in Nat /\ Artifacts \subseteq Nat
  BY <1>1, PagesAssumption
<1>3. CASE PagesElapse
  <2>1. now' = now + 1 /\ now < PagesTime /\ UNCHANGED <<stamp, readable, titled, hits, writer, walk>>
    BY <1>3 DEF PagesElapse, Pass, pagesVars
  <2>2. now' \in 0..PagesTime /\ 0..(now + 1) \subseteq 0..(now' + 1) /\ 1..(now + 1) \subseteq 1..(now' + 1)
    BY <1>2, <2>1
  <2>3. stamp' \in [Artifacts -> 0..(now' + 1)]
    BY <1>1, <2>1, <2>2
  <2>4. WalkOk(walk', Found(walk.op)', titled', stamp')
    BY <1>1, <2>1 DEF Found
  <2> QED BY <1>1, <2>1, <2>2, <2>3, <2>4 DEF PagesInv
<1>4. ASSUME NEW a \in Artifacts, BeginWrite(a) PROVE PagesInv'
  <2>1. writer' = [art |-> a, at |-> now + 1] /\ UNCHANGED <<now, stamp, readable, titled, hits, walk>>
    BY <1>4 DEF BeginWrite
  <2>2. writer'.art \in Artifacts /\ writer'.at = now + 1 /\ now + 1 \in 1..(now + 1)
    BY <1>2, <2>1
  <2>3. \A b \in Artifacts : stamp[b] <= now + 1
    BY <1>1, <1>2
  <2>4. WalkOk(walk', Found(walk.op)', titled', stamp')
    BY <1>1, <2>1 DEF Found
  <2> QED BY <1>1, <2>1, <2>2, <2>3, <2>4 DEF PagesInv
<1>o. /\ walk.pc = "idle" => walk = NoWalk
      /\ walk = NoWalk \/ walk \in WalkRec
  BY <1>1 DEF WalkOk, WalkRec, NoWalk
<1>d. ASSUME NEW a \in Artifacts,
             walk' = (IF walk.pc = "idle" THEN walk ELSE [walk EXCEPT !.steady = @ \ {a}])
      PROVE  walk'.op = walk.op
  <2>1. CASE walk.pc = "idle"
    BY <1>d, <2>1
  <2>2. CASE walk.pc # "idle"
    <3>1. walk \in WalkRec
      BY <1>o, <2>2 DEF NoWalk
    <3> QED BY <1>d, <2>2, <3>1 DEF WalkRec
  <2> QED BY <2>1, <2>2
<1>5. ASSUME NEW mine \in BOOLEAN, NEW named \in BOOLEAN, NEW found \in RowCounts, NEW chunks \in RowCounts,
             CommitWrite(mine, named, found, chunks)
      PROVE  PagesInv'
  <2> DEFINE a == writer.art
  <2>1. /\ writer # NoWriter /\ writer' = NoWriter
        /\ stamp' = [stamp EXCEPT ![a] = writer.at]
        /\ walk' = (IF walk.pc = "idle" THEN walk ELSE [walk EXCEPT !.steady = @ \ {a}])
        /\ now' = now
    BY <1>5 DEF CommitWrite, Disturb
  <2>2. /\ a \in Artifacts /\ writer.at \in 1..(now + 1) /\ writer.at \in 0..(now + 1)
        /\ \A b \in Artifacts : stamp[b] <= writer.at
    BY <1>1, <1>2, <2>1
  <2>3. /\ readable \subseteq readable' /\ readable' \subseteq readable \cup {a}
        /\ \A b : b # a => (b \in titled <=> b \in titled')
        /\ hits' = [hits EXCEPT ![a] = found] /\ found \in Nat
    BY <1>5, PagesAssumption DEF CommitWrite
  <2> HIDE DEF a
  <2>4. /\ stamp' \in [Artifacts -> 0..(now + 1)] /\ stamp'[a] = writer.at
        /\ \A b \in Artifacts \ {a} : stamp'[b] = stamp[b]
    BY <1>1, <2>1, <2>2
  <2>5. stamp' \in [Artifacts -> Nat]
    BY <1>2, <2>4
  <2>6. \A b \in Artifacts : stamp[b] <= stamp'[b]
    BY <1>2, <2>2, <2>4
  <2>h. /\ hits' \in [Artifacts -> Nat] /\ readable' \subseteq Artifacts
        /\ \A b \in Artifacts \ {a} : hits'[b] = hits[b]
    BY <1>1, <2>2, <2>3
  <2>o. walk'.op = walk.op
    BY <1>d, <2>1, <2>2
  <2>7. \A b \in Found(walk.op) : b # a => b \in Found(walk.op)'
    <3> SUFFICES ASSUME NEW b \in Found(walk.op), b # a PROVE b \in Found(walk.op)'
      OBVIOUS
    <3>1. b \in readable /\ stamp[b] > 0 /\ (b \in titled \/ (walk.op # "list" /\ hits[b] > 0))
      BY DEF Found
    <3>2. b \in Artifacts \ {a}
      BY <1>1, <3>1
    <3>3. b \in readable' /\ stamp'[b] = stamp[b] /\ hits'[b] = hits[b] /\ (b \in titled => b \in titled')
      BY <2>3, <2>4, <2>h, <3>1, <3>2
    <3> QED BY <2>o, <3>1, <3>3 DEF Found
  <2>8. WalkOk(walk', Found(walk.op)', titled', stamp')
    <3> DEFINE v == walk'
               later == Found(walk.op)'
               called == titled'
               bt == stamp'
               f == Found(walk.op)
    <3>1. \A b \in Artifacts \ {a} : stamp[b] = bt[b]
      BY <2>4
    <3>2. bt \in [Artifacts -> Nat] /\ \A b \in Artifacts : stamp[b] <= bt[b]
      BY <2>5, <2>6
    <3>3. \A b \in f : b # a => b \in later
      BY <2>7
    <3>c. \A b \in called : b # a => b \in titled
      BY <2>3
    <3>f. WalkOk(walk, f, titled, stamp)
      BY <1>1
    <3>4. v = IF walk.pc = "idle" THEN walk ELSE [walk EXCEPT !.steady = @ \ {a}]
      BY <2>1
    <3>5. a \in Artifacts
      BY <2>2
    <3> HIDE DEF v, later, bt, called, f
    <3>6. WalkOk(v, later, called, bt)
      BY <1>2, <3>1, <3>2, <3>3, <3>4, <3>5, <3>c, <3>f, DisturbedOk
    <3> QED BY <3>6 DEF v, later, bt, called
  <2> QED BY <1>1, <2>1, <2>4, <2>8, <2>h DEF PagesInv
<1>6. CASE AbortWrite
  <2>1. writer' = NoWriter /\ UNCHANGED <<now, stamp, readable, titled, hits, walk>>
    BY <1>6 DEF AbortWrite
  <2>2. WalkOk(walk', Found(walk.op)', titled', stamp')
    BY <1>1, <2>1 DEF Found
  <2> QED BY <1>1, <2>1, <2>2 DEF PagesInv
<1>7. ASSUME NEW a \in Artifacts, ChangeAccess(a) PROVE PagesInv'
  <2>1. /\ walk' = (IF walk.pc = "idle" THEN walk ELSE [walk EXCEPT !.steady = @ \ {a}])
        /\ \A b \in readable : b # a => b \in readable'
        /\ readable' \subseteq readable \cup {a}
        /\ UNCHANGED <<now, stamp, titled, hits, writer>>
    BY <1>7 DEF ChangeAccess, Disturb
  <2>o. walk'.op = walk.op
    BY <1>d, <2>1
  <2>2. \A b \in Found(walk.op) : b # a => b \in Found(walk.op)'
    BY <2>1, <2>o DEF Found
  <2>3. WalkOk(walk', Found(walk.op)', titled', stamp')
    <3> DEFINE later == Found(walk.op)'
               v == walk'
               f == Found(walk.op)
    <3>2. \A b \in f : b # a => b \in later
      BY <2>2
    <3>3. v = (IF walk.pc = "idle" THEN walk ELSE [walk EXCEPT !.steady = @ \ {a}])
      BY <2>1
    <3>f. WalkOk(walk, f, titled, stamp)
      BY <1>1
    <3> HIDE DEF later, v, f
    <3>4. WalkOk(v, later, titled, stamp)
      BY <1>2, <3>2, <3>3, <3>f, DisturbedOk
    <3> QED BY <2>1, <3>4 DEF later, v
  <2> QED BY <1>1, <2>1, <2>3 DEF PagesInv
<1>8. ASSUME NEW op \in {"list", "search", "short"}, Open(op) PROVE PagesInv'
  <2> DEFINE n == <<>>
             f == Found(op)
  <2>1. /\ walk' = [pc |-> "paging", op |-> op, cursor |-> Top, listed |-> n,
                    steady |-> f, crowded |-> FALSE]
        /\ UNCHANGED <<now, stamp, readable, titled, hits, writer>>
    BY <1>8 DEF Open
  <2>2. n \in Seq(Artifacts) /\ DOMAIN n = {} /\ f \subseteq Artifacts
    BY <1>1 DEF Found
  <2>3. Top \in Keys /\ Top[1] = PagesTime + 2 /\ Top[2] = 0
    BY <1>2 DEF Top, Keys
  <2> DEFINE w == walk'
  <2> HIDE DEF n, f, w
  <2>4. /\ w \in WalkRec /\ w.cursor = Top /\ w.listed = n /\ w.steady = f /\ w.pc = "paging" /\ w.op = op
    BY <2>1, <2>2, <2>3 DEF WalkRec, w
  <2>5. \A a \in Artifacts : Older(<<stamp[a], a>>, Top)
    <3> TAKE a \in Artifacts
    <3>1. stamp[a] \in 0..(now + 1) /\ now + 1 < PagesTime + 2
      BY <1>1, <1>2
    <3>2. stamp[a] < PagesTime + 2
      BY <1>2, <3>1
    <3> QED BY <2>3, <3>2 DEF Older
  <2>c. f \subseteq Artifacts
    BY <2>2
  <2>6. WalkOk(w, f, titled, stamp)
    BY <2>2, <2>4, <2>5, <2>c DEF WalkOk, Listed
  <2>7. WalkOk(walk', Found(walk.op)', titled', stamp')
    BY <2>1, <2>4, <2>6 DEF Found, f, w
  <2> QED BY <1>1, <2>1, <2>7 DEF PagesInv
<1>9. CASE NextPage
  <2>1. PICK arts \in Considered : \E k \in Lengths(InOrder(arts)) : Page(arts, k)
    BY <1>9 DEF NextPage
  <2>2. PICK k \in Lengths(InOrder(arts)) : Page(arts, k)
    BY <2>1
  <2>3. PICK c \in SUBSET ByBody : /\ arts = (Eligible \cap titled) \cup c
                                  /\ (c = ByBody \/ TooMany)
    BY DEF Considered
  <2>4. \A a \in Eligible : a \in titled \/ a \in ByBody
    BY DEF Eligible, ByBody, Found
  <2>5. ByBody \subseteq Eligible
    BY DEF ByBody
  <2>6. /\ arts \in SUBSET Eligible /\ Eligible \cap titled \subseteq arts
        /\ ~TooMany => arts = Eligible
    BY <2>3, <2>4, <2>5
  <2>7. walk.pc = "paging" /\ UNCHANGED <<now, stamp, readable, titled, hits, writer>>
    BY <1>9, <2>2 DEF NextPage, Page
  <2>8. WalkOk(walk', Found(walk.op), titled, stamp)
    BY <2>2, <2>6, <2>7, ShownOk
  <2>9. walk'.op = walk.op
    <3>1. walk \in WalkRec
      BY <1>o, <2>7 DEF NoWalk
    <3> QED BY <2>2, <3>1 DEF Page, WalkRec
  <2>10. WalkOk(walk', Found(walk.op)', titled', stamp')
    BY <2>7, <2>8, <2>9 DEF Found
  <2> QED BY <1>1, <2>7, <2>10 DEF PagesInv
<1> QED BY <1>3, <1>4, <1>5, <1>6, <1>7, <1>8, <1>9 DEF PagesNext

(* PagesWhole: list_artifacts and search compare the time and the id of the *)
(* cursor with those of each current version, so that whatever is written   *)
(* between the pages none repeats an artifact and none that stayed as it was *)
(* is skipped, except one whose chunks alone are found and a search that had *)
(* more rows than it looks at; for any number of artifacts, rows and limits. *)
THEOREM PagesAreWhole == Spec => []PagesWhole
<1>1. PagesInv /\ [Next]_vars => PagesInv'
  <2> SUFFICES ASSUME PagesInv, [Next]_vars PROVE PagesInv'
    OBVIOUS
  <2>1. CASE UNCHANGED <<now, pagesVars>>
    <3>1. UNCHANGED <<now, stamp, readable, titled, hits, writer, walk>>
      BY <2>1 DEF pagesVars
    <3>2. WalkOk(walk', Found(walk.op)', titled', stamp')
      BY <3>1 DEF Found, PagesInv
    <3> QED BY <3>1, <3>2 DEF PagesInv
  <2>2. CASE PagesNext
    BY <2>2, PagesStepInv
  <2> QED BY <2>1, <2>2 DEF Next, vars
<1> QED BY <1>1, InitPagesInv, PagesHold, PTL DEF Spec
------------------------------------------------------------------------------
(* Walks through the graph *)

Ops == {"component", "search", "traverse"}

Depths == UNION {[D -> Nat] : D \in SUBSET Nodes}

SearchRec ==
  [pc : {"walking", "answered"}, op : Ops, queue : Seq(Nodes), depth : Depths, items : Nat,
   shown : SUBSET Nodes, ever : SUBSET Nodes, always : SUBSET Nodes,
   before : SUBSET (Nodes \X Nodes)]

FullOf(w) == IF w.op = "traverse" THEN w.items >= NodeLimit
             ELSE Cardinality(DOMAIN w.depth) >= NodeLimit

LastingStep(w, n, m) == <<n, m>> \in w.before \/ (w.op # "traverse" /\ <<m, n>> \in w.before)

InQueue(w, n) == \E i \in DOMAIN w.queue : w.queue[i] = n

(* A node whose row was read: what lasts beside it is known, at most one    *)
(* link further from the root.                                              *)
Looked(w, n) ==
  \/ w.op = "traverse" /\ w.depth[n] >= MaxDepth
  \/ \A m \in w.always : LastingStep(w, n, m) =>
       /\ m \in DOMAIN w.depth /\ w.depth[m] <= w.depth[n] + 1
       /\ w.op = "traverse" => m \in w.shown

SearchOk(w, may, edges) ==
  \/ w = NoSearch
  \/ /\ w \in SearchRec
     /\ Root \in DOMAIN w.depth /\ w.depth[Root] = 0
     /\ \A i \in DOMAIN w.queue : w.queue[i] \in DOMAIN w.depth
     /\ \A i, j \in DOMAIN w.queue : i < j => w.depth[w.queue[i]] <= w.depth[w.queue[j]]
     /\ w.queue # <<>> => \A m \in DOMAIN w.depth : w.depth[m] <= w.depth[w.queue[1]] + 1
     /\ DOMAIN w.depth \cup w.shown \subseteq w.ever
     /\ w.pc = "walking" => w.always \subseteq may /\ may \subseteq w.ever /\ w.before \subseteq edges
     /\ ~FullOf(w) => \A n \in DOMAIN w.depth : InQueue(w, n) \/ Looked(w, n)
     /\ w.pc = "answered" /\ ~FullOf(w) =>
          /\ w.queue = <<>>
          /\ w.op # "traverse" => DOMAIN w.depth \cap w.always \subseteq w.shown

WalksInv ==
  /\ links \subseteq Nodes \X Nodes /\ allowed \subseteq Nodes
  /\ SearchOk(search, allowed, links)

LEMMA SearchParts ==
  ASSUME NEW w \in SearchRec
  PROVE  /\ DOMAIN w.depth \subseteq Nodes /\ w.depth \in [DOMAIN w.depth -> Nat]
         /\ w.queue \in Seq(Nodes) /\ w.items \in Nat /\ w.shown \subseteq Nodes
         /\ w.ever \subseteq Nodes /\ w.always \subseteq Nodes /\ w.op \in Ops
         /\ w.pc \in {"walking", "answered"} /\ w # NoSearch
<1>1. NoSearch.pc = "idle"
  BY DEF NoSearch
<1>2. w.depth \in Depths
  BY DEF SearchRec
<1>3. DOMAIN w.depth \subseteq Nodes /\ w.depth \in [DOMAIN w.depth -> Nat]
  BY <1>2 DEF Depths
<1> QED BY <1>1, <1>3 DEF SearchRec

(* The nodes of a path are reached one after the other.                     *)
LEMMA PathReached ==
  ASSUME NEW k \in Nat, NEW p, NEW D, NEW depth, p[0] \in D, depth[p[0]] = 0,
         \A i \in 1..k : p[i - 1] \in D /\ depth[p[i - 1]] <= i - 1
                           => p[i] \in D /\ depth[p[i]] <= i
  PROVE  \A i \in 0..k : p[i] \in D /\ depth[p[i]] <= i
<1> DEFINE U == {i \in 0..k : ~(p[i] \in D /\ depth[p[i]] <= i)}
           R == {s \in Nat \X Nat : s[1] < s[2]}
<1>1. SUFFICES ASSUME U # {} PROVE FALSE
  OBVIOUS
<1>2. U \subseteq Nat /\ IsWellFoundedOn(R, Nat)
  BY NatLessThanWellFounded DEF OpToRel
<1>3. \A i, j \in Nat : i < j => <<i, j>> \in R
  OBVIOUS
<1> HIDE DEF R
<1>4. PICK i \in U : \A j \in U : <<j, i>> \notin R
  <2> HIDE DEF U
  <2> QED BY <1>1, <1>2, WFMin
<1>5. i \in 0..k /\ ~(p[i] \in D /\ depth[p[i]] <= i)
  BY <1>4
<1>6. i # 0
  BY <1>5
<1>7. i \in 1..k /\ i - 1 \in 0..k /\ i - 1 < i /\ i \in Nat /\ i - 1 \in Nat
  BY <1>5, <1>6
<1>8. i - 1 \notin U
  BY <1>3, <1>4, <1>7
<1>9. p[i - 1] \in D /\ depth[p[i - 1]] <= i - 1
  BY <1>7, <1>8
<1> QED BY <1>5, <1>7, <1>9

LEMMA InitWalksInv == Init => WalksInv
BY DEF Init, WalksInit, WalksInv, SearchOk

LEMMA WalksHold == WalksInv => WalksTell
<1> DEFINE w == search
           D == DOMAIN w.depth
<1> SUFFICES ASSUME WalksInv, w.pc = "answered"
             PROVE  /\ w.shown \cup D \subseteq w.ever
                    /\ ~Full => Lasting(w.op, Reach) \ {Root} \subseteq w.shown
  BY DEF WalksTell
<1>1. w # NoSearch
  BY DEF NoSearch
<1>2. /\ w \in SearchRec /\ Root \in D /\ w.depth[Root] = 0 /\ D \cup w.shown \subseteq w.ever
      /\ ~FullOf(w) =>
            /\ w.queue = <<>>
            /\ \A n \in D : InQueue(w, n) \/ Looked(w, n)
            /\ w.op # "traverse" => D \cap w.always \subseteq w.shown
  BY <1>1 DEF WalksInv, SearchOk
<1>3. ASSUME ~Full, NEW m \in Lasting(w.op, Reach), m # Root PROVE m \in w.shown
  <2>1. ~FullOf(w)
    BY <1>3 DEF Full, FullOf
  <2>2. \A n \in D : Looked(w, n)
    BY <1>2, <2>1, EmptySeq DEF InQueue
  <2>k. PICK k \in 0..Reach : \E p \in [0..k -> Nodes] :
            /\ p[0] = Root /\ p[k] = m
            /\ \A i \in 1..k : p[i] \in w.always /\ LastingStep(w, p[i - 1], p[i])
    BY <1>3 DEF Lasting, LastingStep
  <2>3. PICK p :
            /\ p[0] = Root /\ p[k] = m
            /\ \A i \in 1..k : p[i] \in w.always /\ LastingStep(w, p[i - 1], p[i])
    BY <2>k
  <2>4. Reach \in Nat /\ (w.op = "traverse" => Reach = MaxDepth)
    BY WalksAssumption, FS_CardinalityType DEF Reach
  <2>5. k \in Nat /\ k <= Reach
    BY <2>4
  <2>6. k # 0
    BY <1>3, <2>3
  <2>7. k \in 1..k /\ k - 1 \in 0..k
    BY <2>5, <2>6
  <2>8. ASSUME NEW i \in 1..k, p[i - 1] \in D, w.depth[p[i - 1]] <= i - 1
        PROVE  /\ p[i] \in D /\ w.depth[p[i]] <= i
               /\ w.op = "traverse" => p[i] \in w.shown
    <3>1. w.depth[p[i - 1]] \in Nat
      BY <1>2, <2>8, SearchParts
    <3>2. w.op = "traverse" => ~(w.depth[p[i - 1]] >= MaxDepth)
      BY <2>4, <2>5, <2>8, <3>1, WalksAssumption
    <3>3. p[i] \in w.always /\ LastingStep(w, p[i - 1], p[i])
      BY <2>3
    <3>4. /\ p[i] \in D /\ w.depth[p[i]] <= w.depth[p[i - 1]] + 1
          /\ w.op = "traverse" => p[i] \in w.shown
      BY <2>2, <2>8, <3>2, <3>3 DEF Looked
    <3>5. w.depth[p[i]] \in Nat
      BY <1>2, <3>4, SearchParts
    <3> QED BY <2>5, <2>8, <3>1, <3>4, <3>5
  <2>9. p[k - 1] \in D /\ w.depth[p[k - 1]] <= k - 1
    <3> DEFINE depth == w.depth
               E == D
    <3>1. p[0] \in E /\ depth[p[0]] = 0
      BY <1>2, <2>3
    <3>2. \A i \in 1..k : p[i - 1] \in E /\ depth[p[i - 1]] <= i - 1 => p[i] \in E /\ depth[p[i]] <= i
      BY <2>8
    <3> HIDE DEF depth, E
    <3>3. \A i \in 0..k : p[i] \in E /\ depth[p[i]] <= i
      BY <2>5, <3>1, <3>2, PathReached
    <3> QED BY <2>7, <3>3 DEF depth, E
  <2>11. m \in D /\ (w.op = "traverse" => m \in w.shown)
    BY <2>3, <2>7, <2>8, <2>9
  <2>12. m \in w.always
    BY <2>3, <2>7
  <2> QED BY <1>2, <2>1, <2>11, <2>12
<1> QED BY <1>2, <1>3

(* What becomes readable or stops to be: fewer nodes last.                  *)
LEMMA AccessOk ==
  ASSUME NEW w, NEW v, NEW may, NEW now_may \in SUBSET Nodes, NEW edges, SearchOk(w, may, edges),
         v = IF w.pc # "walking" THEN w
             ELSE [w EXCEPT !.ever = @ \cup now_may, !.always = @ \cap now_may]
  PROVE  SearchOk(v, now_may, edges)
<1>1. CASE w.pc # "walking"
  BY <1>1 DEF SearchOk
<1>2. CASE w.pc = "walking"
  <2>1. w # NoSearch
    BY <1>2 DEF NoSearch
  <2>2. w \in SearchRec
    BY <2>1 DEF SearchOk
  <2> DEFINE e == w.ever \cup now_may
             s == w.always \cap now_may
  <2>3. v = [w EXCEPT !.ever = e, !.always = s]
    BY <1>2, <2>2, SearchParts
  <2>4. e \subseteq Nodes /\ s \subseteq Nodes
    BY <2>2, SearchParts
  <2> HIDE DEF e, s
  <2>5. /\ v \in SearchRec /\ v.pc = w.pc /\ v.op = w.op /\ v.queue = w.queue /\ v.depth = w.depth
        /\ v.items = w.items /\ v.shown = w.shown /\ v.before = w.before /\ v.ever = e /\ v.always = s
    BY <2>2, <2>3, <2>4 DEF SearchRec
  <2>6. FullOf(v) = FullOf(w)
    BY <2>5 DEF FullOf
  <2>7. \A n \in DOMAIN w.depth : InQueue(w, n) => InQueue(v, n)
    BY <2>5 DEF InQueue
  <2>8. \A n \in DOMAIN w.depth : Looked(w, n) => Looked(v, n)
    BY <2>5 DEF Looked, LastingStep, s
  <2>9. ~FullOf(v) => \A n \in DOMAIN v.depth : InQueue(v, n) \/ Looked(v, n)
    BY <2>1, <2>5, <2>6, <2>7, <2>8 DEF SearchOk
  <2>10. DOMAIN v.depth \cup v.shown \subseteq v.ever
    BY <2>1, <2>5 DEF SearchOk, e
  <2>11. v.always \subseteq now_may /\ now_may \subseteq v.ever /\ v.before \subseteq edges
    BY <1>2, <2>1, <2>5 DEF SearchOk, e, s
  <2>12. /\ Root \in DOMAIN v.depth /\ v.depth[Root] = 0
         /\ \A i \in DOMAIN v.queue : v.queue[i] \in DOMAIN v.depth
         /\ \A i, j \in DOMAIN v.queue : i < j => v.depth[v.queue[i]] <= v.depth[v.queue[j]]
         /\ v.queue # <<>> => \A m \in DOMAIN v.depth : v.depth[m] <= v.depth[v.queue[1]] + 1
    BY <2>1, <2>5 DEF SearchOk
  <2>13. v.pc = "walking"
    BY <1>2, <2>5
  <2> QED BY <2>5, <2>9, <2>10, <2>11, <2>12, <2>13 DEF SearchOk
<1> QED BY <1>1, <1>2

(* A walk begins: the root is in the queue. *)
LEMMA BegunOk ==
  ASSUME NEW v, NEW op \in Ops, NEW may \in SUBSET Nodes, NEW edges \in SUBSET (Nodes \X Nodes),
         Root \in may,
         v = [pc |-> "walking", op |-> op, queue |-> <<Root>>, depth |-> [n \in {Root} |-> 0],
              items |-> 0, shown |-> {}, ever |-> may, always |-> may, before |-> edges]
  PROVE  SearchOk(v, may, edges)
<1> DEFINE q == <<Root>>
           d == [n \in {Root} |-> 0]
<1>1. v = [pc |-> "walking", op |-> op, queue |-> q, depth |-> d,
           items |-> 0, shown |-> {}, ever |-> may, always |-> may, before |-> edges]
  OBVIOUS
<1>2. q \in Seq(Nodes) /\ DOMAIN q = {1} /\ q[1] = Root /\ Len(q) = 1
  BY WalksAssumption
<1>3. d \in [{Root} -> Nat] /\ DOMAIN d = {Root} /\ d[Root] = 0
  OBVIOUS
<1>4. d \in Depths
  BY <1>3, WalksAssumption DEF Depths
<1> HIDE DEF q, d
<1>5. /\ v \in SearchRec /\ v.pc = "walking" /\ v.op = op /\ v.queue = q /\ v.depth = d
      /\ v.items = 0 /\ v.shown = {} /\ v.before = edges /\ v.ever = may /\ v.always = may
  BY <1>1, <1>2, <1>4 DEF SearchRec
<1>6. \A n \in DOMAIN v.depth : InQueue(v, n)
  BY <1>2, <1>3, <1>5 DEF InQueue
<1>7. \A m \in DOMAIN v.depth : v.depth[m] <= v.depth[v.queue[1]] + 1
  BY <1>2, <1>3, <1>5
<1>8. \A i, j \in DOMAIN v.queue : i < j => v.depth[v.queue[i]] <= v.depth[v.queue[j]]
  BY <1>2, <1>5
<1>9. \A i \in DOMAIN v.queue : v.queue[i] \in DOMAIN v.depth
  BY <1>2, <1>3, <1>5
<1>10. Root \in DOMAIN v.depth /\ v.depth[Root] = 0 /\ DOMAIN v.depth \cup v.shown \subseteq v.ever
  BY <1>3, <1>5
<1> QED BY <1>5, <1>6, <1>7, <1>8, <1>9, <1>10 DEF SearchOk

(* The answer: what of a component can still be read.                       *)
LEMMA AnsweredOk ==
  ASSUME NEW w, NEW v, NEW may \in SUBSET Nodes, NEW edges, SearchOk(w, may, edges),
         w.pc = "walking", w.queue = <<>> \/ FullOf(w),
         v = [w EXCEPT !.pc = "answered",
                       !.shown = IF w.op = "traverse" THEN @ ELSE DOMAIN w.depth \cap may]
  PROVE  SearchOk(v, may, edges)
<1>1. w # NoSearch
  BY DEF NoSearch
<1>2. w \in SearchRec /\ w.always \subseteq may /\ w.ever \subseteq Nodes
      /\ DOMAIN w.depth \cup w.shown \subseteq w.ever
  BY <1>1, SearchParts DEF SearchOk
<1> DEFINE s == IF w.op = "traverse" THEN w.shown ELSE DOMAIN w.depth \cap may
           f == "answered"
<1>3. v = [w EXCEPT !.pc = f, !.shown = s]
  BY <1>2, SearchParts
<1>4. s \subseteq Nodes /\ s \subseteq w.ever /\ (w.op # "traverse" => DOMAIN w.depth \cap w.always \subseteq s)
  BY <1>2
<1>t. w.op = "traverse" => s = w.shown
  OBVIOUS
<1> HIDE DEF s
<1>5. /\ v \in SearchRec /\ v.pc = f /\ v.op = w.op /\ v.queue = w.queue /\ v.depth = w.depth
      /\ v.items = w.items /\ v.shown = s /\ v.before = w.before /\ v.ever = w.ever
      /\ v.always = w.always
  BY <1>2, <1>3, <1>4 DEF SearchRec
<1>6. FullOf(v) = FullOf(w)
  BY <1>5 DEF FullOf
<1>7. \A n \in DOMAIN w.depth : InQueue(w, n) => InQueue(v, n)
  BY <1>5 DEF InQueue
<1>8. \A n \in DOMAIN w.depth : Looked(w, n) => Looked(v, n)
  BY <1>t, <1>5 DEF Looked, LastingStep
<1>9. ~FullOf(v) => \A n \in DOMAIN v.depth : InQueue(v, n) \/ Looked(v, n)
  BY <1>1, <1>5, <1>6, <1>7, <1>8 DEF SearchOk
<1>10. DOMAIN v.depth \cup v.shown \subseteq v.ever
  BY <1>2, <1>4, <1>5
<1>11. ~FullOf(v) => v.queue = <<>> /\ (v.op # "traverse" => DOMAIN v.depth \cap v.always \subseteq v.shown)
  BY <1>4, <1>5, <1>6
<1>12. /\ Root \in DOMAIN v.depth /\ v.depth[Root] = 0
       /\ \A i \in DOMAIN v.queue : v.queue[i] \in DOMAIN v.depth
       /\ \A i, j \in DOMAIN v.queue : i < j => v.depth[v.queue[i]] <= v.depth[v.queue[j]]
       /\ v.queue # <<>> => \A m \in DOMAIN v.depth : v.depth[m] <= v.depth[v.queue[1]] + 1
  BY <1>1, <1>5 DEF SearchOk
<1>13. v.pc # "walking"
  BY <1>5
<1> QED BY <1>5, <1>9, <1>10, <1>11, <1>12, <1>13 DEF SearchOk

LEMMA Queued ==
  ASSUME NEW S, NEW q \in Seq(S), q # <<>>, NEW f \in Seq(S)
  PROVE  /\ Tail(q) \o f \in Seq(S) /\ Len(q) \in Nat \ {0} /\ Len(f) \in Nat
         /\ DOMAIN q = 1..Len(q) /\ DOMAIN f = 1..Len(f) /\ Head(q) = q[1]
         /\ DOMAIN (Tail(q) \o f) = 1..(Len(q) - 1 + Len(f))
         /\ \A i \in 1..(Len(q) - 1 + Len(f)) :
              (Tail(q) \o f)[i] = IF i < Len(q) THEN q[i + 1] ELSE f[i - (Len(q) - 1)]
<1> DEFINE l == Tail(q)
           r == l \o f
<1>1. /\ l \in Seq(S) /\ Len(l) = Len(q) - 1
      /\ \A i \in 1..Len(l) : l[i] = q[i + 1]
  BY HeadTailProperties
<1>2. Len(q) \in Nat \ {0} /\ Len(f) \in Nat /\ DOMAIN q = 1..Len(q) /\ DOMAIN f = 1..Len(f) /\ Head(q) = q[1]
  BY LenProperties, EmptySeq
<1> HIDE DEF l
<1>3. /\ r \in Seq(S) /\ Len(r) = Len(l) + Len(f)
      /\ \A i \in 1..(Len(l) + Len(f)) : r[i] = IF i <= Len(l) THEN l[i] ELSE f[i - Len(l)]
  BY <1>1, ConcatProperties
<1> HIDE DEF r
<1>4. DOMAIN r = 1..(Len(q) - 1 + Len(f))
  BY <1>1, <1>3, LenProperties
<1>5. \A i \in 1..(Len(q) - 1 + Len(f)) : r[i] = IF i < Len(q) THEN q[i + 1] ELSE f[i - (Len(q) - 1)]
  <2> TAKE i \in 1..(Len(q) - 1 + Len(f))
  <2>1. i < Len(q) => i \in 1..Len(l) /\ i <= Len(l)
    BY <1>1, <1>2
  <2>2. ~(i < Len(q)) => ~(i <= Len(l))
    BY <1>1, <1>2
  <2>3. i \in 1..(Len(l) + Len(f))
    BY <1>1, <1>2
  <2> QED BY <1>1, <1>3, <2>1, <2>2, <2>3
<1> QED BY <1>2, <1>3, <1>4, <1>5 DEF r, l

LEMMA SetInOrder ==
  ASSUME NEW S, IsFiniteSet(S), NEW f \in SetToSeqs(S)
  PROVE  /\ f \in Seq(S)
         /\ \A i \in DOMAIN f : f[i] \in S
         /\ \A a \in S : \E i \in DOMAIN f : f[i] = a
<1> DEFINE N == Cardinality(S)
<1>1. N \in Nat
  BY FS_CardinalityType
<1>2. f \in [1..N -> S] /\ \A i, j \in 1..N : i # j => f[i] # f[j]
  BY DEF SetToSeqs
<1>3. IsFiniteSet(1..N) /\ Cardinality(1..N) = N
  BY <1>1, FS_Interval
<1>4. f \in Injection(1..N, S)
  BY <1>2, Zenon DEF Injection, IsInjective
<1> HIDE DEF N
<1>5. f \in Surjection(1..N, S)
  BY <1>3, <1>4, FS_Injection DEF N
<1>6. \A a \in S : \E i \in DOMAIN f : f[i] = a
  BY <1>2, <1>5 DEF Surjection
<1> QED BY <1>1, <1>2, <1>6

LEMMA SetCovered ==
  ASSUME NEW S, IsFiniteSet(S), NEW f \in SetToSeqs(S), NEW a \in S
  PROVE  \E i \in DOMAIN f : f[i] = a
BY SetInOrder

(* One node is looked at: what is taken lies one link further. *)
LEMMA ExpandedOk ==
  ASSUME NEW w, NEW v, NEW may \in SUBSET Nodes, NEW edges, SearchOk(w, may, edges),
         w.pc = "walking", w.queue # <<>>, ~FullOf(w),
         NEW n, n = w.queue[1],
         NEW took \in SUBSET may, NEW fresh \in SetToSeqs(took \ DOMAIN w.depth),
         v \in SearchRec, v.pc = w.pc, v.op = w.op, v.ever = w.ever, v.always = w.always,
         v.before = w.before, v.queue = Tail(w.queue) \o fresh,
         DOMAIN v.depth = DOMAIN w.depth \cup took,
         \A m \in DOMAIN v.depth :
            v.depth[m] = IF m \in DOMAIN w.depth THEN w.depth[m] ELSE w.depth[n] + 1,
         v.shown = IF w.op = "traverse" THEN w.shown \cup took ELSE w.shown,
         ~FullOf(v) => \/ w.op = "traverse" /\ w.depth[n] >= MaxDepth
                       \/ \A m \in w.always : LastingStep(w, n, m) =>
                             m \in took \/ (w.op # "traverse" /\ m \in DOMAIN w.depth)
  PROVE  SearchOk(v, may, edges)
<1> DEFINE K == DOMAIN w.depth
           q == w.queue
           d == w.depth
           r == v.queue
           e == v.depth
           L == Len(q)
<1>1. w # NoSearch
  BY DEF NoSearch
<1>2. /\ w \in SearchRec /\ Root \in K /\ d[Root] = 0
      /\ \A i \in DOMAIN q : q[i] \in K
      /\ \A i, j \in DOMAIN q : i < j => d[q[i]] <= d[q[j]]
      /\ \A m \in K : d[m] <= d[n] + 1
      /\ K \cup w.shown \subseteq w.ever
      /\ w.always \subseteq may /\ may \subseteq w.ever /\ w.before \subseteq edges
      /\ \A m \in K : InQueue(w, m) \/ Looked(w, m)
  BY <1>1 DEF SearchOk
<1>3. K \subseteq Nodes /\ d \in [K -> Nat] /\ q \in Seq(Nodes)
  BY <1>2, SearchParts
<1>4. IsFiniteSet(took \ K) /\ took \subseteq Nodes
  <2>1. took \ K \subseteq Nodes
    OBVIOUS
  <2> QED BY <2>1, WalksAssumption, FS_Subset
<1>5. /\ \A i \in DOMAIN fresh : fresh[i] \in took \ K
      /\ \A a \in took \ K : \E i \in DOMAIN fresh : fresh[i] = a
      /\ fresh \in Seq(Nodes)
  <2>1. fresh \in Seq(took \ K)
    BY <1>4, SetInOrder
  <2>2. \A i \in DOMAIN fresh : fresh[i] \in took \ K
    BY <1>4, SetInOrder
  <2>3. \A a \in took \ K : \E i \in DOMAIN fresh : fresh[i] = a
    <3> DEFINE S == took \ K
    <3>1. IsFiniteSet(S) /\ fresh \in SetToSeqs(S)
      BY <1>4
    <3> HIDE DEF S
    <3>2. ASSUME NEW a \in S PROVE \E i \in DOMAIN fresh : fresh[i] = a
      BY <3>1, SetCovered
    <3> QED BY <3>2 DEF S
  <2>4. fresh \in Seq(Nodes)
    BY <1>4, <2>1
  <2> QED BY <2>2, <2>3, <2>4
<1>6. /\ r \in Seq(Nodes) /\ L \in Nat \ {0} /\ Len(fresh) \in Nat
      /\ DOMAIN q = 1..L /\ DOMAIN fresh = 1..Len(fresh)
      /\ DOMAIN r = 1..(L - 1 + Len(fresh))
      /\ \A i \in 1..(L - 1 + Len(fresh)) : r[i] = IF i < L THEN q[i + 1] ELSE fresh[i - (L - 1)]
  <2> DEFINE x == w.queue
             y == v.queue
  <2>1. x \in Seq(Nodes) /\ x # <<>> /\ y = Tail(x) \o fresh
    BY <1>3
  <2> HIDE DEF x, y
  <2>2. /\ Tail(x) \o fresh \in Seq(Nodes) /\ Len(x) \in Nat \ {0} /\ Len(fresh) \in Nat
        /\ DOMAIN x = 1..Len(x) /\ DOMAIN fresh = 1..Len(fresh)
        /\ DOMAIN (Tail(x) \o fresh) = 1..(Len(x) - 1 + Len(fresh))
        /\ \A i \in 1..(Len(x) - 1 + Len(fresh)) :
             (Tail(x) \o fresh)[i] = IF i < Len(x) THEN x[i + 1] ELSE fresh[i - (Len(x) - 1)]
    BY <1>5, <2>1, Queued
  <2> QED BY <2>1, <2>2 DEF x, y
<1>7. n \in K /\ d[n] \in Nat /\ 1 \in DOMAIN q
  <2>1. 1 \in DOMAIN q
    BY <1>6
  <2>2. n \in K
    BY <1>2, <2>1
  <2> QED BY <1>3, <2>1, <2>2
<1>8. \A m \in K : d[m] \in Nat /\ e[m] = d[m] /\ m \in DOMAIN e
  BY <1>3
<1>9. \A m \in took \ K : e[m] = d[n] + 1 /\ m \in DOMAIN e
  OBVIOUS
<1>d. DOMAIN e = K \cup (took \ K)
  OBVIOUS
<1>10. /\ \A i \in DOMAIN r : i < L => i + 1 \in DOMAIN q /\ r[i] = q[i + 1] /\ r[i] \in K
       /\ \A i \in DOMAIN r : ~(i < L) => r[i] \in took \ K
  <2>1. ASSUME NEW i \in DOMAIN r, i < L PROVE i + 1 \in DOMAIN q /\ r[i] = q[i + 1] /\ r[i] \in K
    <3>1. i \in 1..(L - 1 + Len(fresh)) /\ i + 1 \in 1..L
      BY <1>6, <2>1
    <3> QED BY <1>2, <1>6, <2>1, <3>1
  <2>2. ASSUME NEW i \in DOMAIN r, ~(i < L) PROVE r[i] \in took \ K
    <3>1. i \in 1..(L - 1 + Len(fresh)) /\ i - (L - 1) \in 1..Len(fresh)
      BY <1>6, <2>2
    <3> QED BY <1>5, <1>6, <2>2, <3>1
  <2> QED BY <2>1, <2>2
<1>11. \A i \in DOMAIN r : r[i] \in DOMAIN e
  BY <1>8, <1>9, <1>10
<1>12. \A m \in DOMAIN e : e[m] \in Nat /\ e[m] <= d[n] + 1
  <2>1. \A m \in K : e[m] \in Nat /\ e[m] <= d[n] + 1
    BY <1>2, <1>8
  <2>2. \A m \in took \ K : e[m] \in Nat /\ e[m] <= d[n] + 1
    BY <1>7, <1>9
  <2> QED BY <1>d, <2>1, <2>2
<1>13. \A i \in DOMAIN r : ~(i < L) => e[r[i]] = d[n] + 1
  BY <1>9, <1>10
<1>14. \A i, j \in DOMAIN r : i < j => e[r[i]] <= e[r[j]]
  <2> SUFFICES ASSUME NEW i \in DOMAIN r, NEW j \in DOMAIN r, i < j PROVE e[r[i]] <= e[r[j]]
    OBVIOUS
  <2>1. CASE j < L
    <3>1. i < L
      BY <1>6, <2>1
    <3>2. /\ i + 1 \in DOMAIN q /\ r[i] = q[i + 1] /\ r[i] \in K
          /\ j + 1 \in DOMAIN q /\ r[j] = q[j + 1] /\ r[j] \in K /\ i + 1 < j + 1
      BY <1>6, <1>10, <2>1, <3>1
    <3>3. d[q[i + 1]] <= d[q[j + 1]]
      BY <1>2, <3>2
    <3> QED BY <1>8, <3>2, <3>3
  <2>2. CASE ~(j < L)
    <3>1. e[r[j]] = d[n] + 1
      BY <1>13, <2>2
    <3> QED BY <1>11, <1>12, <3>1
  <2> QED BY <2>1, <2>2
<1>15. r # <<>> => \A m \in DOMAIN e : e[m] <= e[r[1]] + 1
  <2> SUFFICES ASSUME r # <<>> PROVE \A m \in DOMAIN e : e[m] <= e[r[1]] + 1
    OBVIOUS
  <2>1. 1 \in DOMAIN r
    BY <1>6, EmptySeq
  <2>2. d[n] <= e[r[1]] /\ e[r[1]] \in Nat
    <3>1. CASE 1 < L
      <4>1. 2 \in DOMAIN q /\ r[1] = q[2] /\ r[1] \in K
        BY <1>10, <2>1, <3>1
      <4>2. d[n] <= d[q[2]]
        BY <1>2, <1>7, <4>1
      <4> QED BY <1>8, <4>1, <4>2
    <3>2. CASE ~(1 < L)
      <4>1. e[r[1]] = d[n] + 1
        BY <1>13, <2>1, <3>2
      <4> QED BY <1>7, <4>1
    <3> QED BY <3>1, <3>2
  <2>3. ASSUME NEW m \in DOMAIN e PROVE e[m] <= e[r[1]] + 1
    <3>1. e[m] \in Nat /\ e[m] <= d[n] + 1
      BY <1>12
    <3> DEFINE x == e[m]
               y == d[n]
               z == e[r[1]]
    <3>2. x \in Nat /\ y \in Nat /\ z \in Nat /\ x <= y + 1 /\ y <= z
      BY <1>7, <2>2, <3>1
    <3> HIDE DEF x, y, z
    <3>3. x <= z + 1
      BY <3>2
    <3> QED BY <3>3 DEF x, z
  <2> QED BY <2>3
<1>16. \A m \in K : m # n /\ InQueue(w, m) => InQueue(v, m)
  <2> SUFFICES ASSUME NEW m \in K, m # n, NEW i \in DOMAIN q, q[i] = m PROVE \E j \in DOMAIN r : r[j] = m
    BY DEF InQueue
  <2>1. i # 1
    OBVIOUS
  <2>2. i - 1 \in DOMAIN r /\ i - 1 < L /\ (i - 1) + 1 = i
    BY <1>6, <2>1
  <2> QED BY <1>6, <2>2
<1>17. \A m \in took \ K : InQueue(v, m)
  <2> SUFFICES ASSUME NEW m \in took \ K PROVE \E j \in DOMAIN r : r[j] = m
    BY DEF InQueue
  <2>1. PICK i \in DOMAIN fresh : fresh[i] = m
    BY <1>5
  <2>2. i + (L - 1) \in DOMAIN r /\ ~(i + (L - 1) < L) /\ (i + (L - 1)) - (L - 1) = i
    BY <1>6
  <2> QED BY <1>6, <2>1, <2>2
<1>18. \A m \in K : Looked(w, m) => Looked(v, m)
  <2>1. w.shown \subseteq v.shown
    OBVIOUS
  <2> QED BY <1>8, <2>1 DEF Looked, LastingStep
<1>19. ~FullOf(v) => Looked(v, n)
  <2> SUFFICES ASSUME ~FullOf(v) PROVE Looked(v, n)
    OBVIOUS
  <2>1. CASE w.op = "traverse" /\ d[n] >= MaxDepth
    BY <1>7, <1>8, <2>1 DEF Looked
  <2>2. CASE \A m \in w.always : LastingStep(w, n, m) =>
                m \in took \/ (w.op # "traverse" /\ m \in DOMAIN w.depth)
    <3>1. ASSUME NEW m \in v.always, LastingStep(v, n, m)
          PROVE  /\ m \in DOMAIN e /\ e[m] <= e[n] + 1
                 /\ v.op = "traverse" => m \in v.shown
      <4>1. m \in took \/ (w.op # "traverse" /\ m \in K)
        BY <2>2, <3>1 DEF LastingStep
      <4>2. m \in DOMAIN e
        BY <4>1
      <4>3. e[m] <= e[n] + 1
        BY <1>7, <1>8, <1>12, <4>2
      <4> QED BY <4>1, <4>2, <4>3
    <3> QED BY <3>1 DEF Looked
  <2> QED BY <2>1, <2>2
<1>20. ~FullOf(v) => \A m \in DOMAIN e : InQueue(v, m) \/ Looked(v, m)
  BY <1>2, <1>d, <1>16, <1>17, <1>18, <1>19
<1>21. /\ Root \in DOMAIN e /\ e[Root] = 0 /\ DOMAIN e \cup v.shown \subseteq v.ever
       /\ v.always \subseteq may /\ may \subseteq v.ever /\ v.before \subseteq edges
  BY <1>2, <1>8
<1>22. v.pc # "answered"
  OBVIOUS
<1> QED BY <1>11, <1>14, <1>15, <1>20, <1>21, <1>22 DEF SearchOk
(* One SELECT: it misses a lasting neighbour only if the walk is full then. *)
LEMMA ExpandStep ==
  ASSUME WalksInv, Expand
  PROVE  SearchOk(search', allowed, links)
<1> DEFINE w == search
           n == Head(w.queue)
           known == DOMAIN w.depth
           deep == w.op = "traverse" /\ w.depth[n] >= MaxDepth
           beside == IF deep THEN {} ELSE Visible(w.op, n)
           look == IF w.op = "traverse" THEN beside ELSE beside \ known
           room == NodeLimit - (IF w.op = "traverse" THEN w.items ELSE Cardinality(known))
           k == IF Cardinality(look) < room THEN Cardinality(look) ELSE room
<1>1. /\ w.pc = "walking" /\ w.queue # <<>> /\ ~Full
      /\ \E took \in kSubset(k, look) : \E fresh \in SetToSeqs(took \ known) :
           search' = [search EXCEPT
                !.queue = Tail(@) \o fresh,
                !.depth = [m \in known \cup took |-> IF m \in known THEN @[m] ELSE @[n] + 1],
                !.items = @ + Cardinality(took),
                !.shown = IF w.op = "traverse" THEN @ \cup took ELSE @]
  BY DEF Expand
<1>2. PICK took \in kSubset(k, look) : \E fresh \in SetToSeqs(took \ known) :
           search' = [search EXCEPT
                !.queue = Tail(@) \o fresh,
                !.depth = [m \in known \cup took |-> IF m \in known THEN @[m] ELSE @[n] + 1],
                !.items = @ + Cardinality(took),
                !.shown = IF w.op = "traverse" THEN @ \cup took ELSE @]
  BY <1>1
<1>3. PICK fresh \in SetToSeqs(took \ known) :
           search' = [search EXCEPT
                !.queue = Tail(@) \o fresh,
                !.depth = [m \in known \cup took |-> IF m \in known THEN @[m] ELSE @[n] + 1],
                !.items = @ + Cardinality(took),
                !.shown = IF w.op = "traverse" THEN @ \cup took ELSE @]
  BY <1>2
<1>4. w # NoSearch
  BY <1>1 DEF NoSearch
<1>5. w \in SearchRec /\ ~FullOf(w) /\ w.always \subseteq allowed /\ w.before \subseteq links
      /\ allowed \subseteq Nodes /\ \A i \in DOMAIN w.queue : w.queue[i] \in known
  BY <1>1, <1>4 DEF WalksInv, SearchOk, Full, FullOf
<1>6. /\ known \subseteq Nodes /\ w.depth \in [known -> Nat] /\ w.queue \in Seq(Nodes)
      /\ w.items \in Nat /\ w.shown \subseteq Nodes /\ w.op \in Ops /\ w.always \subseteq Nodes
  BY <1>5, SearchParts
<1>7. n = w.queue[1] /\ n \in known /\ n \in Nodes /\ w.depth[n] \in Nat
  <2>1. n = w.queue[1] /\ 1 \in DOMAIN w.queue
    BY <1>1, <1>6, LenProperties, EmptySeq
  <2> QED BY <1>5, <1>6, <2>1
<1>8. IsFiniteSet(known) /\ Cardinality(known) \in Nat /\ Cardinality(look) \in Nat /\ IsFiniteSet(look)
      /\ look \subseteq Nodes /\ look \subseteq allowed /\ (w.op # "traverse" => look \cap known = {})
  <2>1. look \subseteq Nodes /\ look \subseteq allowed /\ (w.op # "traverse" => look \cap known = {})
    BY <1>5 DEF Visible, Adjacent
  <2> HIDE DEF look
  <2>2. IsFiniteSet(known) /\ IsFiniteSet(look)
    BY <1>6, <2>1, WalksAssumption, FS_Subset
  <2> QED BY <2>1, <2>2, FS_CardinalityType
<1>9. ASSUME ~deep, NEW m \in w.always, LastingStep(w, n, m)
      PROVE  m \in look \/ (w.op # "traverse" /\ m \in known)
  <2>1. m \in Visible(w.op, n)
    BY <1>5, <1>6, <1>9 DEF Visible, Adjacent, LastingStep
  <2> QED BY <1>9, <2>1
<1>10. room \in Nat
  BY <1>5, <1>6, <1>8, WalksAssumption DEF FullOf
<1> HIDE DEF known, look, n
<1>11. took \subseteq look /\ Cardinality(took) = k /\ IsFiniteSet(took) /\ k \in Nat
  <2>1. took \subseteq look /\ Cardinality(took) = k
    BY DEF kSubset
  <2>2. IsFiniteSet(took)
    BY <1>8, <2>1, FS_Subset
  <2> QED BY <1>8, <1>10, <2>1, <2>2
<1>12. k = Cardinality(look) => took = look
  BY <1>8, <1>11, FS_Subset
<1> DEFINE q == Tail(w.queue) \o fresh
           d == [m \in known \cup took |-> IF m \in known THEN w.depth[m] ELSE w.depth[n] + 1]
           c == w.items + Cardinality(took)
           s == IF w.op = "traverse" THEN w.shown \cup took ELSE w.shown
           v == search'
<1>13. v = [w EXCEPT !.queue = q, !.depth = d, !.items = c, !.shown = s]
  BY <1>3, <1>5, SearchParts
<1>14. d \in [known \cup took -> Nat] /\ DOMAIN d = known \cup took /\ known \cup took \subseteq Nodes
  BY <1>6, <1>7, <1>8, <1>11
<1>15. d \in Depths
  BY <1>14 DEF Depths
<1>16. fresh \in Seq(Nodes)
  <2> DEFINE S == took \ known
  <2>1. IsFiniteSet(S) /\ fresh \in SetToSeqs(S) /\ S \subseteq Nodes
    BY <1>8, <1>11, FS_Subset
  <2> HIDE DEF S
  <2>2. fresh \in Seq(S)
    BY <2>1, SetInOrder
  <2> QED BY <2>1, <2>2
<1>17. q \in Seq(Nodes)
  BY <1>1, <1>6, <1>16, Queued
<1>18. c \in Nat /\ s \subseteq Nodes
  BY <1>6, <1>8, <1>11
<1>19. \A m \in DOMAIN d : d[m] = IF m \in known THEN w.depth[m] ELSE w.depth[n] + 1
  OBVIOUS
<1> HIDE DEF q, d, c, s, v
<1>20. /\ v \in SearchRec /\ v.pc = w.pc /\ v.op = w.op /\ v.ever = w.ever /\ v.always = w.always
       /\ v.before = w.before /\ v.queue = q /\ v.depth = d /\ v.items = c /\ v.shown = s
  BY <1>5, <1>13, <1>15, <1>17, <1>18 DEF SearchRec
<1>21. k = room => FullOf(v)
  <2>1. ASSUME k = room, w.op = "traverse" PROVE c >= NodeLimit
    BY <1>6, <1>11, <2>1, WalksAssumption DEF c
  <2>2. ASSUME k = room, w.op # "traverse" PROVE Cardinality(known \cup took) >= NodeLimit
    <3>1. known \cap took = {}
      BY <1>8, <1>11, <2>2
    <3>2. Cardinality(known \cup took) = Cardinality(known) + Cardinality(took) - Cardinality(known \cap took)
      BY <1>8, <1>11, FS_Union
    <3>3. Cardinality(known \cap took) = 0
      BY <3>1, FS_EmptySet
    <3> QED BY <1>8, <1>11, <2>2, <3>2, <3>3, WalksAssumption
  <2> QED BY <1>14, <1>20, <2>1, <2>2 DEF FullOf
<1>22. ~FullOf(v) => \/ w.op = "traverse" /\ w.depth[n] >= MaxDepth
                     \/ \A m \in w.always : LastingStep(w, n, m) =>
                           m \in took \/ (w.op # "traverse" /\ m \in known)
  <2>1. ~FullOf(v) => took = look
    BY <1>12, <1>21
  <2> QED BY <1>9, <2>1
<1>23. took \in SUBSET allowed /\ allowed \in SUBSET Nodes
  BY <1>5, <1>8, <1>11
<1>24. SearchOk(w, allowed, links)
  BY DEF WalksInv
<1>25. SearchOk(v, allowed, links)
  <2> DEFINE x == w
  <2>1. /\ SearchOk(x, allowed, links) /\ x.pc = "walking" /\ x.queue # <<>> /\ ~FullOf(x) /\ n = x.queue[1]
    BY <1>1, <1>5, <1>7, <1>24
  <2>2. /\ v.pc = x.pc /\ v.op = x.op /\ v.ever = x.ever /\ v.always = x.always /\ v.before = x.before
        /\ v.queue = Tail(x.queue) \o fresh /\ DOMAIN v.depth = DOMAIN x.depth \cup took
    BY <1>14, <1>20 DEF q, known
  <2>3. /\ \A m \in DOMAIN v.depth :
              v.depth[m] = IF m \in DOMAIN x.depth THEN x.depth[m] ELSE x.depth[n] + 1
        /\ v.shown = IF x.op = "traverse" THEN x.shown \cup took ELSE x.shown
    BY <1>19, <1>20 DEF s, known
  <2>4. ~FullOf(v) => \/ x.op = "traverse" /\ x.depth[n] >= MaxDepth
                      \/ \A m \in x.always : LastingStep(x, n, m) =>
                             m \in took \/ (x.op # "traverse" /\ m \in DOMAIN x.depth)
    BY <1>22 DEF known
  <2>5. fresh \in SetToSeqs(took \ DOMAIN x.depth)
    BY DEF known
  <2> HIDE DEF x
  <2> QED BY <1>20, <1>23, <2>1, <2>2, <2>3, <2>4, <2>5, ExpandedOk
<1> QED BY <1>25 DEF v

LEMMA WalksStepInv == WalksInv /\ WalksNext => WalksInv'
<1> SUFFICES ASSUME WalksInv, WalksNext PROVE WalksInv'
  OBVIOUS
<1>1. links \subseteq Nodes \X Nodes /\ allowed \subseteq Nodes /\ SearchOk(search, allowed, links)
  BY DEF WalksInv
<1>2. ASSUME NEW source \in Nodes, NEW target \in Nodes, Link(source, target) PROVE WalksInv'
  <2>1. links' = links \cup {<<source, target>>} /\ allowed' = allowed /\ search' = search
    BY <1>2 DEF Link
  <2>2. links' \subseteq Nodes \X Nodes /\ links \subseteq links'
    BY <1>1, <2>1
  <2>3. SearchOk(search, allowed, links')
    BY <1>1, <2>2 DEF SearchOk
  <2> QED BY <1>1, <2>1, <2>2, <2>3 DEF WalksInv
<1>3. ASSUME NEW may \in SUBSET Nodes, SetAccess(may) PROVE WalksInv'
  <2> DEFINE v == search'
             w == search
  <2>1. /\ allowed' = may /\ links' = links
        /\ v = IF w.pc # "walking" THEN w
               ELSE [w EXCEPT !.ever = @ \cup may, !.always = @ \cap may]
    BY <1>3 DEF SetAccess
  <2>2. SearchOk(w, allowed, links)
    BY <1>1
  <2> HIDE DEF v, w
  <2>3. SearchOk(v, may, links)
    BY <2>1, <2>2, AccessOk
  <2> QED BY <1>1, <2>1, <2>3 DEF WalksInv, v
<1>4. ASSUME NEW n \in Nodes, Share(n) \/ Revoke(n) PROVE WalksInv'
  <2>1. allowed \cup {n} \in SUBSET Nodes /\ allowed \ {n} \in SUBSET Nodes
    BY <1>1
  <2> QED BY <1>3, <1>4, <2>1 DEF Share, Revoke
<1>5. ASSUME NEW op \in Ops, Begin(op) PROVE WalksInv'
  <2> DEFINE v == search'
  <2>1. /\ allowed' = allowed /\ links' = links /\ Root \in allowed
        /\ v = [pc |-> "walking", op |-> op, queue |-> <<Root>>, depth |-> [n \in {Root} |-> 0],
                items |-> 0, shown |-> {}, ever |-> allowed, always |-> allowed, before |-> links]
    BY <1>5 DEF Begin
  <2> HIDE DEF v
  <2>2. SearchOk(v, allowed, links)
    BY <1>1, <2>1, BegunOk
  <2> QED BY <1>1, <2>1, <2>2 DEF WalksInv, v
<1>6. CASE Expand
  <2>1. allowed' = allowed /\ links' = links
    BY <1>6 DEF Expand
  <2>2. SearchOk(search', allowed, links)
    BY <1>6, ExpandStep
  <2> QED BY <1>1, <2>1, <2>2 DEF WalksInv
<1>7. CASE Answer
  <2> DEFINE v == search'
             w == search
  <2>1. /\ allowed' = allowed /\ links' = links /\ w.pc = "walking"
        /\ v = [w EXCEPT !.pc = "answered",
                         !.shown = IF w.op = "traverse" THEN @ ELSE DOMAIN w.depth \cap allowed]
    BY <1>7 DEF Answer
  <2>2. SearchOk(w, allowed, links) /\ (w.queue = <<>> \/ FullOf(w))
    BY <1>1, <1>7 DEF Answer, Full, FullOf
  <2> HIDE DEF v, w
  <2>3. SearchOk(v, allowed, links)
    BY <1>1, <2>1, <2>2, AnsweredOk
  <2> QED BY <1>1, <2>1, <2>3 DEF WalksInv, v
<1> QED BY <1>2, <1>4, <1>5, <1>6, <1>7 DEF WalksNext, Ops

(* WalksTell: while access is granted and revoked and links appear between  *)
(* two SELECTs of graph_component, search and traverse, the walk shows      *)
(* nothing that could never be read, and if it is not full it shows all     *)
(* that could be reached all the time - for every graph, limit and depth.   *)
THEOREM WalksAreTold == Spec => []WalksTell
<1>1. WalksInv /\ [Next]_vars => WalksInv'
  <2> SUFFICES ASSUME WalksInv, [Next]_vars PROVE WalksInv'
    OBVIOUS
  <2>1. CASE UNCHANGED walksVars
    BY <2>1 DEF walksVars, WalksInv
  <2>2. CASE WalksNext
    BY <2>2, WalksStepInv
  <2> QED BY <2>1, <2>2 DEF Next, vars
<1> QED BY <1>1, InitWalksInv, WalksHold, PTL DEF Spec
------------------------------------------------------------------------------
(* Unrepeated lists the chosen places of an answer in their order.  The     *)
(* rank of a place is how many chosen ones there are up to it.              *)

Keep(answer) ==
  {i \in DOMAIN answer : \A j \in 1..(i - 1) : answer[j].id # answer[i].id}

Rank(keep, i) == Cardinality({j \in keep : j <= i})

(* Every rank is that of a place. *)
LEMMA RankReached ==
  ASSUME NEW m \in Nat, NEW keep \in SUBSET (1..m), NEW n \in 1..Cardinality(keep)
  PROVE  \E i \in keep : Rank(keep, i) = n
<1> DEFINE R == {p \in keep \X keep : p[1] < p[2]}
<1>1. IsFiniteSet(keep)
  <2>1. IsFiniteSet(1..m)
    BY FS_Interval
  <2> QED BY <2>1, FS_Subset
<1>2. \A i, k \in keep : <<i, k>> \in R <=> i < k
  OBVIOUS
<1>3. \A i \in keep : i \in Int
  OBVIOUS
<1> HIDE DEF R
<1>4. Comes(R, keep)
  BY <1>2, <1>3 DEF Comes
<1>5. \A i \in keep : PlaceIn(keep, R, i) = Rank(keep, i)
  <2> TAKE i \in keep
  <2>0. \A j \in keep : <<i, j>> \notin R <=> j <= i
    <3> TAKE j \in keep
    <3>1. i \in Int /\ j \in Int /\ (<<i, j>> \in R <=> i < j)
      BY <1>2, <1>3
    <3> QED BY <3>1
  <2>1. {j \in keep : <<i, j>> \notin R} = {j \in keep : j <= i}
    BY <2>0
  <2> QED BY <2>1 DEF PlaceIn, Rank
<1>6. \E i \in keep : PlaceIn(keep, R, i) = n
  BY <1>1, <1>4, PlaceTaken
<1> QED BY <1>5, <1>6

(* Of an answer, Unrepeated keeps messages at different ids and no more     *)
(* than there are.                                                          *)
LEMMA UnrepeatedChosen ==
  ASSUME NEW m \in Nat, NEW answer \in [1..m -> Messages]
  PROVE  /\ \E n \in Nat : n <= m /\ Unrepeated(answer) \in [1..n -> Messages]
         /\ \A i \in DOMAIN Unrepeated(answer) : \E k \in 1..m : Unrepeated(answer)[i] = answer[k]
         /\ \A i, j \in DOMAIN Unrepeated(answer) :
              Unrepeated(answer)[i].id = Unrepeated(answer)[j].id => i = j
<1> DEFINE keep == Keep(answer)
           N == Cardinality(keep)
           at(n) == CHOOSE i \in keep : Rank(keep, i) = n
           u == [n \in 1..N |-> answer[at(n)]]
<1>1. u = Unrepeated(answer)
  BY DEF Unrepeated, Keep, Rank
<1>2. keep \in SUBSET (1..m)
  BY DEF Keep
<1>3. N \in Nat /\ N <= m
  <2>1. IsFiniteSet(1..m) /\ Cardinality(1..m) = m
    BY FS_Interval
  <2>2. IsFiniteSet(keep) /\ N <= m
    BY <1>2, <2>1, FS_Subset
  <2> QED BY <2>2, FS_CardinalityType
<1>4. ASSUME NEW n \in 1..N PROVE at(n) \in keep /\ Rank(keep, at(n)) = n
  <2>1. \E i \in keep : Rank(keep, i) = n
    BY <1>2, RankReached
  <2> HIDE DEF keep
  <2> QED BY <2>1
<1>5. \A i, k \in keep : answer[i].id = answer[k].id => i = k
  <2>1. \A i, k \in keep : i < k => answer[i].id # answer[k].id
    BY DEF Keep
  <2> QED BY <1>2, <2>1
<1> HIDE DEF keep, at, N
<1>6. u \in [1..N -> Messages] /\ \A n \in 1..N : \E k \in 1..m : u[n] = answer[k]
  BY <1>2, <1>4
<1>7. ASSUME NEW i \in 1..N, NEW j \in 1..N, u[i].id = u[j].id PROVE i = j
  <2>1. at(i) = at(j)
    BY <1>4, <1>5, <1>7
  <2> QED BY <1>4, <2>1
<1> HIDE DEF u
<1>8. DOMAIN u = 1..N
  BY <1>6
<1> QED BY <1>1, <1>3, <1>6, <1>7, <1>8

------------------------------------------------------------------------------
(* The call.  What it found and may save is in order from the moment the    *)
(* answer is taken; it reaches the upstream only within the policy.         *)

IsSearch(s) ==
  /\ s = [pc |-> s.pc, op |-> s.op, channel |-> s.channel, from |-> s.from, to |-> s.to,
          limit |-> s.limit, found |-> s.found, number |-> s.number]
  /\ s.from \in Int /\ s.to \in Int /\ s.limit \in Nat

InOrderOf(s) ==
  /\ Len(s.found) <= s.limit
  /\ \A i, j \in DOMAIN s.found : s.found[i].id = s.found[j].id => i = j
  /\ \A i \in DOMAIN s.found :
       s.found[i].channel = s.channel /\ s.found[i].at \in s.from..(s.to - 1)

Past(s, places) == s.pc \in places

SearchInv(s) ==
  s.pc # "none" =>
    /\ IsSearch(s)
    /\ Past(s, {"fence", "upstream", "record", "create"}) => Approved(s)
    /\ Past(s, {"record", "create"}) => InOrderOf(s)
    /\ Past(s, {"create"}) => <<s.number, "allowed">> \in rows

SavedInv(s) ==
  /\ InOrderOf(s) /\ s.channel \in policy.channels
  /\ <<s.number, "allowed">> \in rows

SlackInv ==
  /\ SearchInv(searching)
  /\ \A s \in saved : SavedInv(s)
  /\ \A q \in contacted : q.channel \in policy.channels /\ q.to - q.from <= policy.span

LEMMA InitSlackInv == Init => SlackInv
  BY DEF Init, SlackInit, SlackInv, SearchInv, NoCallNow

(* The call goes on and nothing else but audit rows is added. *)
LEMMA GoesOn ==
  ASSUME SlackInv, NEW to, Go(to), searching.pc # "none", to # "none",
         to \in {"fence", "upstream", "record", "create"} => Approved(searching),
         to \in {"record", "create"} => InOrderOf(searching),
         to = "create" => <<searching.number, "allowed">> \in rows',
         rows \subseteq rows', UNCHANGED <<policy, contacted, saved>>
  PROVE  SlackInv'
<1>1. IsSearch(searching)
  BY DEF SlackInv, SearchInv
<1>2. /\ searching'.pc = to /\ IsSearch(searching') /\ searching'.found = searching.found
      /\ searching'.channel = searching.channel /\ searching'.from = searching.from
      /\ searching'.to = searching.to /\ searching'.limit = searching.limit
      /\ searching'.number = searching.number
  BY <1>1 DEF Go, IsSearch
<1>3. (SearchInv(searching))'
  BY <1>2 DEF SearchInv, Past, Approved, InOrderOf, IsSearch
<1> QED BY <1>3 DEF SlackInv, SavedInv, InOrderOf

(* A whole answer within the limits of the search is kept in order. *)
LEMMA AnswerInOrder ==
  ASSUME NEW s, IsSearch(s), NEW answer \in Answers, Len(answer) <= s.limit,
         \A i \in DOMAIN answer : Within(answer[i], s), NEW x, x.found = Unrepeated(answer),
         x.channel = s.channel, x.from = s.from, x.to = s.to, x.limit = s.limit
  PROVE  InOrderOf(x)
<1>1. PICK m \in Nat : answer \in [1..m -> Messages]
  BY SlackAssumption DEF Answers
<1>2. m <= s.limit
  <2>1. answer \in Seq(Messages) /\ Len(answer) = m
    BY <1>1
  <2> QED BY <2>1
<1> DEFINE u == Unrepeated(answer)
<1>3. PICK n \in Nat : n <= m /\ u \in [1..n -> Messages]
  BY <1>1, UnrepeatedChosen
<1>4. \A i, j \in DOMAIN u : u[i].id = u[j].id => i = j
  BY <1>1, UnrepeatedChosen
<1>5. \A i \in DOMAIN u : \E k \in 1..m : u[i] = answer[k]
  BY <1>1, UnrepeatedChosen
<1> HIDE DEF u
<1>6. u \in Seq(Messages) /\ Len(u) = n
  BY <1>3
<1>7. Len(u) <= s.limit
  BY <1>2, <1>3, <1>6 DEF IsSearch
<1>8. ASSUME NEW i \in DOMAIN u PROVE u[i].channel = s.channel /\ u[i].at \in s.from..(s.to - 1)
  <2>1. PICK k \in 1..m : u[i] = answer[k]
    BY <1>5
  <2>2. Within(answer[k], s) /\ answer[k].at \in Int
    BY <1>1 DEF Messages, Times
  <2> QED BY <2>1, <2>2 DEF Within, IsSearch
<1>9. x.found = u
  BY DEF u
<1> QED BY <1>4, <1>7, <1>8, <1>9 DEF InOrderOf

LEMMA SlackStepInv ==
  ASSUME SlackInv, SlackNext
  PROVE  SlackInv'
<1>1. ASSUME NEW op, NEW scopes, NEW channel, NEW from \in Times, NEW to \in Times,
             NEW limit \in 1..MaxMessages, Search(op, scopes, channel, from, to, limit)
      PROVE  SlackInv'
  <2>1. searching' = Asked(op, channel, from, to, limit)
    BY <1>1 DEF Search
  <2>2. /\ searching'.pc = "authorize" /\ IsSearch(searching')
    BY <2>1, SlackAssumption DEF Asked, IsSearch, Times
  <2>3. (SearchInv(searching))'
    BY <2>2 DEF SearchInv, Past, IsSearch
  <2> QED BY <1>1, <2>3 DEF Search, SlackInv, SavedInv, InOrderOf
<1>2. CASE Authorize
  BY <1>2, GoesOn DEF Authorize, Record
<1>3. CASE CheckPolicy
  BY <1>3, GoesOn DEF CheckPolicy, Record
<1>4. CASE Contact
  <2>1. SearchInv(searching) /\ searching.pc = "fence"
    BY <1>4 DEF Contact, SlackInv
  <2>2. Approved(searching) /\ IsSearch(searching)
    BY <2>1 DEF SearchInv, Past
  <2>3. CASE active
    <3>1. searching' = [searching EXCEPT !.pc = "upstream"]
      BY <1>4, <2>3 DEF Contact, Go
    <3>2. /\ searching'.pc = "upstream" /\ IsSearch(searching')
          /\ searching'.channel = searching.channel
          /\ searching'.from = searching.from /\ searching'.to = searching.to
      BY <2>2, <3>1 DEF IsSearch
    <3>3. (SearchInv(searching))'
      BY <1>4, <2>2, <3>2 DEF SearchInv, Past, Approved, IsSearch, Contact
    <3>4. \A q \in contacted' : q \in contacted \/
            q = [channel |-> searching.channel, from |-> searching.from, to |-> searching.to]
      BY <1>4, <2>3 DEF Contact
    <3>5. \A q \in contacted' : q.channel \in policy.channels /\ q.to - q.from <= policy.span
      BY <2>2, <3>4 DEF SlackInv, Approved
    <3> QED BY <1>4, <2>3, <3>3, <3>5 DEF Contact, SlackInv, SavedInv, InOrderOf
  <2>4. CASE ~active
    BY <1>4, <2>4, GoesOn DEF Contact, Record
  <2> QED BY <2>3, <2>4
<1>5. ASSUME NEW answer \in Answers, Receive(answer) PROVE SlackInv'
  <2>1. SearchInv(searching) /\ searching.pc = "upstream"
    BY <1>5 DEF Receive, SlackInv
  <2>2. Approved(searching) /\ IsSearch(searching)
    BY <2>1 DEF SearchInv, Past
  <2> DEFINE fits == Len(answer) <= searching.limit
                     /\ \A i \in DOMAIN answer : Within(answer[i], searching)
  <2>3. CASE fits
    <3>1. searching' = [searching EXCEPT !.pc = "record", !.found = Unrepeated(answer)]
      BY <1>5, <2>3 DEF Receive
    <3>2. /\ searching'.pc = "record" /\ IsSearch(searching')
          /\ searching'.found = Unrepeated(answer) /\ searching'.limit = searching.limit
          /\ searching'.channel = searching.channel
          /\ searching'.from = searching.from /\ searching'.to = searching.to
      BY <2>2, <3>1 DEF IsSearch
    <3>3. InOrderOf(searching')
      BY <2>2, <2>3, <3>2, AnswerInOrder
    <3>4. (SearchInv(searching))'
      BY <1>5, <2>2, <3>2, <3>3 DEF SearchInv, Past, Approved, IsSearch, InOrderOf, Receive
    <3> QED BY <1>5, <2>3, <3>4 DEF Receive, SlackInv, SavedInv, InOrderOf
  <2>4. CASE ~fits
    BY <1>5, <2>1, <2>4, GoesOn DEF Receive, Record
  <2> QED BY <2>3, <2>4
<1>6. CASE ReceiveNothing
  BY <1>6, GoesOn DEF ReceiveNothing, Record
<1>7. CASE RecordUse
  <2>1. SearchInv(searching) /\ searching.pc = "record"
    BY <1>7 DEF RecordUse, SlackInv
  <2>2. Approved(searching) /\ InOrderOf(searching)
    BY <2>1 DEF SearchInv, Past
  <2>3. <<searching.number, "allowed">> \in rows' /\ rows \subseteq rows'
    BY <1>7 DEF RecordUse, Record
  <2> QED BY <1>7, <2>2, <2>3, GoesOn DEF RecordUse
<1>8. CASE Save
  <2>1. SearchInv(searching) /\ searching.pc = "create"
    BY <1>8 DEF Save, SlackInv
  <2>2. SavedInv(searching)
    BY <2>1 DEF SearchInv, Past, SavedInv, Approved
  <2>3. \A s \in saved' : SavedInv(s)
    BY <1>8, <2>2 DEF Save, SlackInv
  <2>4. IsSearch(searching) /\ searching' = [searching EXCEPT !.pc = "over"]
    BY <1>8, <2>1 DEF SearchInv, Past, Save, Go
  <2>5. searching'.pc = "over" /\ IsSearch(searching')
    BY <2>4 DEF IsSearch
  <2>6. (SearchInv(searching))'
    BY <2>5 DEF SearchInv, Past, IsSearch
  <2>7. \A s \in saved' : SavedInv(s)'
    BY <1>8, <2>3 DEF Save, SavedInv, InOrderOf
  <2> QED BY <1>8, <2>6, <2>7 DEF Save, SlackInv
<1>9. CASE Abandon
  BY <1>9, GoesOn DEF Abandon
<1>10. CASE Withdraw
  BY <1>10 DEF Withdraw, SlackInv, SearchInv, Past, Approved, InOrderOf, IsSearch, SavedInv
<1> QED BY <1>1, <1>2, <1>3, <1>4, <1>5, <1>6, <1>7, <1>8, <1>9, <1>10 DEF SlackNext

LEMMA NextSlackInv == SlackInv /\ [Next]_vars => SlackInv'
<1> SUFFICES ASSUME SlackInv, [Next]_vars PROVE SlackInv'
  OBVIOUS
<1>1. CASE UNCHANGED slackVars
  BY <1>1 DEF slackVars, SlackInv, SearchInv, Past, Approved, InOrderOf, IsSearch, SavedInv
<1>2. CASE SlackNext
  BY <1>2, SlackStepInv
<1> QED BY <1>1, <1>2 DEF Next, vars

(* SavedAsApproved.  Whatever an upstream answers, in whatever order and    *)
(* with whatever repetitions, an artifact keeps only different messages of *)
(* its search's channel and time range, no more than asked for, and its    *)
(* search is on record; no upstream is asked for more than the policy      *)
(* allows (slack._messages, validate_policy, _save_internal).              *)
THEOREM SavesAreApproved == Spec => []SavedAsApproved
<1>1. SlackInv => SavedAsApproved
  <2> SUFFICES ASSUME SlackInv PROVE SavedAsApproved
    OBVIOUS
  <2>1. ASSUME NEW s \in saved
        PROVE  /\ Len(s.found) <= s.limit
               /\ \A i, j \in DOMAIN s.found : s.found[i].id = s.found[j].id => i = j
               /\ \A i \in DOMAIN s.found :
                    s.found[i].channel \in policy.channels /\ s.found[i].at \in s.from..(s.to - 1)
               /\ <<s.number, "allowed">> \in rows
    BY DEF SlackInv, SavedInv, InOrderOf
  <2> QED BY <2>1 DEF SlackInv, SavedAsApproved
<1> QED BY <1>1, InitSlackInv, NextSlackInv, PTL DEF Spec

------------------------------------------------------------------------------
(* The listing of a role: the places of the last written artifacts.  The    *)
(* place of one is how many of the same name were not written before it.    *)

Place(S, at, a) == Cardinality({b \in S : at[b] >= at[a]})

(* Of artifacts written at different times each has a place of its own,     *)
(* and every place is somebody's.                                           *)
LEMMA Places ==
  ASSUME NEW S, IsFiniteSet(S), NEW at \in [S -> Int],
         \A a, b \in S : at[a] = at[b] => a = b
  PROVE  /\ \A a \in S : Place(S, at, a) \in 1..Cardinality(S)
         /\ \A a, b \in S : Place(S, at, a) = Place(S, at, b) => a = b
         /\ \A n \in 1..Cardinality(S) : \E a \in S : Place(S, at, a) = n
<1> DEFINE R == {p \in S \X S : at[p[1]] > at[p[2]]}
<1>1. \A a, b \in S : <<a, b>> \in R <=> at[a] > at[b]
  OBVIOUS
<1>2. \A a \in S : at[a] \in Int
  OBVIOUS
<1> HIDE DEF R
<1>3. Comes(R, S)
  BY <1>1, <1>2 DEF Comes
<1>4. \A a \in S : PlaceIn(S, R, a) = Place(S, at, a)
  <2> TAKE a \in S
  <2>1. {b \in S : <<a, b>> \notin R} = {b \in S : at[b] >= at[a]}
    BY <1>1, <1>2
  <2> QED BY <2>1 DEF PlaceIn, Place
<1>5. \A a \in S : PlaceIn(S, R, a) \in 1..Cardinality(S)
  BY <1>3, PlacesIn
<1>6. \A a, b \in S : PlaceIn(S, R, a) = PlaceIn(S, R, b) => a = b
  BY <1>3, PlacesIn
<1>7. \A n \in 1..Cardinality(S) : \E a \in S : PlaceIn(S, R, a) = n
  <2> TAKE n \in 1..Cardinality(S)
  <2> QED BY <1>3, PlaceTaken
<1> QED BY <1>4, <1>5, <1>6, <1>7

------------------------------------------------------------------------------
(* The agent's bundle *)

Pairs     == Nat \X Nat
RoleNames == {"css", "js", "html"}
Contents  == Seq(Nat) \cup Seq(Pairs)
Asset     == [role : RoleNames, typed : BOOLEAN, context : Contents, body : Contents,
              version : Nat, at : Nat, remade : BOOLEAN]
Requests  == [role : RoleNames, body : Contents]

States ==
  [pc : {"listing", "reading", "creating", "linking", "checking", "done"},
   css : Nat, done : Seq(Pairs), todo : Seq(Nat), matches : Seq(Pairs),
   full : BOOLEAN]

AssetTypes ==
  /\ assets \in Seq(Asset) /\ edits \in Nat /\ overlapped \in BOOLEAN
  /\ \A a \in DOMAIN assets : assets[a].at <= Written
  /\ \A a, b \in DOMAIN assets : assets[a].at = assets[b].at => a = b
  /\ \A a \in DOMAIN assets : assets[a].typed \/ assets[a].remade
  /\ edits = 0 => \A a \in DOMAIN assets : assets[a].version = 1 /\ ~assets[a].remade
  /\ run = [r \in Runs |-> run[r]] /\ asked = [r \in Runs |-> asked[r]]

RoleOf(x) == Roles[Len(x.done) + 1]
BodyOf(x) == CASE RoleOf(x) = "css" -> <<x.css>>
               [] RoleOf(x) = "js" -> <<0>>
               [] OTHER -> x.done

(* One that others have given neither a context nor a media type.            *)
Bearer(A, a, role) ==
  a \in DOMAIN A /\ A[a].role = role /\ A[a].context # Nothing /\ ~A[a].remade
Settled(A, m, role) == Bearer(A, m[1], role) /\ m[2] = 1

Lens(x) ==
  /\ Len(x.done) <= 3
  /\ x.pc \in {"listing", "reading", "creating"} => Len(x.done) <= 2
  /\ x.pc \in {"linking", "checking", "done"} => Len(x.done) = 3

(* What a run that reads has still to read and has found. *)
ReadingOk(x, A, fresh, alone) ==
  x.pc = "reading" =>
    /\ \A i \in DOMAIN x.todo : x.todo[i] \in DOMAIN A /\ A[x.todo[i]].role = RoleOf(x)
    /\ fresh => \A i \in DOMAIN x.matches : Settled(A, x.matches[i], RoleOf(x))
    /\ alone /\ ~x.full =>
         \A a : Bearer(A, a, RoleOf(x)) =>
           \/ \E i \in DOMAIN x.todo : x.todo[i] = a
           \/ \E i \in DOMAIN x.matches : x.matches[i][1] = a

(* What was asked for is missing. *)
AskedOk(x, q, A, alone) ==
  q # NoRequest =>
    /\ q \in Requests /\ q.body # Nothing
    /\ x = Failed \/ (x.pc = "creating" /\ q.role = RoleOf(x))
    /\ alone => \A a : ~Bearer(A, a, q.role)

DoneOk(x, A, fresh) ==
  fresh => \A i \in DOMAIN x.done : Settled(A, x.done[i], Roles[i])

LinkedOk(x, R) ==
  x.pc \in {"checking", "done"} =>
    <<x.done[3][1], x.done[1][1]>> \in R /\ <<x.done[3][1], x.done[2][1]>> \in R

RunOk(x, q, A, R, fresh, alone) ==
  \/ x = Idle /\ q = NoRequest
  \/ x = Failed /\ AskedOk(x, q, A, alone)
  \/ /\ x \in States /\ Lens(x)
     /\ ReadingOk(x, A, fresh, alone)
     /\ AskedOk(x, q, A, alone)
     /\ DoneOk(x, A, fresh)
     /\ LinkedOk(x, R)

Active(x, q) == x.pc \notin {"none", "done", "failed"} \/ q # NoRequest

OneActive ==
  ~overlapped => \A r, s \in Runs : Active(run[r], asked[r]) /\ Active(run[s], asked[s]) => r = s
OneBearer ==
  ~overlapped => \A role \in RoleNames : \A a, b : Bearer(assets, a, role) /\ Bearer(assets, b, role)
                                                    => a = b

BundleInv ==
  /\ AssetTypes
  /\ \A r \in Runs : RunOk(run[r], asked[r], assets, references, edits = 0, ~overlapped)
  /\ OneActive /\ OneBearer

LEMMA InitBundleInv == Init => BundleInv
<1> SUFFICES ASSUME Init PROVE BundleInv
  OBVIOUS
<1>1. /\ assets = <<>> /\ references = {} /\ edits = 0 /\ overlapped = FALSE
      /\ run = [r \in Runs |-> Idle] /\ asked = [r \in Runs |-> NoRequest]
  BY DEF Init, BundleInit
<1>2. AssetTypes
  <2>1. assets \in Seq(Asset) /\ DOMAIN assets = {}
    BY <1>1
  <2> QED BY <1>1, <2>1 DEF AssetTypes
<1>3. \A r \in Runs : RunOk(run[r], asked[r], assets, references, edits = 0, ~overlapped)
  BY <1>1 DEF RunOk
<1>4. OneActive
  BY <1>1 DEF OneActive, Active, Idle
<1>5. OneBearer
  BY <1>1 DEF OneBearer, Bearer
<1> QED BY <1>2, <1>3, <1>4, <1>5 DEF BundleInv

(* One run moves, and nothing is written. *)
LEMMA RunMoves ==
  ASSUME BundleInv, NEW r \in Runs, NEW x, NEW q,
         run' = [run EXCEPT ![r] = x], asked' = [asked EXCEPT ![r] = q],
         UNCHANGED <<assets, edits, overlapped>>, references \subseteq references',
         RunOk(x, q, assets, references', edits = 0, ~overlapped),
         Active(x, q) => Active(run[r], asked[r])
  PROVE  BundleInv'
<1>1. AssetTypes'
  BY DEF BundleInv, AssetTypes, Written
<1>2. run'[r] = x /\ asked'[r] = q
  BY DEF BundleInv, AssetTypes
<1>3. \A s \in Runs \ {r} : run'[s] = run[s] /\ asked'[s] = asked[s]
  BY DEF BundleInv, AssetTypes
<1>4. \A s \in Runs : RunOk(run'[s], asked'[s], assets, references', edits = 0, ~overlapped)
  <2> TAKE s \in Runs
  <2>1. CASE s = r
    BY <1>2, <2>1
  <2>2. CASE s # r
    <3>1. RunOk(run[s], asked[s], assets, references, edits = 0, ~overlapped)
      BY DEF BundleInv
    <3>2. RunOk(run[s], asked[s], assets, references', edits = 0, ~overlapped)
      BY <3>1 DEF RunOk, LinkedOk
    <3> QED BY <1>3, <2>2, <3>2
  <2> QED BY <2>1, <2>2
<1>5. OneActive'
  BY <1>2, <1>3 DEF BundleInv, OneActive
<1>6. OneBearer'
  BY DEF BundleInv, OneBearer
<1>7. \A s \in Runs : RunOk(run[s], asked[s], assets, references, edits = 0, ~overlapped)'
  BY <1>4
<1> QED BY <1>1, <1>5, <1>6, <1>7 DEF BundleInv

(* What a listing holds. *)
LEMMA ListingHolds ==
  ASSUME AssetTypes, NEW role
  PROVE  /\ NamedLately(role) \in Seq(Nat)
         /\ \A i \in DOMAIN NamedLately(role) :
              NamedLately(role)[i] \in DOMAIN assets /\ assets[NamedLately(role)[i]].role = role
         /\ Len(NamedLately(role)) < MaxCandidates =>
              \A a \in DOMAIN assets : assets[a].role = role /\ assets[a].typed =>
                \E i \in DOMAIN NamedLately(role) : NamedLately(role)[i] = a
<1> DEFINE named == {a \in DOMAIN assets : assets[a].role = role /\ assets[a].typed}
           at == [a \in named |-> assets[a].at]
           N == Cardinality(named)
           M == IF N < MaxCandidates THEN N ELSE MaxCandidates
           place(a) == Cardinality({b \in named : assets[b].at >= assets[a].at})
           who(n) == CHOOSE a \in named : place(a) = n
           found == [n \in 1..M |-> who(n)]
<1>1. IsFiniteSet(named) /\ named \subseteq Nat
  <2>1. DOMAIN assets = 1..Len(assets) /\ Len(assets) \in Nat
    BY DEF AssetTypes
  <2>2. IsFiniteSet(1..Len(assets))
    BY <2>1, FS_Interval
  <2> QED BY <2>1, <2>2, FS_Subset
<1>2. N \in Nat
  BY <1>1, FS_CardinalityType
<1>3. M \in Nat /\ 1..M \subseteq 1..N /\ (M < MaxCandidates => M = N)
  BY <1>2, BundleAssumption
<1>4. at \in [named -> Int] /\ \A a, b \in named : at[a] = at[b] => a = b
  <2>1. \A a \in DOMAIN assets : assets[a].at \in Int
    <3>1. \A a \in DOMAIN assets : assets[a] \in Asset
      BY DEF AssetTypes
    <3> QED BY <3>1 DEF Asset
  <2>2. \A a \in named : a \in DOMAIN assets /\ at[a] = assets[a].at
    OBVIOUS
  <2> QED BY <2>1, <2>2 DEF AssetTypes
<1>5. \A a \in named : Place(named, at, a) = place(a)
  <2> TAKE a \in named
  <2>1. {b \in named : at[b] >= at[a]} = {b \in named : assets[b].at >= assets[a].at}
    OBVIOUS
  <2> QED BY <2>1 DEF Place
<1>6. NamedLately(role) = found
  BY DEF NamedLately
<1> HIDE DEF at, named, N, M, place
<1>7. /\ \A a \in named : place(a) \in 1..N
      /\ \A a, b \in named : place(a) = place(b) => a = b
      /\ \A n \in 1..N : \E a \in named : place(a) = n
  <2>1. /\ \A a \in named : Place(named, at, a) \in 1..Cardinality(named)
        /\ \A a, b \in named : Place(named, at, a) = Place(named, at, b) => a = b
        /\ \A n \in 1..Cardinality(named) : \E a \in named : Place(named, at, a) = n
    <3>1. IsFiniteSet(named)
      BY <1>1
    <3>2. at \in [named -> Int]
      BY <1>4
    <3>3. \A a, b \in named : at[a] = at[b] => a = b
      BY <1>4
    <3> HIDE DEF who, found
    <3>4. \A a \in named : Place(named, at, a) \in 1..Cardinality(named)
      BY <3>1, <3>2, <3>3, Places
    <3>5. \A a, b \in named : Place(named, at, a) = Place(named, at, b) => a = b
      BY <3>1, <3>2, <3>3, Places
    <3>6. \A n \in 1..Cardinality(named) : \E a \in named : Place(named, at, a) = n
      BY <3>1, <3>2, <3>3, Places
    <3> QED BY <3>4, <3>5, <3>6
  <2> QED BY <2>1, <1>5 DEF N
<1>8. \A n \in 1..M : who(n) \in named /\ place(who(n)) = n
  BY <1>3, <1>7
<1>9. found \in [1..M -> Nat] /\ Len(found) = M /\ DOMAIN found = 1..M /\ found \in Seq(Nat)
  <2>1. \A n \in 1..M : who(n) \in Nat
    BY <1>1, <1>8
  <2> HIDE DEF who
  <2>2. found \in [1..M -> Nat]
    BY <2>1
  <2>3. DOMAIN found = 1..M
    OBVIOUS
  <2> HIDE DEF found
  <2> QED BY <2>2, <2>3, <1>3
<1>10. ASSUME M < MaxCandidates, NEW a \in named PROVE \E n \in 1..M : found[n] = a
  <2>1. PICK n \in 1..M : n = place(a)
    BY <1>3, <1>7, <1>10
  <2>2. who(n) = a
    BY <1>7, <1>8, <2>1
  <2> QED BY <2>2
<1>11. \A n \in DOMAIN found : found[n] \in named
  BY <1>8, <1>9
<1> HIDE DEF found
<1> QED BY <1>6, <1>9, <1>10, <1>11 DEF named

(* A run that is under way. *)
LEMMA StateParts ==
  ASSUME NEW x \in States
  PROVE  /\ x.css \in Nat /\ x.done \in Seq(Pairs) /\ x.todo \in Seq(Nat)
         /\ x.matches \in Seq(Pairs) /\ x.full \in BOOLEAN
         /\ Len(x.done) \in Nat /\ DOMAIN x.done = 1..Len(x.done)
         /\ x = [pc |-> x.pc, css |-> x.css, done |-> x.done, todo |-> x.todo,
                 matches |-> x.matches, full |-> x.full]
<1>1. /\ x.css \in Nat /\ x.done \in Seq(Pairs) /\ x.todo \in Seq(Nat)
      /\ x.matches \in Seq(Pairs) /\ x.full \in BOOLEAN
  BY DEF States
<1>2. x = [pc |-> x.pc, css |-> x.css, done |-> x.done, todo |-> x.todo,
           matches |-> x.matches, full |-> x.full]
  BY DEF States
<1>3. Len(x.done) \in Nat /\ DOMAIN x.done = 1..Len(x.done)
  BY <1>1, LenProperties
<1> QED BY <1>1, <1>2, <1>3

LEMMA Reads ==
  ASSUME NEW x \in States, NEW t \in Seq(Nat), NEW y, y = [x EXCEPT !.todo = t]
  PROVE  /\ y \in States /\ y.pc = x.pc /\ y.css = x.css /\ y.done = x.done
         /\ y.todo = t /\ y.matches = x.matches /\ y.full = x.full
BY DEF States

LEMMA Takes ==
  ASSUME NEW x \in States, NEW m \in Seq(Pairs), NEW y, y = [x EXCEPT !.matches = m]
  PROVE  /\ y \in States /\ y.pc = x.pc /\ y.css = x.css /\ y.done = x.done
         /\ y.todo = x.todo /\ y.matches = m /\ y.full = x.full
BY DEF States

LEMMA Goes ==
  ASSUME NEW x \in States,
         NEW p \in {"listing", "reading", "creating", "linking", "checking", "done"},
         NEW y, y = [x EXCEPT !.pc = p]
  PROVE  /\ y \in States /\ y.pc = p /\ y.css = x.css /\ y.done = x.done
BY DEF States

LEMMA Settles ==
  ASSUME NEW x \in States,
         NEW p \in {"listing", "reading", "creating", "linking", "checking", "done"},
         NEW d \in Seq(Pairs), NEW y, y = [x EXCEPT !.done = d, !.pc = p]
  PROVE  /\ y \in States /\ y.pc = p /\ y.css = x.css /\ y.done = d
BY DEF States

(* Roles and what they hold. *)
LEMMA RoleNamed ==
  ASSUME NEW x \in States, Len(x.done) <= 2
  PROVE  /\ RoleOf(x) \in RoleNames
         /\ BodyOf(x) \in Contents /\ BodyOf(x) # Nothing
<1>1. x.done \in Seq(Pairs) /\ x.css \in Nat /\ Len(x.done) \in 0..2
  <2>1. x.done \in Seq(Pairs) /\ x.css \in Nat
    BY StateParts
  <2> DEFINE n == Len(x.done)
  <2>2. n \in Nat /\ n <= 2
    BY StateParts
  <2> HIDE DEF n
  <2>3. n \in 0..2
    BY <2>2
  <2> QED BY <2>1, <2>3 DEF n
<1>2. RoleOf(x) = IF Len(x.done) = 0 THEN "css" ELSE IF Len(x.done) = 1 THEN "js" ELSE "html"
  <2>1. Roles[1] = "css" /\ Roles[2] = "js" /\ Roles[3] = "html"
    BY DEF Roles
  <2> DEFINE n == Len(x.done)
  <2>2. n = 0 \/ n = 1 \/ n = 2
    BY <1>1
  <2> HIDE DEF n
  <2>3. Roles[n + 1] = IF n = 0 THEN "css" ELSE IF n = 1 THEN "js" ELSE "html"
    BY <2>1, <2>2
  <2> QED BY <2>3 DEF n, RoleOf
<1>3. <<x.css>> \in Seq(Nat) /\ <<0>> \in Seq(Nat) /\ <<x.css>> # <<>> /\ <<0>> # <<>>
  BY <1>1
<1>4. RoleOf(x) = "html" => x.done # <<>>
  BY <1>1, <1>2
<1> QED BY <1>1, <1>2, <1>3, <1>4 DEF RoleNames, BodyOf, Contents, Nothing

LEMMA Distinguished ==
  ASSUME NEW role \in RoleNames, NEW body
  PROVE  [role |-> role, body |-> body] # NoRequest
<1>1. [role |-> role, body |-> body].role # "none" /\ NoRequest.role = "none"
  BY DEF RoleNames, NoRequest
<1> QED BY <1>1

LEMMA RunIs ==
  ASSUME BundleInv, NEW r \in Runs, run[r].pc \notin {"none", "failed"}
  PROVE  /\ run[r] \in States /\ Lens(run[r])
         /\ ReadingOk(run[r], assets, edits = 0, ~overlapped)
         /\ AskedOk(run[r], asked[r], assets, ~overlapped)
         /\ DoneOk(run[r], assets, edits = 0) /\ LinkedOk(run[r], references)
<1>1. RunOk(run[r], asked[r], assets, references, edits = 0, ~overlapped)
  BY DEF BundleInv
<1>2. Idle.pc = "none" /\ Failed.pc = "failed"
  BY DEF Idle, Failed
<1> QED BY <1>1, <1>2 DEF RunOk

(* A step of one run that creates nothing. *)
LEMMA RunGoes ==
  ASSUME BundleInv, NEW r \in Runs, NEW y, run' = [run EXCEPT ![r] = y],
         UNCHANGED <<assets, references, asked, edits, overlapped>>,
         RunOk(y, asked[r], assets, references, edits = 0, ~overlapped),
         Active(y, asked[r]) => Active(run[r], asked[r])
  PROVE  BundleInv'
<1>1. asked' = [asked EXCEPT ![r] = asked[r]]
  BY Zenon DEF BundleInv, AssetTypes
<1> QED BY <1>1, RunMoves

LEMMA ListStep ==
  ASSUME BundleInv, NEW r \in Runs, List(r)
  PROVE  BundleInv'
<1> DEFINE fresh == edits = 0
           alone == ~overlapped
           x == run[r]
           q == asked[r]
<1>t. AssetTypes
  BY DEF BundleInv
<1> DEFINE found == NamedLately(RoleOf(x))
           y == [x EXCEPT !.pc = "reading", !.todo = found, !.matches = <<>>,
                          !.full = Len(found) >= MaxCandidates]
<1>1. /\ x.pc = "listing" /\ run' = [run EXCEPT ![r] = y]
      /\ UNCHANGED <<assets, references, asked, edits, overlapped>>
  BY DEF List, Role, RoleOf
<1>2. x \in States /\ Len(x.done) <= 2 /\ q = NoRequest /\ DoneOk(x, assets, fresh)
  BY <1>1, RunIs DEF Lens, AskedOk, Failed
<1>3. /\ found \in Seq(Nat)
      /\ \A i \in DOMAIN found : found[i] \in DOMAIN assets /\ assets[found[i]].role = RoleOf(x)
      /\ Len(found) < MaxCandidates =>
            \A a \in DOMAIN assets : assets[a].role = RoleOf(x) /\ assets[a].typed =>
              \E i \in DOMAIN found : found[i] = a
  BY <1>t, ListingHolds
<1>k. \A a : Bearer(assets, a, RoleOf(x)) => assets[a].typed
  BY <1>t DEF AssetTypes, Bearer
<1> HIDE DEF found
<1>4. /\ y \in States /\ y.pc = "reading" /\ y.done = x.done /\ y.todo = found
      /\ y.matches = <<>> /\ y.full = (Len(found) >= MaxCandidates)
  <2> DEFINE m == <<>>
  <2>1. PICK f \in BOOLEAN : f = (Len(found) >= MaxCandidates)
    <3>1. (Len(found) >= MaxCandidates) \in BOOLEAN
      OBVIOUS
    <3> QED BY <3>1, Zenon
  <2>2. m \in Seq(Pairs) /\ y = [x EXCEPT !.pc = "reading", !.todo = found, !.matches = m, !.full = f]
    BY <2>1
  <2> HIDE DEF x, y, m
  <2>s. x \in States /\ found \in Seq(Nat)
    BY <1>2, <1>3
  <2>3. /\ y \in States /\ y.pc = "reading" /\ y.done = x.done /\ y.todo = found
        /\ y.matches = m /\ y.full = f
    BY <2>s, <2>2 DEF States
  <2> QED BY <2>1, <2>3 DEF m
<1> HIDE DEF y
<1>5. RoleOf(y) = RoleOf(x)
  BY <1>4 DEF RoleOf
<1>6. ReadingOk(y, assets, fresh, alone)
  <2>1. ~y.full => Len(found) < MaxCandidates
    <3>1. Len(found) \in Nat
      BY <1>3, LenProperties
    <3>2. ~y.full => ~(Len(found) >= MaxCandidates)
      BY <1>4
    <3> QED BY <3>1, <3>2, BundleAssumption
  <2> QED BY <1>3, <1>4, <1>5, <1>k, <2>1 DEF ReadingOk, Bearer
<1>7. RunOk(y, q, assets, references, fresh, alone)
  BY <1>2, <1>4, <1>6 DEF RunOk, Lens, AskedOk, DoneOk, LinkedOk
<1> QED BY RunGoes, <1>1, <1>7 DEF Active

LEMMA ReadStep ==
  ASSUME BundleInv, NEW r \in Runs, Read(r)
  PROVE  BundleInv'
<1> DEFINE fresh == edits = 0
           alone == ~overlapped
           x == run[r]
           q == asked[r]
<1>t. AssetTypes
  BY DEF BundleInv
<1> DEFINE a == Head(x.todo)
           v == assets[a]
           seen == [x EXCEPT !.todo = Tail(@)]
           taken == [seen EXCEPT !.matches = Append(@, <<a, v.version>>)]
           lost == Failed
           y == IF v.context = Nothing THEN seen
                ELSE IF v.context = Body(r) /\ v.body = Body(r) THEN taken ELSE lost
<1>1. /\ x.pc = "reading" /\ x.todo # <<>> /\ run' = [run EXCEPT ![r] = y]
      /\ UNCHANGED <<assets, references, asked, edits, overlapped>>
  <2>1. x.pc = "reading" /\ x.todo # <<>>
    BY DEF Read
  <2>2. UNCHANGED <<assets, references, asked, edits, overlapped>>
    BY DEF Read
  <2>3. run' = [run EXCEPT ![r] = y]
    BY Zenon DEF Read
  <2> QED BY <2>1, <2>2, <2>3
<1>2. /\ x \in States /\ Lens(x) /\ q = NoRequest /\ DoneOk(x, assets, fresh)
      /\ ReadingOk(x, assets, fresh, alone)
  BY <1>1, RunIs DEF AskedOk, Failed
<1>3. /\ x.todo \in Seq(Nat) /\ a \in Nat /\ a = x.todo[1] /\ Tail(x.todo) \in Seq(Nat)
      /\ a \in DOMAIN assets /\ v.role = RoleOf(x)
      /\ \A i \in DOMAIN Tail(x.todo) : Tail(x.todo)[i] = x.todo[i + 1] /\ i + 1 \in DOMAIN x.todo
      /\ \A i \in DOMAIN x.todo : x.todo[i] = a \/ \E j \in DOMAIN Tail(x.todo) : Tail(x.todo)[j] = x.todo[i]
  <2>1. x.todo \in Seq(Nat)
    BY <1>2 DEF States
  <2>2. a \in Nat /\ a = x.todo[1] /\ Tail(x.todo) \in Seq(Nat) /\ 1 \in DOMAIN x.todo
    BY <1>1, <2>1
  <2>3. \A i \in DOMAIN Tail(x.todo) : Tail(x.todo)[i] = x.todo[i + 1] /\ i + 1 \in DOMAIN x.todo
    BY <1>1, <2>1
  <2>4. ASSUME NEW i \in DOMAIN x.todo, i # 1
        PROVE \E j \in DOMAIN Tail(x.todo) : Tail(x.todo)[j] = x.todo[i]
    <3>1. i - 1 \in DOMAIN Tail(x.todo) /\ Tail(x.todo)[i - 1] = x.todo[i]
      <4>1. i \in 1..Len(x.todo) /\ Len(x.todo) \in Nat
        BY <2>1, LenProperties
      <4>2. /\ DOMAIN Tail(x.todo) = 1..Len(Tail(x.todo)) /\ Len(Tail(x.todo)) = Len(x.todo) - 1
            /\ \A j \in 1..Len(Tail(x.todo)) : Tail(x.todo)[j] = x.todo[j + 1]
        BY <1>1, <2>1, HeadTailProperties, LenProperties
      <4>3. i - 1 \in 1..(Len(x.todo) - 1) /\ (i - 1) + 1 = i
        BY <2>4, <4>1
      <4> QED BY <4>2, <4>3
    <3> QED BY <3>1
  <2>5. a \in DOMAIN assets /\ v.role = RoleOf(x)
    BY <1>1, <1>2, <2>2 DEF ReadingOk
  <2> QED BY <2>1, <2>2, <2>3, <2>4, <2>5
<1>4. assets[a] \in Asset
  BY <1>t, <1>3 DEF AssetTypes
<1>5. v.version \in Nat /\ (fresh => v.version = 1 /\ ~v.remade)
  BY <1>t, <1>3, <1>4 DEF AssetTypes, Asset, fresh
<1> HIDE DEF a, v
<1>6. CASE v.context = Nothing
  <2>1. y = seen
    BY <1>6
  <2>2. /\ seen \in States /\ seen.pc = "reading" /\ seen.done = x.done
        /\ seen.todo = Tail(x.todo) /\ seen.matches = x.matches /\ seen.full = x.full
    BY <1>1, <1>2, <1>3 DEF States
  <2> HIDE DEF seen, y
  <2>3. RoleOf(seen) = RoleOf(x)
    BY <2>2 DEF RoleOf
  <2>4. ReadingOk(seen, assets, fresh, alone)
    <3>1. \A i \in DOMAIN seen.todo :
            seen.todo[i] \in DOMAIN assets /\ assets[seen.todo[i]].role = RoleOf(seen)
      BY <1>1, <1>2, <1>3, <2>2, <2>3 DEF ReadingOk
    <3>2. fresh => \A i \in DOMAIN seen.matches : Settled(assets, seen.matches[i], RoleOf(seen))
      BY <1>1, <1>2, <2>2, <2>3 DEF ReadingOk
    <3>3. ASSUME alone, ~seen.full, NEW b, Bearer(assets, b, RoleOf(x))
          PROVE  \/ \E i \in DOMAIN seen.todo : seen.todo[i] = b
                 \/ \E i \in DOMAIN seen.matches : seen.matches[i][1] = b
      <4>1. b # a
        BY <3>3, <1>6 DEF Bearer, v
      <4>2. \/ \E i \in DOMAIN x.todo : x.todo[i] = b
            \/ \E i \in DOMAIN x.matches : x.matches[i][1] = b
        BY <3>3, <1>1, <1>2, <2>2 DEF ReadingOk
      <4> QED BY <4>1, <4>2, <1>3, <2>2
    <3> QED BY <3>1, <3>2, <3>3, <2>3 DEF ReadingOk
  <2>5. RunOk(seen, q, assets, references, fresh, alone)
    BY <1>1, <1>2, <2>2, <2>4 DEF RunOk, Lens, AskedOk, DoneOk, LinkedOk
  <2> QED BY RunGoes, <1>1, <2>1, <2>5 DEF Active
<1>7. CASE v.context # Nothing /\ v.context = Body(r) /\ v.body = Body(r)
  <2>1. y = taken
    BY <1>7
  <2>d. x.matches \in Seq(Pairs) /\ <<a, v.version>> \in Pairs
    BY <1>2, <1>3, <1>5 DEF States, Pairs
  <2>2. /\ taken \in States /\ taken.pc = "reading" /\ taken.done = x.done
        /\ taken.todo = Tail(x.todo) /\ taken.full = x.full
        /\ taken.matches = Append(x.matches, <<a, v.version>>)
    <3> DEFINE more == Append(x.matches, <<a, v.version>>)
               rest == Tail(x.todo)
    <3>1. more \in Seq(Pairs) /\ rest \in Seq(Nat)
      BY <2>d, <1>3, AppendProperties
    <3>2. /\ seen \in States /\ seen.pc = x.pc /\ seen.done = x.done
          /\ seen.todo = rest /\ seen.full = x.full /\ seen.matches = x.matches
      <4>1. seen = [x EXCEPT !.todo = rest]
        OBVIOUS
      <4> HIDE DEF seen, rest
      <4> QED BY <1>2, <3>1, <4>1, Reads
    <3> HIDE DEF seen
    <3>3. taken = [seen EXCEPT !.matches = more]
      BY <3>2
    <3> HIDE DEF more, rest, taken
    <3>4. /\ taken \in States /\ taken.pc = seen.pc /\ taken.done = seen.done
          /\ taken.todo = seen.todo /\ taken.full = seen.full /\ taken.matches = more
      BY <3>1, <3>2, <3>3, Takes
    <3> QED BY <1>1, <3>2, <3>4 DEF more, rest
  <2> HIDE DEF taken, y
  <2>3. RoleOf(taken) = RoleOf(x)
    BY <2>2 DEF RoleOf
  <2> DEFINE m == taken.matches
             n == Len(x.matches) + 1
  <2>n. /\ DOMAIN m = DOMAIN x.matches \cup {n} /\ m[n] = <<a, v.version>>
        /\ \A i \in DOMAIN x.matches : m[i] = x.matches[i]
    <3>1. /\ m \in Seq(Pairs) /\ Len(m) = n /\ m[n] = <<a, v.version>>
          /\ \A i \in 1..Len(x.matches) : m[i] = x.matches[i]
      BY <2>2, <2>d, AppendProperties
    <3>2. DOMAIN m = 1..Len(m) /\ DOMAIN x.matches = 1..Len(x.matches) /\ Len(x.matches) \in Nat
      BY <3>1, <2>d, LenProperties
    <3> HIDE DEF m
    <3> QED BY <3>1, <3>2
  <2> HIDE DEF m, n
  <2>o. m[n][1] = a /\ m[n][2] = v.version
    BY <2>n
  <2>4. ReadingOk(taken, assets, fresh, alone)
    <3>1. \A i \in DOMAIN taken.todo :
            taken.todo[i] \in DOMAIN assets /\ assets[taken.todo[i]].role = RoleOf(taken)
      BY <1>1, <1>2, <1>3, <2>2, <2>3 DEF ReadingOk
    <3>2. fresh => \A i \in DOMAIN m : Settled(assets, m[i], RoleOf(x))
      <4>1. fresh => Settled(assets, m[n], RoleOf(x))
        BY <1>3, <1>5, <1>7, <2>o DEF Settled, Bearer, v
      <4>2. fresh => \A i \in DOMAIN x.matches : Settled(assets, x.matches[i], RoleOf(x))
        BY <1>1, <1>2 DEF ReadingOk
      <4> QED BY <4>1, <4>2, <2>n
    <3>3. ASSUME alone, ~taken.full, NEW b, Bearer(assets, b, RoleOf(x))
          PROVE  \/ \E i \in DOMAIN taken.todo : taken.todo[i] = b
                 \/ \E i \in DOMAIN m : m[i][1] = b
      <4>2. \/ \E i \in DOMAIN x.todo : x.todo[i] = b
            \/ \E i \in DOMAIN x.matches : x.matches[i][1] = b
        BY <3>3, <1>1, <1>2, <2>2 DEF ReadingOk
      <4>3. b = a => \E i \in DOMAIN m : m[i][1] = b
        BY <2>n, <2>o
      <4>4. (\E i \in DOMAIN x.matches : x.matches[i][1] = b) => \E i \in DOMAIN m : m[i][1] = b
        BY <2>n
      <4> QED BY <4>2, <4>3, <4>4, <1>3, <2>2
    <3> QED BY <3>1, <3>2, <3>3, <2>3 DEF ReadingOk, m
  <2>5. RunOk(taken, q, assets, references, fresh, alone)
    BY <1>1, <1>2, <2>2, <2>4 DEF RunOk, Lens, AskedOk, DoneOk, LinkedOk
  <2> QED BY RunGoes, <1>1, <2>1, <2>5 DEF Active
<1>8. CASE v.context # Nothing /\ ~(v.context = Body(r) /\ v.body = Body(r))
  <2>1. y = lost
    BY <1>8
  <2>2. lost = Failed /\ lost.pc = "failed"
    BY DEF Failed
  <2> HIDE DEF lost, y
  <2>5. RunOk(lost, q, assets, references, fresh, alone)
    BY <1>2, <2>2 DEF RunOk, AskedOk
  <2> QED BY RunGoes, <1>1, <1>2, <2>1, <2>2, <2>5 DEF Active
<1> QED BY <1>6, <1>7, <1>8

(* A run that stops is as good as it was; what it asked for goes on. *)
LEMMA StoppedOk ==
  ASSUME NEW x, NEW q, NEW p, NEW A, NEW R, NEW fresh, NEW alone,
         AskedOk(x, q, A, alone), p = q \/ p = NoRequest
  PROVE  Failed.pc = "failed" /\ RunOk(Failed, p, A, R, fresh, alone)
<1>1. AskedOk(Failed, p, A, alone)
  BY DEF AskedOk
<1> QED BY <1>1 DEF RunOk, Failed

LEMMA StopStep ==
  ASSUME BundleInv, NEW r \in Runs, Refuse(r) \/ Fail(r)
  PROVE  BundleInv'
<1> DEFINE x == run[r]
<1>1. /\ x.pc \notin {"none", "failed"} /\ run' = [run EXCEPT ![r] = Failed]
      /\ UNCHANGED <<assets, references, asked, edits, overlapped>>
      /\ Active(x, asked[r])
  BY DEF Refuse, AllRead, Fail, Working, Active
<1>2. AskedOk(x, asked[r], assets, ~overlapped)
  BY <1>1, RunIs
<1>3. Failed.pc = "failed" /\ RunOk(Failed, asked[r], assets, references, edits = 0, ~overlapped)
  <2> HIDE DEF x
  <2> QED BY <1>2, StoppedOk
<1> QED BY <1>1, <1>3, RunGoes

LEMMA AskStep ==
  ASSUME BundleInv, NEW r \in Runs, AskCreate(r)
  PROVE  BundleInv'
<1> DEFINE x == run[r]
           y == [x EXCEPT !.pc = "creating"]
           q == [role |-> RoleOf(x), body |-> BodyOf(x)]
<1>1. /\ x.pc = "reading" /\ x.todo = <<>> /\ x.matches = <<>> /\ ~x.full
      /\ run' = [run EXCEPT ![r] = y] /\ asked' = [asked EXCEPT ![r] = q]
      /\ UNCHANGED <<assets, references, edits, overlapped>>
  BY DEF AskCreate, AllRead, MayCreate, Role, RoleOf, Body, BodyOf
<1>2. /\ x \in States /\ Lens(x) /\ ReadingOk(x, assets, edits = 0, ~overlapped)
      /\ DoneOk(x, assets, edits = 0)
  BY <1>1, RunIs
<1>3. y \in States /\ y.pc = "creating" /\ y.css = x.css /\ y.done = x.done
  <2> HIDE DEF x
  <2> QED BY <1>2, Goes
<1> HIDE DEF x, y
<1>4. RoleOf(y) = RoleOf(x) /\ BodyOf(y) = BodyOf(x) /\ q.role = RoleOf(x)
  BY <1>3 DEF RoleOf, BodyOf
<1>5. ~overlapped => \A a : ~Bearer(assets, a, RoleOf(x))
  <2>1. DOMAIN x.todo = {} /\ DOMAIN x.matches = {}
    BY <1>1
  <2> QED BY <1>1, <1>2, <2>1 DEF ReadingOk
<1>r. q \in Requests /\ q.body # Nothing
  <2>1. RoleOf(x) \in RoleNames /\ BodyOf(x) \in Contents /\ BodyOf(x) # Nothing
    BY <1>1, <1>2, RoleNamed DEF Lens
  <2> QED BY <2>1 DEF Requests
<1>6. AskedOk(y, q, assets, ~overlapped)
  BY <1>1, <1>2, <1>3, <1>4, <1>5, <1>r DEF AskedOk, Lens
<1> HIDE DEF q
<1>7. RunOk(y, q, assets, references, edits = 0, ~overlapped)
  BY <1>1, <1>2, <1>3, <1>6 DEF RunOk, Lens, ReadingOk, DoneOk, LinkedOk
<1> QED BY <1>1, <1>7, RunMoves DEF x, Active

LEMMA CreateFailsStep ==
  ASSUME BundleInv, NEW r \in Runs, CreateFails(r)
  PROVE  BundleInv'
<1> DEFINE x == run[r]
           q == asked[r]
<1>1. /\ q # NoRequest /\ asked' = [asked EXCEPT ![r] = NoRequest]
      /\ UNCHANGED <<assets, references, edits, overlapped>>
  BY DEF CreateFails
<1>2. AskedOk(x, q, assets, ~overlapped)
  BY <1>1 DEF BundleInv, RunOk
<1>3. x.pc = "creating" \/ x = Failed
  BY <1>1, <1>2 DEF AskedOk
<1>f. Failed.pc = "failed" /\ RunOk(Failed, NoRequest, assets, references, edits = 0, ~overlapped)
  <2> HIDE DEF x, q
  <2> QED BY <1>2, StoppedOk
<1>4. PICK y : run' = [run EXCEPT ![r] = y] /\ y.pc = "failed"
                /\ RunOk(y, NoRequest, assets, references, edits = 0, ~overlapped)
  <2>2. CASE x.pc = "creating"
    <3>1. run' = [run EXCEPT ![r] = Failed]
      BY <2>2 DEF CreateFails
    <3> QED BY <1>f, <3>1
  <2>3. CASE x.pc # "creating"
    <3>1. run' = run
      BY <2>3 DEF CreateFails
    <3>2. run = [run EXCEPT ![r] = run[r]]
      BY Zenon DEF BundleInv, AssetTypes
    <3>3. run' = [run EXCEPT ![r] = x]
      BY <3>1, <3>2
    <3>4. x = Failed
      BY <1>3, <2>3
    <3> HIDE DEF x
    <3> QED BY <1>f, <3>3, <3>4
  <2> QED BY <2>2, <2>3
<1>5. ~Active(y, NoRequest)
  BY <1>4 DEF Active
<1> QED BY <1>1, <1>4, <1>5, RunMoves

(* A role is settled with an artifact that bears the bundle's context. *)
LEMMA SettledOk ==
  ASSUME NEW x \in States, NEW A, NEW R, NEW fresh, NEW alone, Lens(x),
         x.pc \in {"reading", "creating"}, DoneOk(x, A, fresh),
         NEW m \in Pairs, fresh => Settled(A, m, RoleOf(x)), NEW y, y = Ensured(x, m)
  PROVE  /\ RunOk(y, NoRequest, A, R, fresh, alone)
         /\ y.pc \in {"listing", "linking"}
<1> DEFINE d == Append(x.done, m)
           n == Len(x.done)
           to == IF Len(d) = Len(Roles) THEN "linking" ELSE "listing"
<1>1. x.done \in Seq(Pairs) /\ n \in Nat /\ n <= 2 /\ Len(Roles) = 3
  BY StateParts DEF Lens, Roles
<1>2. d \in Seq(Pairs) /\ Len(d) = n + 1 /\ d[n + 1] = m /\ \A i \in 1..n : d[i] = x.done[i]
  BY <1>1, AppendProperties
<1> DEFINE none == <<>>
<1>3. /\ y = [x EXCEPT !.done = d, !.matches = none, !.full = FALSE, !.pc = to]
      /\ to \in {"listing", "linking"} /\ none \in Seq(Pairs)
  BY DEF Ensured
<1> HIDE DEF d, n
<1>4. to = IF n + 1 = 3 THEN "linking" ELSE "listing"
  BY <1>1, <1>2
<1> HIDE DEF to, none
<1>5. y \in States /\ y.pc = to /\ y.done = d
  BY <1>2, <1>3 DEF States
<1>6. DOMAIN d = 1..(n + 1) /\ DOMAIN x.done = 1..n
  BY <1>1, <1>2, LenProperties DEF n
<1>7. Lens(y)
  BY <1>1, <1>2, <1>4, <1>5 DEF Lens
<1>8. DoneOk(y, A, fresh)
  <2>1. SUFFICES ASSUME fresh, NEW i \in 1..(n + 1) PROVE Settled(A, d[i], Roles[i])
    BY <1>5, <1>6 DEF DoneOk
  <2>2. CASE i = n + 1
    BY <2>1, <2>2, <1>2 DEF RoleOf, n
  <2>3. CASE i # n + 1
    <3>1. i \in 1..n
      BY <1>1, <2>3
    <3> QED BY <2>1, <3>1, <1>2, <1>6 DEF DoneOk
  <2> QED BY <2>2, <2>3
<1> QED BY <1>3, <1>5, <1>7, <1>8 DEF RunOk, ReadingOk, AskedOk, LinkedOk

LEMMA ReuseStep ==
  ASSUME BundleInv, NEW r \in Runs, Reuse(r)
  PROVE  BundleInv'
<1> DEFINE x == run[r]
           m == Head(x.matches)
           y == Ensured(x, m)
<1>1. /\ x.pc = "reading" /\ Len(x.matches) = 1 /\ run' = [run EXCEPT ![r] = y]
      /\ UNCHANGED <<assets, references, asked, edits, overlapped>>
  <2>1. x.pc = "reading" /\ Len(x.matches) = 1 /\ UNCHANGED <<assets, references, asked, edits, overlapped>>
    BY DEF Reuse, AllRead
  <2>2. run' = [run EXCEPT ![r] = y]
    BY Zenon DEF Reuse
  <2> QED BY <2>1, <2>2
<1>2. /\ x \in States /\ Lens(x) /\ ReadingOk(x, assets, edits = 0, ~overlapped)
      /\ DoneOk(x, assets, edits = 0) /\ asked[r] = NoRequest
  BY <1>1, RunIs DEF AskedOk, Failed
<1>3. m \in Pairs /\ (edits = 0 => Settled(assets, m, RoleOf(x)))
  <2>1. x.matches \in Seq(Pairs)
    BY <1>2, StateParts
  <2>2. x.matches # <<>> /\ 1 \in DOMAIN x.matches
    BY <1>1, <2>1, LenProperties
  <2>3. m = x.matches[1] /\ m \in Pairs
    BY <2>1, <2>2, HeadTailProperties
  <2> HIDE DEF m
  <2> QED BY <1>1, <1>2, <2>2, <2>3 DEF ReadingOk
<1>4. RunOk(y, NoRequest, assets, references, edits = 0, ~overlapped)
  <2> HIDE DEF x, m
  <2> QED BY <1>1, <1>2, <1>3, SettledOk
<1> HIDE DEF y
<1> QED BY <1>1, <1>2, <1>4, RunGoes DEF Active

LEMMA LinkStep ==
  ASSUME BundleInv, NEW r \in Runs, LinkAssets(r)
  PROVE  BundleInv'
<1> DEFINE x == run[r]
           q == asked[r]
           e(i) == <<x.done[3][1], x.done[i][1]>>
           y == [x EXCEPT !.pc = "checking"]
<1>1. /\ x.pc = "linking" /\ references' = references \cup {e(LinkNext(r))}
      /\ run' = IF LinkNext(r) = 2 THEN [run EXCEPT ![r] = y] ELSE run
      /\ LinkNext(r) = IF e(1) \in references THEN 2 ELSE 1
      /\ UNCHANGED <<assets, asked, edits, overlapped>>
  BY DEF LinkAssets, LinkNext, Html
<1>2. /\ x \in States /\ Lens(x) /\ DoneOk(x, assets, edits = 0) /\ q = NoRequest
  BY <1>1, RunIs DEF AskedOk, Failed
<1>3. asked' = [asked EXCEPT ![r] = q]
  <2>1. asked = [asked EXCEPT ![r] = asked[r]]
    BY Zenon DEF BundleInv, AssetTypes
  <2> QED BY <1>1, <2>1
<1>4. references \subseteq references'
  BY <1>1
<1>5. CASE LinkNext(r) = 2
  <2>1. e(1) \in references' /\ e(2) \in references'
    BY <1>1, <1>5
  <2>2. run' = [run EXCEPT ![r] = y]
    BY <1>1, <1>5
  <2>3. y \in States /\ y.pc = "checking" /\ y.done = x.done
    <3> HIDE DEF x
    <3> QED BY <1>2, Goes
  <2> HIDE DEF y
  <2>4. RunOk(y, q, assets, references', edits = 0, ~overlapped)
    BY <1>1, <1>2, <2>1, <2>3 DEF RunOk, Lens, ReadingOk, AskedOk, DoneOk, LinkedOk
  <2> QED BY <1>1, <1>3, <1>4, <2>2, <2>4, RunMoves DEF Active
<1>6. CASE LinkNext(r) # 2
  <2>1. run = [run EXCEPT ![r] = run[r]]
    BY Zenon DEF BundleInv, AssetTypes
  <2>2. run' = [run EXCEPT ![r] = x]
    BY <1>1, <1>6, <2>1
  <2>4. RunOk(x, q, assets, references', edits = 0, ~overlapped)
    BY <1>1, <1>2 DEF RunOk, Lens, ReadingOk, AskedOk, DoneOk, LinkedOk
  <2> HIDE DEF e, y
  <2> QED BY <1>1, <1>3, <1>4, <2>2, <2>4, RunMoves
<1> QED BY <1>5, <1>6

LEMMA CheckStep ==
  ASSUME BundleInv, NEW r \in Runs, Check(r)
  PROVE  BundleInv'
<1> DEFINE x == run[r]
           y == [x EXCEPT !.pc = "done"]
<1>1. /\ x.pc = "checking" /\ run' = [run EXCEPT ![r] = y]
      /\ UNCHANGED <<assets, references, asked, edits, overlapped>>
  BY DEF Check
<1>2. /\ x \in States /\ Lens(x) /\ DoneOk(x, assets, edits = 0) /\ asked[r] = NoRequest
      /\ LinkedOk(x, references)
  BY <1>1, RunIs DEF AskedOk, Failed
<1>3. y \in States /\ y.pc = "done" /\ y.done = x.done
  <2> HIDE DEF x
  <2> QED BY <1>2, Goes
<1> HIDE DEF y
<1>4. RunOk(y, asked[r], assets, references, edits = 0, ~overlapped)
  BY <1>1, <1>2, <1>3 DEF RunOk, Lens, ReadingOk, AskedOk, DoneOk, LinkedOk
<1> QED BY <1>1, <1>4, RunGoes DEF Active

LEMMA BeginStep ==
  ASSUME BundleInv, NEW r \in Runs, NEW css \in {1, 2}, BeginRun(r, css)
  PROVE  BundleInv'
<1> DEFINE n == <<>>
           y == [pc |-> "listing", css |-> css, done |-> n, todo |-> n, matches |-> n, full |-> FALSE]
<1>1. /\ run[r] = Idle /\ run' = [run EXCEPT ![r] = y]
      /\ UNCHANGED <<assets, references, asked, edits>>
      /\ overlapped' \in BOOLEAN
      /\ ~overlapped' => ~overlapped /\ \A s \in Runs : ~Active(run[s], asked[s])
  BY DEF BeginRun, Working, Active
<1>2. asked[r] = NoRequest
  <2>1. RunOk(run[r], asked[r], assets, references, edits = 0, ~overlapped)
    BY DEF BundleInv
  <2>2. run[r].pc = "none" /\ Failed.pc = "failed"
    BY <1>1 DEF Idle, Failed
  <2> QED BY <1>1, <2>1, <2>2 DEF RunOk, States
<1>3. n \in Seq(Pairs) /\ n \in Seq(Nat) /\ Len(n) = 0 /\ DOMAIN n = {}
  OBVIOUS
<1> HIDE DEF n
<1>4. /\ y \in States /\ y.pc = "listing" /\ y.done = n
  BY <1>3 DEF States
<1> HIDE DEF y
<1>5. RunOk(y, NoRequest, assets, references, edits = 0, ~overlapped')
  BY <1>3, <1>4 DEF RunOk, Lens, ReadingOk, AskedOk, DoneOk, LinkedOk
<1>6. run'[r] = y /\ \A s \in Runs \ {r} : run'[s] = run[s]
  BY <1>1 DEF BundleInv, AssetTypes
<1>7. ASSUME NEW s \in Runs
      PROVE  RunOk(run'[s], asked'[s], assets', references', edits' = 0, ~overlapped')
  <2>1. CASE s = r
    BY <1>1, <1>2, <1>5, <1>6, <2>1
  <2>2. CASE s # r
    <3>1. RunOk(run[s], asked[s], assets, references, edits = 0, ~overlapped)
      BY DEF BundleInv
    <3>2. RunOk(run[s], asked[s], assets, references, edits = 0, ~overlapped')
      BY <1>1, <3>1 DEF RunOk, ReadingOk, AskedOk
    <3> QED BY <1>1, <1>6, <2>2, <3>2
  <2> QED BY <2>1, <2>2
<1>8. AssetTypes'
  BY <1>1 DEF BundleInv, AssetTypes, Written
<1>9. OneActive'
  <2>1. SUFFICES ASSUME ~overlapped', NEW s \in Runs, Active(run'[s], asked'[s]) PROVE s = r
    BY DEF OneActive
  <2> QED BY <1>1, <1>6, <2>1
<1>10. OneBearer'
  BY <1>1 DEF BundleInv, OneBearer
<1> QED BY <1>7, <1>8, <1>9, <1>10 DEF BundleInv

(* What a write of an artifact leaves true of a run. *)
LEMMA ChangedOk ==
  ASSUME NEW x, NEW q, NEW A, NEW B, NEW R, NEW f, NEW g, NEW alone,
         RunOk(x, q, A, R, f, alone),
         \A a \in DOMAIN A : a \in DOMAIN B /\ B[a].role = A[a].role,
         g => f /\ \A a \in DOMAIN A : B[a] = A[a],
         alone => \/ ~Active(x, q)
                  \/ \A a, role : Bearer(B, a, role) => Bearer(A, a, role)
  PROVE  RunOk(x, q, B, R, g, alone)
<1>1. CASE x = Idle /\ q = NoRequest
  BY <1>1 DEF RunOk
<1>3. CASE x = Failed /\ AskedOk(x, q, A, alone)
  <2>1. AskedOk(x, q, B, alone)
    BY <1>3 DEF AskedOk, Active
  <2> QED BY <1>3, <2>1 DEF RunOk
<1>2. CASE ~(x = Idle /\ q = NoRequest) /\ ~(x = Failed /\ AskedOk(x, q, A, alone))
  <2>1. /\ x \in States /\ Lens(x) /\ ReadingOk(x, A, f, alone)
        /\ AskedOk(x, q, A, alone) /\ DoneOk(x, A, f) /\ LinkedOk(x, R)
    BY <1>2 DEF RunOk
  <2>2. ASSUME g, NEW m, NEW role, Settled(A, m, role) PROVE Settled(B, m, role)
    BY <2>2 DEF Settled, Bearer
  <2>3. ReadingOk(x, B, g, alone)
    <3>1. SUFFICES ASSUME x.pc = "reading"
                   PROVE  /\ \A i \in DOMAIN x.todo : x.todo[i] \in DOMAIN B /\ B[x.todo[i]].role = RoleOf(x)
                          /\ g => \A i \in DOMAIN x.matches : Settled(B, x.matches[i], RoleOf(x))
                          /\ alone /\ ~x.full =>
                               \A a : Bearer(B, a, RoleOf(x)) =>
                                 \/ \E i \in DOMAIN x.todo : x.todo[i] = a
                                 \/ \E i \in DOMAIN x.matches : x.matches[i][1] = a
      BY DEF ReadingOk
    <3>2. Active(x, q)
      BY <3>1 DEF Active
    <3>3. \A i \in DOMAIN x.todo : x.todo[i] \in DOMAIN B /\ B[x.todo[i]].role = RoleOf(x)
      BY <2>1, <3>1 DEF ReadingOk
    <3>4. g => \A i \in DOMAIN x.matches : Settled(B, x.matches[i], RoleOf(x))
      BY <2>1, <2>2, <3>1 DEF ReadingOk
    <3>5. alone /\ ~x.full =>
            \A a : Bearer(B, a, RoleOf(x)) =>
              \/ \E i \in DOMAIN x.todo : x.todo[i] = a
              \/ \E i \in DOMAIN x.matches : x.matches[i][1] = a
      BY <2>1, <3>1, <3>2 DEF ReadingOk
    <3> QED BY <3>3, <3>4, <3>5
  <2>4. AskedOk(x, q, B, alone)
    BY <2>1 DEF AskedOk, Active
  <2>5. DoneOk(x, B, g)
    BY <2>1, <2>2 DEF DoneOk
  <2> QED BY <2>1, <2>3, <2>4, <2>5 DEF RunOk
<1> QED BY <1>1, <1>2, <1>3

LEMMA Added ==
  ASSUME NEW A \in Seq(Asset), NEW v \in Asset, NEW B, B = Append(A, v)
  PROVE  /\ B \in Seq(Asset) /\ Len(A) \in Nat /\ Len(B) = Len(A) + 1
         /\ DOMAIN A = 1..Len(A) /\ DOMAIN B = DOMAIN A \cup {Len(A) + 1}
         /\ Len(A) + 1 \notin DOMAIN A
         /\ B[Len(A) + 1] = v /\ \A a \in DOMAIN A : B[a] = A[a]
<1> DEFINE n == Len(A)
<1>1. B \in Seq(Asset) /\ Len(B) = n + 1 /\ B[n + 1] = v /\ \A a \in 1..n : B[a] = A[a]
  BY AppendProperties
<1>2. n \in Nat /\ DOMAIN A = 1..n /\ DOMAIN B = 1..(n + 1)
  BY <1>1, LenProperties
<1> HIDE DEF n
<1>3. 1..(n + 1) = 1..n \cup {n + 1} /\ n + 1 \notin 1..n
  BY <1>2
<1> QED BY <1>1, <1>2, <1>3 DEF n

(* An artifact is created. *)
LEMMA PutHolds ==
  ASSUME AssetTypes, NEW role \in RoleNames, NEW context \in Contents, NEW body \in Contents,
         Put(role, context, body), UNCHANGED edits
  PROVE  /\ assets' \in Seq(Asset) /\ Len(assets) \in Nat
         /\ DOMAIN assets' = DOMAIN assets \cup {Len(assets) + 1}
         /\ Len(assets) + 1 \notin DOMAIN assets
         /\ \A a \in DOMAIN assets : assets'[a] = assets[a]
         /\ assets'[Len(assets) + 1].role = role
         /\ assets'[Len(assets) + 1].context = context
         /\ assets'[Len(assets) + 1].version = 1
         /\ \A a \in DOMAIN assets' : assets'[a].at <= Written'
         /\ \A a, b \in DOMAIN assets' : assets'[a].at = assets'[b].at => a = b
         /\ \A a \in DOMAIN assets' : assets'[a].typed \/ assets'[a].remade
         /\ edits' = 0 => \A a \in DOMAIN assets' : assets'[a].version = 1 /\ ~assets'[a].remade
         /\ ~assets'[Len(assets) + 1].remade
<1> DEFINE n == Len(assets)
           w == Written
           v == [role |-> role, typed |-> TRUE, context |-> context, body |-> body, version |-> 1,
                 at |-> w + 1, remade |-> FALSE]
<1>1. assets \in Seq(Asset) /\ edits \in Nat
  BY DEF AssetTypes
<1>2. n \in Nat /\ w \in Nat /\ w = n + edits
  BY <1>1, LenProperties DEF Written
<1>3. assets' = Append(assets, v)
  BY DEF Put
<1> HIDE DEF n, w
<1>4. /\ v \in Asset /\ v.role = role /\ v.context = context /\ v.version = 1 /\ v.at = w + 1
      /\ v.typed /\ ~v.remade
  BY <1>2 DEF Asset
<1> HIDE DEF v
<1>5. /\ assets' \in Seq(Asset) /\ Len(assets') = n + 1
      /\ DOMAIN assets' = DOMAIN assets \cup {n + 1} /\ n + 1 \notin DOMAIN assets
      /\ assets'[n + 1] = v /\ \A a \in DOMAIN assets : assets'[a] = assets[a]
  BY <1>1, <1>3, <1>4, Added DEF n
<1>6. Written' = w + 1
  <2>1. Written' = Len(assets') + edits'
    BY DEF Written
  <2> QED BY <2>1, <1>1, <1>2, <1>5
<1>7. \A a \in DOMAIN assets : assets[a].at \in Nat /\ assets[a].at <= w
  <2>1. \A a \in DOMAIN assets : assets[a] \in Asset
    BY <1>1
  <2> QED BY <2>1 DEF AssetTypes, Asset, w
<1>8. \A a \in DOMAIN assets' : assets'[a].at <= Written'
  BY <1>2, <1>4, <1>5, <1>6, <1>7
<1>9. \A a, b \in DOMAIN assets' : assets'[a].at = assets'[b].at => a = b
  <2>1. TAKE a, b \in DOMAIN assets'
  <2>2. HAVE assets'[a].at = assets'[b].at
  <2>3. CASE a \in DOMAIN assets /\ b \in DOMAIN assets
    BY <2>2, <2>3, <1>5 DEF AssetTypes
  <2>4. CASE a \in DOMAIN assets /\ b = n + 1
    <3>1. assets[a].at = w + 1
      BY <2>2, <2>4, <1>4, <1>5
    <3> QED BY <3>1, <2>4, <1>2, <1>7
  <2>5. CASE b \in DOMAIN assets /\ a = n + 1
    <3>1. assets[b].at = w + 1
      BY <2>2, <2>5, <1>4, <1>5
    <3> QED BY <3>1, <2>5, <1>2, <1>7
  <2>6. CASE a = n + 1 /\ b = n + 1
    BY <2>6
  <2> QED BY <2>1, <2>3, <2>4, <2>5, <2>6, <1>5
<1>10. edits' = 0 => \A a \in DOMAIN assets' : assets'[a].version = 1 /\ ~assets'[a].remade
  BY <1>4, <1>5 DEF AssetTypes
<1>11. \A a \in DOMAIN assets' : assets'[a].typed \/ assets'[a].remade
  BY <1>4, <1>5 DEF AssetTypes
<1> QED BY <1>2, <1>4, <1>5, <1>8, <1>9, <1>10, <1>11 DEF n

LEMMA StrangerStep ==
  ASSUME BundleInv, NEW role \in RoleNames, Stranger(role)
  PROVE  BundleInv'
<1>1. Put(role, Nothing, Nothing) /\ UNCHANGED <<references, run, asked, edits, overlapped>>
  BY DEF Stranger
<1>2. Nothing \in Contents
  BY DEF Nothing, Contents
<1>a. AssetTypes
  BY DEF BundleInv
<1> DEFINE n == Len(assets)
<1>3. /\ assets' \in Seq(Asset)
      /\ DOMAIN assets' = DOMAIN assets \cup {n + 1} /\ n + 1 \notin DOMAIN assets
      /\ \A a \in DOMAIN assets : assets'[a] = assets[a]
      /\ assets'[n + 1].context = Nothing
  BY <1>1, <1>2, <1>a, PutHolds
<1>4. /\ \A a \in DOMAIN assets' : assets'[a].at <= Written'
      /\ \A a, b \in DOMAIN assets' : assets'[a].at = assets'[b].at => a = b
      /\ \A a \in DOMAIN assets' : assets'[a].typed \/ assets'[a].remade
      /\ edits' = 0 => \A a \in DOMAIN assets' : assets'[a].version = 1 /\ ~assets'[a].remade
  BY <1>1, <1>2, <1>a, PutHolds
<1> HIDE DEF n
<1>5. AssetTypes'
  BY <1>1, <1>3, <1>4 DEF BundleInv, AssetTypes
<1>6. \A a, q : Bearer(assets', a, q) => Bearer(assets, a, q)
  BY <1>3 DEF Bearer
<1>7. ASSUME NEW s \in Runs
      PROVE  RunOk(run'[s], asked'[s], assets', references', edits' = 0, ~overlapped')
  <2>1. RunOk(run[s], asked[s], assets, references, edits = 0, ~overlapped)
    BY DEF BundleInv
  <2>2. RunOk(run[s], asked[s], assets', references, edits = 0, ~overlapped)
    BY <2>1, <1>3, <1>6, ChangedOk
  <2> QED BY <1>1, <2>2
<1>8. OneActive'
  BY <1>1 DEF BundleInv, OneActive
<1>9. OneBearer'
  BY <1>1, <1>6 DEF BundleInv, OneBearer
<1> QED BY <1>5, <1>7, <1>8, <1>9 DEF BundleInv

LEMMA EditStep ==
  ASSUME BundleInv, NEW a \in DOMAIN assets,
         NEW context \in Contexts(a) \cup {Nothing}, NEW body \in {context, Nothing},
         NEW typed \in BOOLEAN, Edit(a, context, body, typed)
  PROVE  BundleInv'
<1> DEFINE w == Written
           old == assets[a]
           v == [old EXCEPT !.context = context, !.body = body, !.typed = typed, !.version = @ + 1,
                            !.at = w + 1,
                            !.remade = @ \/ context # old.context \/ typed # old.typed]
<1>1. /\ assets' = [assets EXCEPT ![a] = v] /\ edits' = edits + 1
      /\ UNCHANGED <<references, run, asked, overlapped>>
  BY DEF Edit
<1>2. assets \in Seq(Asset) /\ old \in Asset /\ edits \in Nat
  BY DEF BundleInv, AssetTypes
<1>3. w \in Nat /\ edits' \in Nat \ {0}
  BY <1>1, <1>2, LenProperties DEF Written
<1>c. context \in Contents /\ body \in Contents
  <2>1. Nothing \in Contents
    BY DEF Nothing, Contents
  <2>2. \A b \in DOMAIN assets : assets[b].context \in Contents
    <3>1. \A b \in DOMAIN assets : assets[b] \in Asset
      BY <1>2
    <3> QED BY <3>1 DEF Asset
  <2> QED BY <2>1, <2>2 DEF Contexts
<1> HIDE DEF w
<1>f. PICK made \in BOOLEAN : made = (old.remade \/ context # old.context \/ typed # old.typed)
  <2>1. (old.remade \/ context # old.context \/ typed # old.typed) \in BOOLEAN
    OBVIOUS
  <2> QED BY <2>1, Zenon
<1>4. /\ v \in Asset /\ v.role = old.role /\ v.context = context /\ v.at = w + 1
      /\ v.typed = typed /\ v.remade = made
  <2> DEFINE u == old.version + 1
             t == w + 1
  <2>1. v = [old EXCEPT !.context = context, !.body = body, !.typed = typed, !.version = u,
                        !.at = t, !.remade = made]
    BY <1>f
  <2> HIDE DEF old, v
  <2>2. u \in Nat /\ t \in Nat
    BY <1>2, <1>3 DEF Asset
  <2> HIDE DEF u, t
  <2>3. /\ v \in Asset /\ v.role = old.role /\ v.context = context /\ v.at = t
        /\ v.typed = typed /\ v.remade = made
    BY <1>2, <1>c, <2>1, <2>2 DEF Asset
  <2> QED BY <2>3 DEF t
<1> HIDE DEF v
<1>5. /\ assets' \in Seq(Asset) /\ Len(assets') = Len(assets)
      /\ DOMAIN assets' = DOMAIN assets /\ assets'[a] = v
      /\ \A b \in DOMAIN assets \ {a} : assets'[b] = assets[b]
  BY <1>1, <1>2, <1>4
<1>6. Written' = w + 1
  <2>1. Written' = Len(assets') + edits'
    BY DEF Written
  <2>2. w = Len(assets) + edits /\ Len(assets) \in Nat
    BY <1>2, LenProperties DEF w, Written
  <2> QED BY <2>1, <2>2, <1>1, <1>2, <1>5
<1>7. \A b \in DOMAIN assets : assets[b].at \in Nat /\ assets[b].at <= w
  <2>1. \A b \in DOMAIN assets : assets[b] \in Asset
    BY <1>2
  <2> QED BY <2>1 DEF BundleInv, AssetTypes, Asset, w
<1>8. \A b \in DOMAIN assets' : assets'[b].at <= Written'
  BY <1>3, <1>4, <1>5, <1>6, <1>7
<1>9. \A b, c \in DOMAIN assets' : assets'[b].at = assets'[c].at => b = c
  <2>1. \A b \in DOMAIN assets \ {a} : assets'[b].at # w + 1
    BY <1>3, <1>5, <1>7
  <2>2. assets'[a].at = w + 1
    BY <1>4, <1>5
  <2>3. \A b, c \in DOMAIN assets \ {a} : assets'[b].at = assets'[c].at => b = c
    BY <1>5 DEF BundleInv, AssetTypes
  <2> QED BY <2>1, <2>2, <2>3, <1>5
<1>t. \A b \in DOMAIN assets' : assets'[b].typed \/ assets'[b].remade
  <2>1. old.typed \/ old.remade
    BY DEF BundleInv, AssetTypes
  <2>2. typed \/ made
    BY <1>f, <2>1
  <2> QED BY <1>4, <1>5, <2>2 DEF BundleInv, AssetTypes
<1>10. AssetTypes'
  BY <1>1, <1>3, <1>5, <1>8, <1>9, <1>t DEF BundleInv, AssetTypes
<1>11. \A b, q : Bearer(assets', b, q) => Bearer(assets, b, q)
  <2>1. ~made => context = old.context /\ ~old.remade
    BY <1>f
  <2> QED BY <1>4, <1>5, <2>1 DEF Bearer
<1>12. \A b \in DOMAIN assets : b \in DOMAIN assets' /\ assets'[b].role = assets[b].role
  BY <1>4, <1>5
<1>13. ASSUME NEW s \in Runs
       PROVE  RunOk(run'[s], asked'[s], assets', references', edits' = 0, ~overlapped')
  <2>1. RunOk(run[s], asked[s], assets, references, edits = 0, ~overlapped)
    BY DEF BundleInv
  <2>2. edits' = 0 => edits = 0 /\ \A b \in DOMAIN assets : assets'[b] = assets[b]
    BY <1>3
  <2>3. ~overlapped => \/ ~Active(run[s], asked[s])
                       \/ \A b, q : Bearer(assets', b, q) => Bearer(assets, b, q)
    BY <1>11
  <2>4. RunOk(run[s], asked[s], assets', references, edits' = 0, ~overlapped)
    <3> DEFINE f == edits = 0
               g == edits' = 0
               alone == ~overlapped
    <3>1. RunOk(run[s], asked[s], assets, references, f, alone)
      BY <2>1
    <3>2. g => f /\ \A b \in DOMAIN assets : assets'[b] = assets[b]
      BY <2>2
    <3>3. alone => \/ ~Active(run[s], asked[s])
                   \/ \A b, q : Bearer(assets', b, q) => Bearer(assets, b, q)
      BY <2>3
    <3> HIDE DEF f, g, alone
    <3>4. RunOk(run[s], asked[s], assets', references, g, alone)
      BY <3>1, <3>2, <3>3, <1>12, ChangedOk
    <3> QED BY <3>4 DEF g, alone
  <2> QED BY <1>1, <2>4
<1>14. OneActive'
  BY <1>1 DEF BundleInv, OneActive
<1>15. OneBearer'
  BY <1>1, <1>11 DEF BundleInv, OneBearer
<1> QED BY <1>10, <1>13, <1>14, <1>15 DEF BundleInv

LEMMA CreateStep ==
  ASSUME BundleInv, NEW r \in Runs, NEW lost \in BOOLEAN, Create(r, lost)
  PROVE  BundleInv'
<1> DEFINE x == run[r]
           q == asked[r]
           n == Len(assets)
           m == <<n + 1, 1>>
           settled == Ensured(x, m)
<1>1. /\ q # NoRequest /\ Put(q.role, q.body, q.body)
      /\ asked' = [asked EXCEPT ![r] = NoRequest]
      /\ UNCHANGED <<references, edits, overlapped>>
  BY DEF Create
<1>2. AskedOk(x, q, assets, ~overlapped)
  BY <1>1 DEF BundleInv, RunOk
<1>3. /\ x = Failed \/ (x.pc = "creating" /\ q.role = RoleOf(x))
      /\ ~overlapped => \A a : ~Bearer(assets, a, q.role)
  BY <1>1, <1>2 DEF AskedOk
<1>4. q.role \in RoleNames /\ q.body \in Contents /\ q.body # Nothing
  BY <1>1, <1>2 DEF AskedOk, Requests
<1>s. x.pc = "creating" =>
        x \in States /\ Lens(x) /\ DoneOk(x, assets, edits = 0) /\ q.role = RoleOf(x)
  BY <1>3, RunIs DEF Failed
<1>a. AssetTypes
  BY DEF BundleInv
<1> HIDE DEF settled
<1>5. /\ assets' \in Seq(Asset) /\ n \in Nat
      /\ DOMAIN assets' = DOMAIN assets \cup {n + 1} /\ n + 1 \notin DOMAIN assets
      /\ \A a \in DOMAIN assets : assets'[a] = assets[a]
      /\ assets'[n + 1].role = q.role /\ assets'[n + 1].context = q.body /\ ~assets'[n + 1].remade
  BY <1>1, <1>4, <1>a, PutHolds
<1>6. /\ \A a \in DOMAIN assets' : assets'[a].at <= Written'
      /\ \A a, b \in DOMAIN assets' : assets'[a].at = assets'[b].at => a = b
      /\ \A a \in DOMAIN assets' : assets'[a].typed \/ assets'[a].remade
      /\ edits' = 0 => \A a \in DOMAIN assets' : assets'[a].version = 1 /\ ~assets'[a].remade
  BY <1>1, <1>4, <1>a, PutHolds
<1> HIDE DEF n
<1>7. m \in Pairs /\ m[1] = n + 1 /\ m[2] = 1
  BY <1>5 DEF Pairs
<1>8. x.pc = "creating" => Settled(assets', m, RoleOf(x))
  BY <1>4, <1>5, <1>7, <1>s DEF Settled, Bearer
<1>9. x.pc = "creating" => DoneOk(x, assets', edits = 0)
  BY <1>5, <1>s DEF DoneOk, Settled, Bearer
<1>10. RunOk(Failed, NoRequest, assets', references, edits = 0, ~overlapped)
  BY DEF RunOk, AskedOk
<1>11. PICK y : run' = [run EXCEPT ![r] = y]
                 /\ RunOk(y, NoRequest, assets', references, edits = 0, ~overlapped)
  <2>1. CASE x.pc # "creating"
    <3>1. run' = run
      BY <2>1 DEF Create
    <3>2. run = [run EXCEPT ![r] = run[r]]
      BY Zenon DEF BundleInv, AssetTypes
    <3>3. run' = [run EXCEPT ![r] = x]
      BY <3>1, <3>2
    <3> HIDE DEF x
    <3>4. x = Failed
      BY <1>3, <2>1
    <3> QED BY <1>10, <3>3, <3>4
  <2>2. CASE x.pc = "creating" /\ lost
    <3>1. run' = [run EXCEPT ![r] = Failed]
      BY <2>2 DEF Create
    <3> QED BY <1>10, <3>1
  <2>3. CASE x.pc = "creating" /\ ~lost
    <3>1. run' = [run EXCEPT ![r] = settled]
      BY <2>3, Zenon DEF Create, settled, n
    <3>2. RunOk(settled, NoRequest, assets', references, edits = 0, ~overlapped)
      <4> HIDE DEF x, m
      <4> QED BY <1>s, <1>7, <1>8, <1>9, <2>3, SettledOk DEF settled
    <3> QED BY <3>1, <3>2
  <2> QED BY <2>1, <2>2, <2>3
<1>12. /\ run'[r] = y /\ asked'[r] = NoRequest
       /\ \A s \in Runs \ {r} : run'[s] = run[s] /\ asked'[s] = asked[s]
  BY <1>1, <1>11, <1>a DEF AssetTypes
<1>13. AssetTypes'
  BY <1>1, <1>5, <1>6, <1>11, <1>a DEF AssetTypes
<1>14. Active(x, q)
  BY <1>1 DEF Active
<1>15. ASSUME NEW s \in Runs
       PROVE  RunOk(run'[s], asked'[s], assets', references', edits' = 0, ~overlapped')
  <2>1. CASE s = r
    BY <1>1, <1>11, <1>12, <2>1
  <2>2. CASE s # r
    <3>1. RunOk(run[s], asked[s], assets, references, edits = 0, ~overlapped)
      BY DEF BundleInv
    <3>2. ~overlapped => ~Active(run[s], asked[s])
      BY <1>14, <2>2 DEF BundleInv, OneActive
    <3>3. RunOk(run[s], asked[s], assets', references, edits = 0, ~overlapped)
      BY <3>1, <3>2, <1>5, ChangedOk
    <3> QED BY <1>1, <1>12, <2>2, <3>3
  <2> QED BY <2>1, <2>2
<1>16. OneActive'
  <2>1. SUFFICES ASSUME ~overlapped, NEW s \in Runs, Active(run'[s], asked'[s]) PROVE s = r
    BY <1>1 DEF OneActive
  <2> QED BY <1>12, <1>14, <2>1 DEF BundleInv, OneActive
<1>17. OneBearer'
  <2>1. \A a, role : Bearer(assets', a, role) =>
          Bearer(assets, a, role) \/ (a = n + 1 /\ role = q.role)
    BY <1>5 DEF Bearer
  <2> QED BY <1>1, <1>3, <2>1 DEF BundleInv, OneBearer
<1> QED BY <1>13, <1>15, <1>16, <1>17 DEF BundleInv

LEMMA NextBundleInv == BundleInv /\ BundleNext => BundleInv'
<1> SUFFICES ASSUME BundleInv, BundleNext PROVE BundleInv'
  OBVIOUS
<1>1. CASE \E i \in DOMAIN Roles : Stranger(Roles[i])
  <2>1. PICK i \in DOMAIN Roles : Stranger(Roles[i])
    BY <1>1
  <2>2. Roles[i] \in RoleNames
    BY DEF Roles, RoleNames
  <2> QED BY <2>1, <2>2, StrangerStep
<1>2. CASE \E a \in DOMAIN assets :
             \E context \in Contexts(a) \cup {Nothing} :
               \E body \in {context, Nothing}, typed \in BOOLEAN : Edit(a, context, body, typed)
  BY <1>2, EditStep
<1>3. ASSUME NEW r \in Runs, BundleStep(r) PROVE BundleInv'
  <2>1. CASE \E css \in {1, 2} : BeginRun(r, css)
    BY <2>1, BeginStep
  <2>2. CASE List(r)
    BY <2>2, ListStep
  <2>3. CASE Read(r)
    BY <2>3, ReadStep
  <2>4. CASE Reuse(r)
    BY <2>4, ReuseStep
  <2>5. CASE Refuse(r) \/ Fail(r)
    BY <2>5, StopStep
  <2>6. CASE AskCreate(r)
    BY <2>6, AskStep
  <2>7. CASE \E lost \in BOOLEAN : Create(r, lost)
    BY <2>7, CreateStep
  <2>8. CASE CreateFails(r)
    BY <2>8, CreateFailsStep
  <2>9. CASE LinkAssets(r)
    BY <2>9, LinkStep
  <2>10. CASE Check(r)
    BY <2>10, CheckStep
  <2> QED BY <1>3, <2>1, <2>2, <2>3, <2>4, <2>5, <2>6, <2>7, <2>8, <2>9, <2>10 DEF BundleStep
<1> QED BY <1>1, <1>2, <1>3 DEF BundleNext, Others

LEMMA BundleHolds == BundleInv => OneOfEach
<1> SUFFICES ASSUME BundleInv PROVE OneOfEach
  OBVIOUS
<1>1. ASSUME ~overlapped, NEW i \in DOMAIN Roles PROVE Cardinality({a \in Bearers(Roles[i]) : ~assets[a].remade}) <= 1
  <2> DEFINE S == {a \in Bearers(Roles[i]) : ~assets[a].remade}
  <2>1. \A a, b \in S : a = b
    <3>1. Roles[i] \in RoleNames
      BY DEF Roles, RoleNames
    <3>2. \A a \in S : Bearer(assets, a, Roles[i])
      BY DEF Bearers, Bearer
    <3> HIDE DEF S
    <3> QED BY <1>1, <3>1, <3>2 DEF BundleInv, OneBearer
  <2> HIDE DEF S
  <2>2. CASE S = {}
    BY <2>2, FS_EmptySet DEF S
  <2>3. CASE S # {}
    <3>1. PICK a : S = {a}
      BY <2>1, <2>3
    <3>2. Cardinality(S) = 1
      BY <3>1, FS_Singleton
    <3> QED BY <3>2 DEF S
  <2> QED BY <2>2, <2>3
<1>2. ASSUME NEW r \in Finished
      PROVE  /\ r \in Runs /\ run[r].done \in Seq(Pairs) /\ Len(run[r].done) = 3
             /\ DoneOk(run[r], assets, edits = 0) /\ LinkedOk(run[r], references)
             /\ run[r].pc = "done"
  <2>1. r \in Runs /\ run[r].pc = "done"
    BY DEF Finished
  <2>2. run[r] \in States /\ Lens(run[r])
    BY <2>1, RunIs
  <2> QED BY <2>1, <2>2, RunIs, StateParts DEF Lens
<1>3. ASSUME ~overlapped, edits = 0, NEW r \in Finished, NEW s \in Finished
      PROVE  run[r].done = run[s].done
  <2> DEFINE d == run[r].done
             e == run[s].done
  <2>1. /\ d \in Seq(Pairs) /\ e \in Seq(Pairs) /\ Len(d) = 3 /\ Len(e) = 3
        /\ DOMAIN d = 1..3 /\ DOMAIN e = 1..3
    BY <1>2, LenProperties
  <2>2. ASSUME NEW i \in 1..3 PROVE d[i] = e[i]
    <3>1. Settled(assets, d[i], Roles[i]) /\ Settled(assets, e[i], Roles[i])
      BY <1>2, <1>3, <2>1 DEF DoneOk
    <3>2. Roles[i] \in RoleNames
      BY DEF Roles, RoleNames
    <3>3. d[i][1] = e[i][1] /\ d[i][2] = e[i][2]
      BY <1>3, <3>1, <3>2 DEF BundleInv, OneBearer, Settled
    <3> HIDE DEF d, e
    <3>4. d[i] \in Pairs /\ e[i] \in Pairs
      BY <2>1, ElementOfSeq
    <3> QED BY <3>3, <3>4 DEF Pairs
  <2> HIDE DEF d, e
  <2>3. d = e
    BY <2>1, <2>2, SeqEqual
  <2> QED BY <2>3 DEF d, e
<1>4. ASSUME NEW r \in Finished PROVE LinksOf(r) \subseteq references
  <2>1. <<run[r].done[3][1], run[r].done[1][1]>> \in references
        /\ <<run[r].done[3][1], run[r].done[2][1]>> \in references
    BY <1>2 DEF LinkedOk
  <2>2. \A i \in 1..2 : i = 1 \/ i = 2
    OBVIOUS
  <2> QED BY <2>1, <2>2 DEF LinksOf, Html
<1> QED BY <1>1, <1>3, <1>4 DEF OneOfEach

(* OneOfEach: _ensure of agent_recipe creates an artifact only when its     *)
(* listing by name and media type and its reads show that none bears the    *)
(* bundle's context, and run_recipe links what it has settled.  Whatever    *)
(* versions others write, of the artifacts to which they gave neither       *)
(* context nor media type at most one bears a role's context; for any       *)
(* number of runs, candidates and artifacts.                                *)
THEOREM OneArtifactEach == Spec => []OneOfEach
<1>1. BundleInv /\ [Next]_vars => BundleInv'
  <2> SUFFICES ASSUME BundleInv, [Next]_vars PROVE BundleInv'
    OBVIOUS
  <2>1. CASE UNCHANGED bundleVars
    <3>1. UNCHANGED <<assets, references, run, asked, edits, overlapped>>
      BY <2>1 DEF bundleVars
    <3>2. AssetTypes'
      BY <3>1 DEF BundleInv, AssetTypes, Written
    <3>3. ASSUME NEW r \in Runs
          PROVE  RunOk(run'[r], asked'[r], assets', references', edits' = 0, ~overlapped')
      BY <3>1 DEF BundleInv
    <3>4. OneActive' /\ OneBearer'
      BY <3>1 DEF BundleInv, OneActive, OneBearer
    <3> QED BY <3>2, <3>3, <3>4 DEF BundleInv
  <2>2. CASE BundleNext
    BY <2>2, NextBundleInv
  <2> QED BY <2>1, <2>2 DEF Next, vars
<1> QED BY <1>1, InitBundleInv, BundleHolds, PTL DEF Spec
=============================================================================
