---------------------------- MODULE Dashboard_proofs ----------------------------
\* The views of the dashboard that ask and are answered, for any ranges, terms, layers,
\* devices, findings and codes: what is shown is an answer to what was asked.
EXTENDS Dashboard, MapAndLists_proofs

-------------------------------------------------------------------------------
\* Numbers and orders.

\* The least of them: what fails somewhere fails somewhere first.
LEMMA Least ==
    ASSUME NEW T \in SUBSET Nat, T # {}
    PROVE  \E n \in T : \A m \in T : n <= m
<1>1. PICK R : R = OpToRel(<, Nat)
  OBVIOUS
<1>2. IsWellFoundedOn(R, Nat)
  BY <1>1, NatLessThanWellFounded
<1>3. \A m, n \in Nat : m < n => <<m, n>> \in R
  BY <1>1 DEF OpToRel
<1>4. \E n \in T : \A m \in T : ~(<<m, n>> \in R)
  BY <1>2, WFMin
<1>5. PICK n \in T : \A m \in T : ~(<<m, n>> \in R)
  BY <1>4
<1>6. ASSUME NEW m \in T PROVE n <= m
  <2>1. m \in Nat /\ n \in Nat
    OBVIOUS
  <2>2. ~(m < n)
    BY <1>3, <1>5, <2>1
  <2>. QED  BY <2>1, <2>2
<1>. QED  BY <1>6

\* The place of each of 1..n in the order R.
PlaceIn(n, R) ==
    [i \in 1..n |-> 1 + Cardinality({j \in 1..n : <<j, i>> \in R})]

\* In a strict order of 1..n that compares any two, each stands behind as many as come
\* before it: nobody shares a place, and every place is somebody's.
LEMMA PlacesAreTaken ==
    ASSUME NEW n \in Nat, NEW R,
           \A i \in 1..n : <<i, i>> \notin R,
           \A i, j \in 1..n : i # j => <<i, j>> \in R \/ <<j, i>> \in R,
           \A i, j, k \in 1..n : <<i, j>> \in R /\ <<j, k>> \in R => <<i, k>> \in R,
           NEW P, P = PlaceIn(n, R)
    PROVE  /\ P \in [1..n -> 1..n]
           /\ \A i, j \in 1..n : <<i, j>> \in R => P[i] < P[j]
           /\ \A k \in 1..n : \E i \in 1..n : P[i] = k
<1>. DEFINE before(i) == {j \in 1..n : <<j, i>> \in R}
<1>1. IsFiniteSet(1..n) /\ Cardinality(1..n) = n
  BY FS_Interval
<1>2. ASSUME NEW i \in 1..n
      PROVE  /\ IsFiniteSet(before(i)) /\ Cardinality(before(i)) \in Nat
             /\ 1 + Cardinality(before(i)) \in 1..n
  <2>1. before(i) \subseteq (1..n) \ {i}
    OBVIOUS
  <2>2. IsFiniteSet((1..n) \ {i}) /\ Cardinality((1..n) \ {i}) = n - 1
    BY <1>1, FS_RemoveElement
  <2>. HIDE DEF before
  <2>3. IsFiniteSet(before(i)) /\ Cardinality(before(i)) <= n - 1
    BY <2>1, <2>2, FS_Subset
  <2>4. Cardinality(before(i)) \in Nat
    BY <2>3, FS_CardinalityType
  <2>. QED  BY <2>3, <2>4
<1>3. ASSUME NEW i \in 1..n, NEW j \in 1..n, <<i, j>> \in R
      PROVE  Cardinality(before(i)) < Cardinality(before(j))
  <2>1. before(i) \subseteq before(j) /\ i \in before(j) /\ i \notin before(i)
    BY <1>3
  <2>. HIDE DEF before
  <2>2. Cardinality(before(i)) <= Cardinality(before(j)) /\ Cardinality(before(i)) # Cardinality(before(j))
    BY <1>2, <2>1, FS_Subset
  <2>. QED  BY <1>2, <2>2
<1>4. P \in [1..n -> 1..n] /\ \A i \in 1..n : P[i] = 1 + Cardinality(before(i))
  BY <1>2 DEF PlaceIn
<1>. HIDE DEF before
<1>5. \A i, j \in 1..n : <<i, j>> \in R => P[i] < P[j]
  BY <1>2, <1>3, <1>4
<1>6. \A i, j \in 1..n : P[i] = P[j] => i = j
  <2>. SUFFICES ASSUME NEW i \in 1..n, NEW j \in 1..n, P[i] = P[j], i # j PROVE FALSE
    OBVIOUS
  <2>1. P[i] < P[j] \/ P[j] < P[i]
    BY <1>5
  <2>2. P[i] \in Nat /\ P[j] \in Nat
    BY <1>4
  <2>. QED  BY <2>1, <2>2
<1>7. P \in Injection(1..n, 1..n)
  BY <1>4, <1>6 DEF Injection, IsInjective
<1>8. P \in Surjection(1..n, 1..n)
  BY <1>1, <1>7, FS_Injection
<1>. QED  BY <1>4, <1>5, <1>8 DEF Surjection

\* The first few of a sequence.
LEMMA Front ==
    ASSUME NEW S, NEW s \in Seq(S), NEW l \in 0..Len(s)
    PROVE  /\ SubSeq(s, 1, l) \in Seq(S) /\ SubSeq(s, 1, l) \in [1..l -> S] /\ Len(SubSeq(s, 1, l)) = l
           /\ \A k \in 1..l : SubSeq(s, 1, l)[k] = s[k]
<1>. DEFINE t == SubSeq(s, 1, l)
<1>1. t \in Seq(S) /\ Len(t) = l /\ \A k \in 1..l : t[k] = s[k]
  OBVIOUS
<1>. HIDE DEF t
<1>2. t \in [1..l -> S]
  BY <1>1
<1>. QED  BY <1>1, <1>2 DEF t

\* Two sequences, and one behind another.
LEMMA SameSequence ==
    ASSUME NEW S, NEW t \in Seq(S), NEW u \in Seq(S), Len(t) = Len(u), \A k \in 1..Len(t) : t[k] = u[k]
    PROVE  t = u
<1>1. t \in [1..Len(t) -> S] /\ u \in [1..Len(t) -> S]
  OBVIOUS
<1>. QED  BY <1>1

LEMMA Concatenated ==
    ASSUME NEW S, NEW a \in Seq(S), NEW b \in Seq(S)
    PROVE  a \o b \in Seq(S) /\ Len(a \o b) = Len(a) + Len(b)
OBVIOUS

\* Division with a remainder.
LEMMA Division ==
    ASSUME NEW a \in Nat, NEW d \in Nat \ {0}
    PROVE  /\ a \div d \in Nat /\ (a % d) \in 0..(d - 1)
           /\ a = d * (a \div d) + (a % d)
OBVIOUS

LEMMA Quotient ==
    ASSUME NEW d \in Nat \ {0}, NEW q \in Nat, NEW r \in 0..(d - 1)
    PROVE  (d * q + r) \div d = q /\ (d * q + r) % d = r
OBVIOUS

LEMMA ExactQuotient ==
    ASSUME NEW d \in Nat \ {0}, NEW q \in Nat
    PROVE  (d * q) \div d = q /\ (d * q) % d = 0
OBVIOUS

\* One more: the quotient grows by one where the divisor divides, and only there.
LEMMA NextQuotient ==
    ASSUME NEW a \in Nat, NEW d \in Nat \ {0}
    PROVE  (a + 1) \div d = (a \div d) + (IF (a + 1) % d = 0 THEN 1 ELSE 0)
<1>. DEFINE q == a \div d
            r == a % d
<1>1. q \in Nat /\ r \in 0..(d - 1) /\ a = d * q + r
  BY Division
<1>. HIDE DEF q, r
<1>2. CASE r + 1 < d
  <2>1. a + 1 = d * q + (r + 1) /\ r + 1 \in 0..(d - 1) /\ r + 1 # 0
    BY <1>1, <1>2
  <2>2. (a + 1) \div d = q /\ (a + 1) % d = r + 1
    BY <1>1, <2>1, Quotient
  <2>. QED  BY <2>1, <2>2 DEF q
<1>3. CASE r + 1 = d
  <2>1. a + 1 = d * (q + 1) /\ q + 1 \in Nat
    BY <1>1, <1>3
  <2>2. (a + 1) \div d = q + 1 /\ (a + 1) % d = 0
    BY <2>1, ExactQuotient
  <2>. QED  BY <2>2 DEF q
<1>. QED  BY <1>1, <1>2, <1>3

\* A code of m characters in groups of g has a dash between any two groups: m and its
\* dashes together, every (g+1)-th of them a dash.
LEMMA DashesBetween ==
    ASSUME NEW m \in Nat \ {0}, NEW g \in Nat \ {0}
    PROVE  (m + ((m - 1) \div g)) \div (g + 1) = (m - 1) \div g
<1>. DEFINE q == (m - 1) \div g
            r == (m - 1) % g
<1>1. q \in Nat /\ r \in 0..(g - 1) /\ m - 1 = g * q + r
  BY Division, m - 1 \in Nat
<1>. HIDE DEF q, r
<1>2. m + q = (g + 1) * q + (r + 1) /\ r + 1 \in 0..((g + 1) - 1) /\ g + 1 \in Nat \ {0}
  BY <1>1
<1>3. (m + q) \div (g + 1) = q
  BY <1>1, <1>2, Quotient
<1>. QED  BY <1>3 DEF q

LEMMA QuotientGrows ==
    ASSUME NEW a \in Nat, NEW b \in Nat, a <= b, NEW d \in Nat \ {0}
    PROVE  a \div d <= b \div d
<1>1. /\ a \div d \in Nat /\ (a % d) \in 0..(d - 1) /\ a = d * (a \div d) + (a % d)
      /\ b \div d \in Nat /\ (b % d) \in 0..(d - 1) /\ b = d * (b \div d) + (b % d)
  BY Division
<1>. QED  BY <1>1

\* And so do the numbers the divisor does not divide.
LEMMA OthersGrow ==
    ASSUME NEW a \in Nat, NEW b \in Nat, a <= b, NEW d \in Nat \ {0}
    PROVE  a - (a \div d) <= b - (b \div d)
<1>1. /\ a \div d \in Nat /\ (a % d) \in 0..(d - 1) /\ a = d * (a \div d) + (a % d)
      /\ b \div d \in Nat /\ (b % d) \in 0..(d - 1) /\ b = d * (b \div d) + (b % d)
  BY Division
<1>2. a \div d <= b \div d
  BY QuotientGrows
<1>3. PICK k \in Nat : b \div d = (a \div d) + k
  <2>1. (b \div d) - (a \div d) \in Nat
    BY <1>1, <1>2
  <2>2. b \div d = (a \div d) + ((b \div d) - (a \div d))
    BY <1>1
  <2>. QED  BY <2>1, <2>2
<1>4. CASE k = 0
  BY <1>1, <1>3, <1>4
<1>5. CASE k # 0
  <2>1. (d - 1) * (k - 1) >= 0
    BY <1>5
  <2>2. (d - 1) * (k - 1) = d * k - d - k + 1
    OBVIOUS
  <2>3. d * k >= d + k - 1
    BY <2>1, <2>2
  <2>4. PICK qa, ra, rb : qa = a \div d /\ ra = (a % d) /\ rb = (b % d)
    OBVIOUS
  <2>5. qa \in Nat /\ ra \in 0..(d - 1) /\ rb \in 0..(d - 1) /\ a = d * qa + ra /\ b = d * (qa + k) + rb
    BY <1>1, <1>3, <2>4
  <2>6. d * (qa + k) = d * qa + d * k
    BY <2>5
  <2>7. b - a = d * k + rb - ra
    BY <2>5, <2>6
  <2>8. b - a >= k
    BY <2>3, <2>5, <2>7
  <2>. QED  BY <1>3, <2>4, <2>5, <2>8
<1>. QED  BY <1>4, <1>5

-------------------------------------------------------------------------------
\* The bars. A load that was not cancelled is of the range chosen; without the view there
\* is none, and no bars.
LineLoads == \A l \in line.loads : ~l.cancelled => line.mounted /\ l.range = line.range
LineInv == Line!TypeOK /\ Line!TimelineIsOfItsRange /\ LineLoads /\ (~line.mounted => line.points = "none")

LEMMA LineInit == Line!TimelineAssumption /\ Line!Init => LineInv
BY DEF LineInv, LineLoads, Line!Init, Line!TypeOK, Line!TimelineIsOfItsRange, Line!Load, Line!Loads

LEMMA LineCancelled ==
    ASSUME LineInv
    PROVE  Line!Cancelled \subseteq Line!Loads /\ \A l \in Line!Cancelled : l.cancelled
<1>1. line.loads \subseteq Line!Loads
  BY DEF LineInv, Line!TypeOK
<1>2. ASSUME NEW l \in line.loads
      PROVE  [l EXCEPT !.cancelled = TRUE] \in Line!Loads /\ [l EXCEPT !.cancelled = TRUE].cancelled
  BY <1>1 DEF Line!Loads
<1>. QED  BY <1>2 DEF Line!Cancelled

LEMMA LineLoad ==
    ASSUME NEW r \in Ranges
    PROVE  Line!Load(r) \in Line!Loads /\ ~Line!Load(r).cancelled /\ Line!Load(r).range = r
BY DEF Line!Load, Line!Loads

LEMMA LineStep == Line!TimelineAssumption /\ LineInv /\ [Line!Next]_line => LineInv'
<1>. SUFFICES ASSUME Line!TimelineAssumption, LineInv, [Line!Next]_line PROVE LineInv'
  OBVIOUS
<1>. USE DEF LineInv, LineLoads, Line!TypeOK, Line!TimelineIsOfItsRange
<1>1. ASSUME NEW r \in Ranges, NEW h \in Hours \cup {"none"}, Line!FilterBecomes(r, h) PROVE LineInv'
  BY <1>1, LineCancelled, LineLoad DEF Line!FilterBecomes
<1>2. CASE Line!PicksRange \/ Line!PinsHour \/ Line!BackToLive
  BY <1>1, <1>2 DEF Line!PicksRange, Line!PinsHour, Line!BackToLive
<1>3. CASE Line!Poll
  BY <1>3, LineLoad DEF Line!Poll
<1>4. CASE Line!Navigates
  BY <1>4, LineCancelled, LineLoad DEF Line!Navigates
<1>5. CASE Line!VisibilityChanges
  BY <1>5, LineLoad DEF Line!VisibilityChanges
<1>6. ASSUME NEW l \in line.loads, Line!Arrives(l) PROVE LineInv'
  <2>1. l \in Line!Loads
    BY <1>6
  <2>2. PICK p \in {l.range, "none"} :
          line' = [line EXCEPT !.loads = @ \ {l}, !.points = IF ~l.cancelled THEN p ELSE @]
    BY <1>6 DEF Line!Arrives, Line!IsDrawn
  <2>3. CASE l.cancelled
    <3>1. line' = [line EXCEPT !.loads = @ \ {l}]
      BY <2>2, <2>3
    <3>2. l # Line!Load(line.range)
      BY <2>3 DEF Line!Load
    <3>. QED  BY <3>1, <3>2 DEF Line!Load
  <2>4. CASE ~l.cancelled
    <3>1. line' = [line EXCEPT !.loads = @ \ {l}, !.points = p]
      BY <2>2, <2>4
    <3>2. p \in {line.range, "none"} /\ line.range \in Ranges /\ line.mounted
      BY <1>6, <2>4
    <3>. QED  BY <3>1, <3>2 DEF Line!Load
  <2>. QED  BY <2>3, <2>4, <2>1 DEF Line!Loads
<1>7. CASE UNCHANGED line
  BY <1>7
<1>. QED  BY <1>2, <1>3, <1>4, <1>5, <1>6, <1>7 DEF Line!Next

-------------------------------------------------------------------------------
\* The devices of peers. A load that was not cancelled is of the layer chosen.
KinInv == Kin!TypeOK /\ Kin!DevicesAreOfTheLayer

KinRecords == [layer : OtherLayers \cup {"mine"}, loads : SUBSET Kin!Loads, shown : OtherLayers \cup {None}]

\* The loads there are were cancelled, and a load of the layer is made.
LEMMA KinLoading ==
    ASSUME Kin!PeerDevicesAssumption, NEW k \in KinRecords, \A l \in k.loads : l.cancelled, kin' = Kin!Loading(k)
    PROVE  KinInv'
<1>. USE DEF KinInv, KinRecords, Kin!TypeOK, Kin!DevicesAreOfTheLayer, Kin!Loads
<1>1. CASE k.layer = "mine"
  BY <1>1 DEF Kin!Loading
<1>2. CASE k.layer # "mine"
  <2>. DEFINE new == [layer |-> k.layer, cancelled |-> FALSE]
  <2>1. new \in Kin!Loads /\ ~new.cancelled /\ new.layer = k.layer
    BY <1>2
  <2>2. kin' = [k EXCEPT !.loads = @ \cup {new}]
    BY <1>2 DEF Kin!Loading
  <2>. HIDE DEF new
  <2>3. kin'.layer = k.layer /\ kin'.loads = k.loads \cup {new} /\ kin'.shown = k.shown /\ kin' \in KinRecords
    BY <2>1, <2>2
  <2>4. Kin!TypeOK'
    BY <2>3
  <2>. QED  BY <2>1, <2>3, <2>4 DEF new
<1>. QED  BY <1>1, <1>2

LEMMA KinCancelled ==
    ASSUME NEW loads \in SUBSET Kin!Loads
    PROVE  Kin!Cancelled(loads) \subseteq Kin!Loads /\ \A l \in Kin!Cancelled(loads) : l.cancelled
BY DEF Kin!Cancelled, Kin!Loads

LEMMA KinMounted ==
    ASSUME Kin!PeerDevicesAssumption, NEW layer \in OtherLayers \cup {"mine"}, NEW loads \in SUBSET Kin!Loads,
           kin' = Kin!Mounted(layer, loads)
    PROVE  KinInv'
<1>. DEFINE k == [layer |-> layer, loads |-> Kin!Cancelled(loads), shown |-> None]
<1>1. k \in KinRecords /\ \A l \in k.loads : l.cancelled
  BY KinCancelled DEF KinRecords
<1>2. kin' = Kin!Loading(k)
  BY DEF Kin!Mounted
<1>. QED  BY <1>1, <1>2, KinLoading

LEMMA KinInit == Kin!PeerDevicesAssumption /\ Kin!Init => KinInv
<1>. SUFFICES ASSUME Kin!PeerDevicesAssumption, NEW layer \in OtherLayers \cup {"mine"}, kin = Kin!Mounted(layer, {})
              PROVE  KinInv
  BY DEF Kin!Init
<1>1. Kin!Cancelled({}) = {}
  BY DEF Kin!Cancelled
<1>2. PICK k : k = [layer |-> layer, loads |-> {}, shown |-> None]
  OBVIOUS
<1>3. kin = Kin!Loading(k)
  BY <1>1, <1>2 DEF Kin!Mounted
<1>4. CASE layer = "mine"
  BY <1>2, <1>3, <1>4 DEF Kin!Loading, KinInv, Kin!TypeOK, Kin!DevicesAreOfTheLayer
<1>5. CASE layer # "mine"
  <2>. DEFINE new == [layer |-> layer, cancelled |-> FALSE]
  <2>1. kin = [k EXCEPT !.loads = @ \cup {new}]
    BY <1>2, <1>3, <1>5 DEF Kin!Loading
  <2>2. new \in Kin!Loads /\ ~new.cancelled /\ new.layer = layer
    BY <1>5 DEF Kin!Loads
  <2>. HIDE DEF new
  <2>3. kin = [layer |-> layer, loads |-> {new}, shown |-> None]
    BY <1>2, <2>1
  <2>4. Kin!TypeOK
    BY <2>2, <2>3 DEF Kin!TypeOK
  <2>. QED  BY <2>2, <2>3, <2>4 DEF new, KinInv, Kin!DevicesAreOfTheLayer
<1>. QED  BY <1>4, <1>5

LEMMA KinStep == Kin!PeerDevicesAssumption /\ KinInv /\ [Kin!Next]_kin => KinInv'
<1>. SUFFICES ASSUME Kin!PeerDevicesAssumption, KinInv, [Kin!Next]_kin PROVE KinInv'
  OBVIOUS
<1>1. kin \in KinRecords /\ kin.loads \in SUBSET Kin!Loads
  BY DEF KinInv, KinRecords, Kin!TypeOK
<1>2. CASE Kin!LayerChanges
  <2>1. PICK layer \in OtherLayers \cup {"mine"} :
          kin' = Kin!Loading([kin EXCEPT !.layer = layer, !.loads = Kin!Cancelled(@)])
    BY <1>2 DEF Kin!LayerChanges
  <2>2. PICK k : k = [kin EXCEPT !.layer = layer, !.loads = Kin!Cancelled(@)]
    OBVIOUS
  <2>3. k \in KinRecords /\ \A l \in k.loads : l.cancelled
    BY <1>1, <2>2, KinCancelled DEF KinRecords
  <2>. QED  BY <2>1, <2>2, <2>3, KinLoading
<1>3. CASE Kin!Remounts
  BY <1>1, <1>3, KinMounted DEF Kin!Remounts
<1>4. ASSUME NEW l \in kin.loads, Kin!Arrives(l) \/ Kin!Fails(l) PROVE KinInv'
  <2>. USE DEF KinInv, Kin!TypeOK, Kin!DevicesAreOfTheLayer, Kin!Loads
  <2>1. CASE l.cancelled
    <3>1. kin' = [kin EXCEPT !.loads = @ \ {l}]
      BY <1>1, <1>4, <2>1 DEF Kin!Arrives, Kin!Fails, KinRecords
    <3>2. l # [layer |-> kin.layer, cancelled |-> FALSE]
      BY <2>1
    <3>. QED  BY <3>1, <3>2
  <2>2. CASE ~l.cancelled
    <3>1. PICK s \in {l.layer, None} : kin' = [kin EXCEPT !.loads = @ \ {l}, !.shown = s]
      BY <1>4, <2>2 DEF Kin!Arrives, Kin!Fails
    <3>2. s \in {kin.layer, None} /\ s \in OtherLayers \cup {None}
      BY <1>4, <2>2, <3>1
    <3>. QED  BY <3>1, <3>2
  <2>. QED  BY <2>1, <2>2
<1>5. CASE UNCHANGED kin
  BY <1>5 DEF KinInv, Kin!TypeOK, Kin!DevicesAreOfTheLayer
<1>. QED  BY <1>2, <1>3, <1>4, <1>5 DEF Kin!Next

-------------------------------------------------------------------------------
\* The search. Timers are of what stands in the field.
SearchInv == Search!TypeOK /\ Search!OnlyTheTermIsSought

LEMMA SearchEmpty ==
    ASSUME NEW layer \in Layers, NEW q \in Search!Fields \cup {None}, search' = Search!Empty(layer, q)
    PROVE  SearchInv'
<1>1. "" \in Search!Fields
  BY DEF Search!Fields
<1>. QED  BY <1>1 DEF SearchInv, Search!TypeOK, Search!OnlyTheTermIsSought, Search!Empty

LEMMA SearchInit == Search!SearchAssumption /\ Search!Init => SearchInv
<1>1. "" \in Search!Fields
  BY DEF Search!Fields
<1>2. SUFFICES ASSUME NEW layer \in Layers, search = Search!Empty(layer, None) PROVE SearchInv
  BY DEF Search!Init
<1>. QED  BY <1>1, <1>2 DEF SearchInv, Search!TypeOK, Search!OnlyTheTermIsSought, Search!Empty

SearchRecords ==
    [term : Search!Fields, layer : Layers, timers : SUBSET Search!Searches, flights : SUBSET Search!Searches,
     results : Search!Searches \cup {Search!NoSearch}, open : BOOLEAN, q : Search!Fields \cup {None}]

\* What stands in the field is changed together with its timer.
LEMMA TermTaken ==
    ASSUME NEW s \in SearchRecords, NEW x \in Search!Fields, \A timer \in s.timers : timer.term = s.term
    PROVE  /\ Search!WithTerm(s, x) \in SearchRecords
           /\ Search!WithTerm(s, x).term = x
           /\ \A timer \in Search!WithTerm(s, x).timers : timer.term = x
<1>1. CASE x = s.term
  BY <1>1 DEF Search!WithTerm
<1>2. CASE x # s.term /\ x \in Terms
  <2>. DEFINE timer == [term |-> x, layer |-> s.layer]
  <2>1. timer \in Search!Searches /\ timer.term = x
    BY <1>2 DEF SearchRecords, Search!Searches
  <2>2. Search!WithTerm(s, x) = [s EXCEPT !.term = x, !.timers = {timer}]
    BY <1>2 DEF Search!WithTerm, SearchRecords
  <2>. HIDE DEF timer
  <2>3. Search!WithTerm(s, x).term = x /\ Search!WithTerm(s, x).timers = {timer}
    BY <2>2 DEF SearchRecords
  <2>4. PICK timers \in SUBSET Search!Searches : timers = {timer}
    BY <2>1
  <2>5. [s EXCEPT !.term = x, !.timers = timers] \in SearchRecords
    BY DEF SearchRecords
  <2>. QED  BY <2>1, <2>2, <2>3, <2>4, <2>5
<1>3. CASE x # s.term /\ x \notin Terms
  <2>1. Search!WithTerm(s, x) = [s EXCEPT !.term = x, !.timers = {}, !.results = Search!NoSearch]
    BY <1>3 DEF Search!WithTerm, SearchRecords
  <2>. QED  BY <2>1 DEF SearchRecords
<1>. QED  BY <1>1, <1>2, <1>3

LEMMA SearchStep == Search!SearchAssumption /\ SearchInv /\ [Search!Next]_search => SearchInv'
<1>. SUFFICES ASSUME Search!SearchAssumption, SearchInv, [Search!Next]_search PROVE SearchInv'
  OBVIOUS
<1>. USE DEF SearchInv, Search!TypeOK, Search!OnlyTheTermIsSought
<1>0. search \in SearchRecords /\ \A timer \in search.timers : timer.term = search.term
  BY DEF SearchRecords
<1>1. ASSUME NEW s \in SearchRecords, search' = s, \A timer \in s.timers : timer.term = s.term PROVE SearchInv'
  BY <1>1 DEF SearchRecords
<1>2. CASE Search!Types
  BY <1>0, <1>1, <1>2, TermTaken DEF Search!Types
<1>3. CASE Search!Picks \/ Search!EscapePressed \/ Search!EnterPressed
  <2>. DEFINE s == Search!WithTerm(search, "")
  <2>1. s \in SearchRecords /\ s.term = "" /\ \A timer \in s.timers : timer.term = ""
    BY <1>0, TermTaken DEF Search!Fields
  <2>2. Search!Picks => search.results.term \in Search!Fields
    BY <1>0 DEF Search!Picks, Search!ResultsShown, SearchRecords, Search!Searches, Search!Fields
  <2>. HIDE DEF s
  <2>3. ASSUME NEW r \in Search!Searches \cup {Search!NoSearch}, NEW q \in Search!Fields \cup {None},
               search' = [s EXCEPT !.q = q, !.results = r, !.open = FALSE]
        PROVE  SearchInv'
    <3>1. PICK to : to = [s EXCEPT !.q = q, !.results = r, !.open = FALSE]
      OBVIOUS
    <3>2. to \in SearchRecords /\ to.term = "" /\ to.timers = s.timers
      BY <2>1, <3>1 DEF SearchRecords
    <3>. QED  BY <1>1, <2>1, <2>3, <3>1, <3>2
  <2>4. s.results \in Search!Searches \cup {Search!NoSearch} /\ s.q \in Search!Fields \cup {None}
    BY <2>1 DEF SearchRecords
  <2>5. CASE Search!Picks
    BY <2>2, <2>3, <2>5 DEF Search!Picks, s
  <2>6. CASE Search!EscapePressed
    <3>1. search' = [s EXCEPT !.q = s.q, !.results = s.results, !.open = FALSE]
      BY <2>1, <2>6 DEF Search!EscapePressed, SearchRecords, s
    <3>. QED  BY <2>3, <2>4, <3>1
  <2>7. CASE Search!EnterPressed
    <3>1. search' = [s EXCEPT !.q = search.term, !.results = s.results, !.open = FALSE]
      BY <2>1, <2>7 DEF Search!EnterPressed, SearchRecords, s
    <3>2. search.term \in Search!Fields \cup {None}
      BY <1>0 DEF SearchRecords
    <3>. QED  BY <2>3, <2>4, <3>1, <3>2
  <2>. QED  BY <1>3, <2>5, <2>6, <2>7
<1>4. CASE Search!PressesOutside \/ Search!Focuses \/ Search!ChipPressed \/ Search!LayerChanges
  BY <1>4 DEF Search!PressesOutside, Search!Focuses, Search!ChipPressed, Search!LayerChanges
<1>5. CASE Search!Remounts
  BY <1>5, SearchEmpty DEF Search!Remounts
<1>6. ASSUME NEW s \in Search!Searches, Search!TimerFires(s) \/ Search!ResultsArrive(s) \/ Search!SearchFails(s)
      PROVE  SearchInv'
  <2>1. CASE Search!TimerFires(s)
    BY <1>6, <2>1 DEF Search!TimerFires
  <2>2. ASSUME NEW r \in Search!Searches \cup {Search!NoSearch}, NEW o \in BOOLEAN,
               search' = [search EXCEPT !.flights = @ \ {s}, !.results = r, !.open = o]
        PROVE  SearchInv'
    BY <2>2
  <2>3. CASE Search!ResultsArrive(s)
    BY <1>6, <2>2, <2>3 DEF Search!ResultsArrive
  <2>4. CASE Search!SearchFails(s)
    <3>1. search' = [search EXCEPT !.flights = @ \ {s}, !.results = Search!NoSearch, !.open = search.open]
      BY <2>4 DEF Search!SearchFails
    <3>. QED  BY <2>2, <3>1
  <2>. QED  BY <1>6, <2>1, <2>3, <2>4
<1>7. CASE UNCHANGED search
  BY <1>7
<1>. QED  BY <1>2, <1>3, <1>4, <1>5, <1>6, <1>7 DEF Search!Next

-------------------------------------------------------------------------------
\* The chatter. The rows of lookups are an answer for the feed, the others for domains.
ChatterKinds ==
    /\ chatter.events # Chatter!NoQuery => Chatter!IsFeed(chatter.events)
    /\ chatter.domains # Chatter!NoQuery => ~Chatter!IsFeed(chatter.domains)
ChatterInv == Chatter!TypeOK /\ ChatterKinds

LEMMA ChatterShows == ChatterInv => Chatter!ListsKeepTheirKind
BY DEF ChatterInv, ChatterKinds, Chatter!ListsKeepTheirKind, Chatter!Shown

ChatterRecords ==
    [visible : BOOLEAN, filter : Filters, scrubbed : BOOLEAN, tab : Chatter!Tabs, flagged : BOOLEAN,
     loads : SUBSET [query : Chatter!Queries, summed : BOOLEAN], capable : {"unknown", "yes", "no"},
     events : Chatter!Queries \cup {Chatter!NoQuery}, domains : Chatter!Queries \cup {Chatter!NoQuery}]

LEMMA ChatterLoad ==
    ASSUME NEW c \in ChatterRecords
    PROVE  Chatter!Load(c) \in [query : Chatter!Queries, summed : BOOLEAN]
BY DEF ChatterRecords, Chatter!Load, Chatter!Query, Chatter!Queries

LEMMA ChatterInit == Chatter!Init => ChatterInv
<1>. SUFFICES ASSUME Chatter!Init PROVE ChatterInv
  OBVIOUS
<1>1. PICK f \in Filters, s \in BOOLEAN :
        LET c == [visible |-> TRUE, filter |-> f, scrubbed |-> s, tab |-> "feed", flagged |-> FALSE,
                  loads |-> {}, capable |-> "unknown", events |-> Chatter!NoQuery, domains |-> Chatter!NoQuery]
        IN  chatter = [c EXCEPT !.loads = {Chatter!Load(c)}]
  BY DEF Chatter!Init
<1>2. PICK c : c = [visible |-> TRUE, filter |-> f, scrubbed |-> s, tab |-> "feed", flagged |-> FALSE,
                    loads |-> {}, capable |-> "unknown", events |-> Chatter!NoQuery, domains |-> Chatter!NoQuery]
  OBVIOUS
<1>3. c \in ChatterRecords
  <2>1. {} \in SUBSET [query : Chatter!Queries, summed : BOOLEAN] /\ "feed" \in Chatter!Tabs
    BY DEF Chatter!Tabs
  <2>. QED  BY <1>2, <2>1 DEF ChatterRecords
<1>4. PICK loads \in SUBSET [query : Chatter!Queries, summed : BOOLEAN] : loads = {Chatter!Load(c)}
  BY <1>3, ChatterLoad
<1>5. chatter = [c EXCEPT !.loads = loads]
  BY <1>1, <1>2, <1>4
<1>6. chatter \in ChatterRecords
  BY <1>3, <1>5 DEF ChatterRecords
<1>7. chatter.events = Chatter!NoQuery /\ chatter.domains = Chatter!NoQuery
  BY <1>2, <1>5
<1>. QED  BY <1>6, <1>7 DEF ChatterInv, ChatterKinds, Chatter!TypeOK, ChatterRecords

LEMMA ChatterStep == ChatterInv /\ [Chatter!Next]_chatter => ChatterInv'
<1>. SUFFICES ASSUME ChatterInv, [Chatter!Next]_chatter PROVE ChatterInv'
  OBVIOUS
<1>1. chatter \in ChatterRecords /\ ChatterKinds
  BY DEF ChatterInv, Chatter!TypeOK, ChatterRecords
<1>2. ASSUME chatter' \in ChatterRecords, chatter'.events = chatter.events, chatter'.domains = chatter.domains
      PROVE  ChatterInv'
  BY <1>1, <1>2 DEF ChatterInv, ChatterKinds, Chatter!TypeOK, ChatterRecords
<1>3. ASSUME NEW c \in ChatterRecords, c.events = chatter.events, c.domains = chatter.domains,
             NEW loads \in SUBSET [query : Chatter!Queries, summed : BOOLEAN],
             chatter' = [c EXCEPT !.loads = loads]
      PROVE  ChatterInv'
  BY <1>2, <1>3 DEF ChatterRecords
<1>4. ASSUME NEW c \in ChatterRecords, c.events = chatter.events, c.domains = chatter.domains,
             chatter' = [c EXCEPT !.loads = @ \cup {Chatter!Load(c)}]
      PROVE  ChatterInv'
  <2>1. c.loads \cup {Chatter!Load(c)} \in SUBSET [query : Chatter!Queries, summed : BOOLEAN]
    BY <1>4, ChatterLoad DEF ChatterRecords
  <2>. QED  BY <1>3, <1>4, <2>1
<1>5. CASE Chatter!PicksTab \/ Chatter!TogglesFlagged \/ Chatter!FilterChanges
  <2>1. ASSUME NEW c \in ChatterRecords, c.events = chatter.events, c.domains = chatter.domains, Chatter!Chosen(c)
        PROVE  ChatterInv'
    BY <1>4, <2>1 DEF Chatter!Chosen
  <2>2. CASE Chatter!PicksTab
    <3>1. PICK tb \in Chatter!Tabs : Chatter!Chosen([chatter EXCEPT !.tab = tb])
      BY <2>2 DEF Chatter!PicksTab
    <3>. QED  BY <1>1, <2>1, <3>1 DEF ChatterRecords
  <2>3. CASE Chatter!TogglesFlagged
    <3>1. Chatter!Chosen([chatter EXCEPT !.flagged = ~@])
      BY <2>3 DEF Chatter!TogglesFlagged
    <3>. QED  BY <1>1, <2>1, <3>1 DEF ChatterRecords
  <2>4. CASE Chatter!FilterChanges
    <3>1. PICK f \in Filters, s \in BOOLEAN : Chatter!Chosen([chatter EXCEPT !.filter = f, !.scrubbed = s])
      BY <2>4 DEF Chatter!FilterChanges
    <3>. QED  BY <1>1, <2>1, <3>1 DEF ChatterRecords
  <2>. QED  BY <1>5, <2>2, <2>3, <2>4
<1>6. CASE Chatter!Poll
  BY <1>1, <1>4, <1>6 DEF Chatter!Poll
<1>7. CASE Chatter!VisibilityChanges
  <2>1. PICK loads : loads = IF ~chatter.visible /\ chatter.tab = "feed" /\ ~chatter.scrubbed
                             THEN chatter.loads \cup {Chatter!Load(chatter)} ELSE chatter.loads
    OBVIOUS
  <2>2. loads \in SUBSET [query : Chatter!Queries, summed : BOOLEAN]
    BY <1>1, <2>1, ChatterLoad DEF ChatterRecords
  <2>3. chatter' = [chatter EXCEPT !.visible = ~@, !.loads = loads]
    BY <1>7, <2>1 DEF Chatter!VisibilityChanges
  <2>. QED  BY <1>1, <1>2, <2>2, <2>3 DEF ChatterRecords
<1>8. ASSUME NEW l \in chatter.loads, Chatter!SummaryArrives(l) PROVE ChatterInv'
  <2>1. PICK able \in {"yes", "no"} :
          chatter' = [chatter EXCEPT !.capable = able, !.loads = (@ \ {l}) \cup {[l EXCEPT !.summed = TRUE]}]
    BY <1>8 DEF Chatter!SummaryArrives
  <2>2. (chatter.loads \ {l}) \cup {[l EXCEPT !.summed = TRUE]} \in SUBSET [query : Chatter!Queries, summed : BOOLEAN]
    BY <1>1, <1>8 DEF ChatterRecords
  <2>. QED  BY <1>1, <1>2, <2>1, <2>2 DEF ChatterRecords
<1>9. ASSUME NEW l \in chatter.loads, Chatter!ListArrives(l) PROVE ChatterInv'
  <2>1. l.query \in Chatter!Queries
    BY <1>1, <1>9 DEF ChatterRecords
  <2>2. CASE Chatter!IsFeed(l.query)
    <3>1. chatter' = [chatter EXCEPT !.loads = @ \ {l}, !.events = l.query]
      BY <1>1, <1>9, <2>2 DEF Chatter!ListArrives, ChatterRecords
    <3>2. chatter' \in ChatterRecords /\ chatter'.events = l.query /\ chatter'.domains = chatter.domains
      BY <1>1, <2>1, <3>1 DEF ChatterRecords
    <3>. QED  BY <1>1, <2>2, <3>2 DEF ChatterInv, ChatterKinds, Chatter!TypeOK, ChatterRecords
  <2>3. CASE ~Chatter!IsFeed(l.query)
    <3>1. chatter' = [chatter EXCEPT !.loads = @ \ {l}, !.domains = l.query]
      BY <1>1, <1>9, <2>3 DEF Chatter!ListArrives, ChatterRecords
    <3>2. chatter' \in ChatterRecords /\ chatter'.events = chatter.events /\ chatter'.domains = l.query
      BY <1>1, <2>1, <3>1 DEF ChatterRecords
    <3>. QED  BY <1>1, <2>3, <3>2 DEF ChatterInv, ChatterKinds, Chatter!TypeOK, ChatterRecords
  <2>. QED  BY <2>2, <2>3
<1>10. ASSUME NEW l \in chatter.loads, Chatter!Fails(l) PROVE ChatterInv'
  BY <1>1, <1>2, <1>10 DEF Chatter!Fails, ChatterRecords
<1>11. CASE UNCHANGED chatter
  BY <1>1, <1>2, <1>11
<1>. QED  BY <1>5, <1>6, <1>7, <1>8, <1>9, <1>10, <1>11 DEF Chatter!Next

-------------------------------------------------------------------------------
\* The frame. Help has asked for the platform exactly while it is the view.
Backs == {s \in Seq(Hull!Hashes) : Len(s) <= MaxHistory}
Platforms == {"none", "asked", "known"}

ShellRecords ==
    [hash : Hull!Hashes, back : Backs, events : 0..MaxEvents, view : Hull!NAV,
     offered : Offers \cup {None}, theme : Hull!Themes, stored : Hull!Themes \cup {None},
     summary : {"none", "plain", "hint"}, live : BOOLEAN, dismissed : BOOLEAN,
     machine : Machines, platform : Platforms]

Placed(s) ==
    /\ s \in ShellRecords
    /\ s.events > 0 \/ s.view = Hull!Read(s.hash)
    /\ s.view = "help" <=> s.platform # "none"

ShellInv == Placed(shell)

LEMMA ReadType ==
    /\ \A h \in Hull!Hashes : Hull!Read(h) \in Hull!NAV
    /\ \A v \in Hull!NAV : v \in Hull!Hashes /\ Hull!Read(v) = v
    /\ "watchtower" \in Hull!NAV /\ "roster" \in Hull!NAV /\ "help" \in Hull!NAV
BY DEF Hull!Hashes, Hull!Read, Hull!NAV

LEMMA OpenedType ==
    ASSUME NEW v
    PROVE  Hull!Opened(v) \in Platforms /\ (v = "help" <=> Hull!Opened(v) # "none")
BY DEF Hull!Opened, Platforms

LEMMA RenderedIsPlaced ==
    ASSUME NEW s \in ShellRecords, s.view = "help" <=> s.platform # "none", NEW v \in Hull!NAV
    PROVE  LET r == Hull!Rendered(s, v)
           IN  /\ r \in ShellRecords /\ r.view = v /\ r.hash = s.hash /\ r.events = s.events
               /\ r.view = "help" <=> r.platform # "none"
<1>1. CASE v = s.view
  BY <1>1 DEF Hull!Rendered
<1>2. CASE v # s.view
  <2>1. PICK offered : offered = IF v = "roster" THEN s.offered ELSE None
    OBVIOUS
  <2>2. offered \in Offers \cup {None}
    BY <2>1 DEF ShellRecords
  <2>3. Hull!Rendered(s, v) = [s EXCEPT !.view = v, !.offered = offered, !.platform = Hull!Opened(v)]
    BY <1>2, <2>1 DEF Hull!Rendered
  <2>4. PICK platform \in Platforms : platform = Hull!Opened(v) /\ (v = "help" <=> platform # "none")
    BY OpenedType
  <2>5. PICK r : r = [s EXCEPT !.view = v, !.offered = offered, !.platform = platform]
    OBVIOUS
  <2>6. r \in ShellRecords /\ r.view = v /\ r.hash = s.hash /\ r.events = s.events /\ r.platform = platform
    BY <2>2, <2>5 DEF ShellRecords
  <2>. QED  BY <2>3, <2>4, <2>5, <2>6
<1>. QED  BY <1>1, <1>2

LEMMA BacksGrow ==
    ASSUME Hull!ShellAssumption, NEW s \in ShellRecords
    PROVE  Hull!Remembered(s) \in Backs
<1>1. s.back \in Seq(Hull!Hashes) /\ Len(s.back) <= MaxHistory /\ s.hash \in Hull!Hashes /\ Len(s.back) \in Nat
  BY DEF ShellRecords, Backs
<1>2. CASE Len(s.back) < MaxHistory
  <2>1. Append(s.back, s.hash) \in Seq(Hull!Hashes) /\ Len(Append(s.back, s.hash)) = Len(s.back) + 1
    BY <1>1
  <2>. QED  BY <1>1, <1>2, <2>1 DEF Hull!Remembered, Backs, Hull!ShellAssumption
<1>3. CASE ~(Len(s.back) < MaxHistory)
  <2>1. s.back # <<>>
    BY <1>1, <1>3 DEF Hull!ShellAssumption
  <2>2. Tail(s.back) \in Seq(Hull!Hashes) /\ Len(Tail(s.back)) = Len(s.back) - 1
    BY <1>1, <2>1
  <2>3. Append(Tail(s.back), s.hash) \in Seq(Hull!Hashes) /\ Len(Append(Tail(s.back), s.hash)) = Len(Tail(s.back)) + 1
    BY <1>1, <2>2
  <2>. QED  BY <1>1, <1>3, <2>2, <2>3 DEF Hull!Remembered, Backs, Hull!ShellAssumption
<1>. QED  BY <1>2, <1>3

LEMMA SetViewIsPlaced ==
    ASSUME Hull!ShellAssumption, NEW s, Placed(s), s.events < MaxEvents, NEW v \in Hull!NAV
    PROVE  Placed(Hull!SetView(s, v))
<1>. DEFINE back == Hull!Remembered(s)
<1>1. back \in Backs /\ v \in Hull!Hashes /\ s \in ShellRecords /\ s.events \in Nat /\ MaxEvents \in Nat
  BY BacksGrow, ReadType DEF Placed, ShellRecords, Hull!ShellAssumption
<1>. HIDE DEF back
<1>2. CASE v = "watchtower"
  <2>. DEFINE r == [s EXCEPT !.back = back, !.hash = v]
  <2>1. r \in ShellRecords /\ (r.view = "help" <=> r.platform # "none") /\ r.hash = v
    BY <1>1 DEF ShellRecords, Placed
  <2>2. Hull!SetView(s, v) = Hull!Rendered(r, v)
    BY <1>2 DEF Hull!SetView, back
  <2>. HIDE DEF r
  <2>3. LET p == Hull!Rendered(r, v)
        IN  p \in ShellRecords /\ p.view = v /\ p.hash = v /\ (p.view = "help" <=> p.platform # "none")
    BY <2>1, RenderedIsPlaced
  <2>. QED  BY <2>2, <2>3, ReadType DEF Placed
<1>3. CASE v # "watchtower" /\ v = s.hash
  BY <1>3 DEF Hull!SetView
<1>4. CASE v # "watchtower" /\ v # s.hash
  <2>1. Hull!SetView(s, v) = [s EXCEPT !.back = back, !.hash = v, !.events = @ + 1]
    BY <1>4 DEF Hull!SetView, back
  <2>2. s.events + 1 \in 0..MaxEvents /\ s.events + 1 > 0
    BY <1>1
  <2>. QED  BY <1>1, <2>1, <2>2 DEF Placed, ShellRecords
<1>. QED  BY <1>2, <1>3, <1>4

LEMMA LoadedIsPlaced ==
    ASSUME Hull!ShellAssumption, NEW h \in Hull!Hashes, NEW back \in Backs, NEW t \in Hull!Themes \cup {None},
           NEW m \in Machines
    PROVE  Placed(Hull!Loaded(h, back, t, m))
<1>1. Hull!InitialTheme(t) \in Hull!Themes
  BY DEF Hull!InitialTheme, Hull!Themes
<1>2. 0 \in 0..MaxEvents
  BY DEF Hull!ShellAssumption
<1>3. Hull!Loaded(h, back, t, m) \in ShellRecords
  BY <1>1, <1>2, ReadType, OpenedType DEF Hull!Loaded, ShellRecords
<1>. QED  BY <1>3, OpenedType DEF Hull!Loaded, Placed

LEMMA ShellInit == Hull!ShellAssumption /\ Hull!Init => ShellInv
<1>. SUFFICES ASSUME Hull!ShellAssumption, Hull!Init PROVE ShellInv
  OBVIOUS
<1>1. <<>> \in Backs
  BY DEF Backs, Hull!ShellAssumption
<1>. QED  BY <1>1, LoadedIsPlaced DEF Hull!Init, ShellInv

LEMMA ShellStep == Hull!ShellAssumption /\ ShellInv /\ [Hull!Next]_shell => ShellInv'
<1>. SUFFICES ASSUME Hull!ShellAssumption, Placed(shell), [Hull!Next]_shell PROVE Placed(shell')
  BY DEF ShellInv
<1>1. shell \in ShellRecords /\ shell.events \in Nat /\ MaxEvents \in Nat \ {0} /\ shell.hash \in Hull!Hashes
  BY DEF Placed, ShellRecords, Hull!ShellAssumption
<1>2. CASE Hull!Navigates
  BY <1>1, <1>2, SetViewIsPlaced DEF Hull!Navigates, Hull!Room
<1>3. CASE Hull!HashChanges
  <2>. DEFINE s == [shell EXCEPT !.events = @ - 1]
  <2>1. s \in ShellRecords /\ (s.view = "help" <=> s.platform # "none") /\ s.hash = shell.hash
    BY <1>1, <1>3 DEF Placed, ShellRecords, Hull!HashChanges
  <2>2. shell' = Hull!Rendered(s, Hull!Read(shell.hash))
    BY <1>3 DEF Hull!HashChanges
  <2>. HIDE DEF s
  <2>3. Hull!Read(shell.hash) \in Hull!NAV
    BY <1>1, ReadType
  <2>4. LET p == Hull!Rendered(s, Hull!Read(shell.hash))
        IN  /\ p \in ShellRecords /\ p.view = Hull!Read(shell.hash) /\ p.hash = shell.hash
            /\ p.view = "help" <=> p.platform # "none"
    BY <2>1, <2>3, RenderedIsPlaced
  <2>. QED  BY <2>2, <2>4 DEF Placed
<1>4. CASE Hull!GoesBack
  <2>. DEFINE n == Len(shell.back)
  <2>1. shell.back \in Seq(Hull!Hashes) /\ n \in Nat /\ n <= MaxHistory /\ n # 0
    BY <1>1, <1>4 DEF Hull!GoesBack, ShellRecords, Backs
  <2>2. shell.back[n] \in Hull!Hashes
    BY <2>1
  <2>3. SubSeq(shell.back, 1, n - 1) \in Seq(Hull!Hashes) /\ Len(SubSeq(shell.back, 1, n - 1)) = n - 1
    BY <2>1
  <2>4. SubSeq(shell.back, 1, n - 1) \in Backs
    BY <2>1, <2>3, <1>1 DEF Backs, Hull!ShellAssumption
  <2>. DEFINE last == shell.back[n]
              front == SubSeq(shell.back, 1, n - 1)
  <2>5. shell' = [shell EXCEPT !.hash = last, !.back = front,
                               !.events = IF last = shell.hash THEN @ ELSE @ + 1]
    BY <1>4 DEF Hull!GoesBack
  <2>6. last \in Hull!Hashes /\ front \in Backs /\ shell.events + 1 \in 0..MaxEvents /\ shell.events + 1 > 0
    BY <1>1, <1>4, <2>2, <2>4 DEF Hull!GoesBack, Hull!Room
  <2>. HIDE DEF last, front, n
  <2>7. CASE last = shell.hash
    BY <1>1, <2>5, <2>6, <2>7 DEF Placed, ShellRecords
  <2>8. CASE last # shell.hash
    BY <1>1, <2>5, <2>6, <2>8 DEF Placed, ShellRecords
  <2>. QED  BY <2>7, <2>8
<1>5. CASE Hull!EditsHash
  <2>1. PICK h \in Hull!Hashes :
          shell' = [shell EXCEPT !.hash = h, !.back = Hull!Remembered(shell), !.events = @ + 1]
    BY <1>5 DEF Hull!EditsHash
  <2>2. Hull!Remembered(shell) \in Backs /\ shell.events + 1 \in 0..MaxEvents /\ shell.events + 1 > 0
    BY <1>1, <1>5, BacksGrow DEF Hull!EditsHash, Hull!Room
  <2>. QED  BY <1>1, <2>1, <2>2 DEF Placed, ShellRecords
<1>6. CASE Hull!Reloads
  <2>1. shell.back \in Backs /\ shell.stored \in Hull!Themes \cup {None} /\ shell.machine \in Machines
    BY <1>1 DEF ShellRecords
  <2>. QED  BY <1>1, <1>6, <2>1, ReadType, LoadedIsPlaced DEF Hull!Reloads
<1>7. ASSUME NEW s, Placed(s), s.events = shell.events, NEW v \in Hull!NAV, shell.events < MaxEvents,
             shell' = Hull!SetView(s, v)
      PROVE  Placed(shell')
  BY <1>7, SetViewIsPlaced
<1>8. CASE Hull!OfferDevice
  <2>1. PICK d \in Offers : shell' = Hull!SetView([shell EXCEPT !.offered = d], "roster")
    BY <1>8 DEF Hull!OfferDevice
  <2>2. PICK s : s = [shell EXCEPT !.offered = d]
    OBVIOUS
  <2>3. Placed(s) /\ s.events = shell.events
    BY <1>1, <2>2 DEF Placed, ShellRecords
  <2>. QED  BY <1>7, <1>8, <2>1, <2>2, <2>3, ReadType DEF Hull!OfferDevice, Hull!Room
<1>9. CASE Hull!PillPressed
  <2>1. PICK s : s = [shell EXCEPT !.dismissed = FALSE]
    OBVIOUS
  <2>2. Placed(s) /\ s.events = shell.events
    BY <1>1, <2>1 DEF Placed, ShellRecords
  <2>. QED  BY <1>7, <1>9, <2>1, <2>2, ReadType DEF Hull!PillPressed, Hull!Room
<1>10. CASE Hull!SummaryArrives \/ Hull!FeedTurns \/ Hull!Dismisses
  <2>1. CASE Hull!SummaryArrives
    <3>1. PICK x \in {"plain", "hint"} : shell' = [shell EXCEPT !.summary = x]
      BY <2>1 DEF Hull!SummaryArrives
    <3>. QED  BY <1>1, <3>1 DEF Placed, ShellRecords
  <2>2. CASE Hull!FeedTurns
    <3>1. PICK b \in BOOLEAN : shell' = [shell EXCEPT !.live = b]
      BY <1>1, <2>2 DEF Hull!FeedTurns, Placed, ShellRecords
    <3>. QED  BY <1>1, <3>1 DEF Placed, ShellRecords
  <2>3. CASE Hull!Dismisses
    <3>1. shell' = [shell EXCEPT !.dismissed = TRUE]
      BY <2>3 DEF Hull!Dismisses
    <3>. QED  BY <1>1, <3>1 DEF Placed, ShellRecords
  <2>. QED  BY <1>10, <2>1, <2>2, <2>3
<1>11. CASE Hull!SetTheme
  <2>1. PICK t \in Hull!Themes :
          shell' = [shell EXCEPT !.theme = t, !.stored = t] \/ shell' = [shell EXCEPT !.theme = t]
    BY <1>11 DEF Hull!SetTheme
  <2>2. CASE shell' = [shell EXCEPT !.theme = t, !.stored = t]
    BY <1>1, <2>2 DEF Placed, ShellRecords
  <2>3. CASE shell' = [shell EXCEPT !.theme = t]
    BY <1>1, <2>3 DEF Placed, ShellRecords
  <2>. QED  BY <2>1, <2>2, <2>3
<1>12. CASE Hull!PlatformArrives
  BY <1>1, <1>12 DEF Hull!PlatformArrives, Placed, ShellRecords, Platforms
<1>13. CASE UNCHANGED shell
  BY <1>13
<1>. QED
  BY <1>2, <1>3, <1>4, <1>5, <1>6, <1>8, <1>9, <1>10, <1>11, <1>12, <1>13 DEF Hull!Next

\* The ways to install, each at a place of its own.
LEMMA InstallsAre ==
    /\ DOMAIN Hull!Installs = 1..5 /\ Len(Hull!Installs) = 5
    /\ \A i, j \in 1..5 : Hull!Installs[i] = Hull!Installs[j] => i = j
<1>1. DOMAIN Hull!Installs = 1..5 /\ Len(Hull!Installs) = 5
  BY DEF Hull!Installs
<1>2. \A i \in 1..5 : i = 1 \/ i = 2 \/ i = 3 \/ i = 4 \/ i = 5
  OBVIOUS
<1>3. /\ Hull!Installs[1] = "darwin" /\ Hull!Installs[2] = "windows" /\ Hull!Installs[3] = "linux"
      /\ Hull!Installs[4] = "any" /\ Hull!Installs[5] = "docker"
  BY DEF Hull!Installs
<1>4. ASSUME NEW i \in 1..5, NEW j \in 1..5, Hull!Installs[i] = Hull!Installs[j] PROVE i = j
  BY <1>2, <1>3, <1>4
<1>. QED  BY <1>1, <1>4

\* Whatever the system, the list is the same ways, its own first and the others in order:
\* the k-th of the list is at place From(k), and every place is one of these.
LEMMA InstallsAreOrdered ==
    ASSUME NEW os, NEW list, list = Hull!OrderedInstalls(os)
    PROVE  /\ DOMAIN list = 1..5 /\ Len(list) = 5
           /\ \E From \in [1..5 -> 1..5] :
                /\ \A k \in 1..5 : list[k] = Hull!Installs[From[k]]
                /\ \A n \in 1..5 : \E k \in 1..5 : From[k] = n
                /\ \A k, l \in 1..5 : k < l /\ Hull!Installs[From[k]] # os => From[k] < From[l]
           /\ (\E n \in 1..5 : Hull!Installs[n] = os) => list[1] = os
<1>. DEFINE mine == {n \in DOMAIN Hull!Installs : Hull!Installs[n] = os}
<1>1. CASE mine = {}
  <2>1. list = Hull!Installs
    BY <1>1 DEF Hull!OrderedInstalls
  <2>. DEFINE From == [k \in 1..5 |-> k]
  <2>2. /\ From \in [1..5 -> 1..5]
        /\ \A k \in 1..5 : list[k] = Hull!Installs[From[k]]
        /\ \A n \in 1..5 : From[n] = n
    BY <2>1
  <2>. HIDE DEF From
  <2>. QED  BY <1>1, <2>1, <2>2, InstallsAre
<1>2. CASE mine # {}
  <2>. DEFINE own == CHOOSE n \in mine : TRUE
  <2>1. own \in 1..5 /\ Hull!Installs[own] = os
    BY <1>2, InstallsAre
  <2>2. list = [k \in DOMAIN Hull!Installs |->
                  IF k = 1 THEN os ELSE IF k <= own THEN Hull!Installs[k - 1] ELSE Hull!Installs[k]]
    BY <1>2 DEF Hull!OrderedInstalls
  <2>. HIDE DEF own
  <2>. DEFINE From == [k \in 1..5 |-> IF k = 1 THEN own ELSE IF k <= own THEN k - 1 ELSE k]
  <2>3. From \in [1..5 -> 1..5]
    BY <2>1
  <2>4. \A k \in 1..5 : list[k] = Hull!Installs[From[k]]
    BY <2>1, <2>2, InstallsAre
  <2>5. ASSUME NEW n \in 1..5 PROVE \E k \in 1..5 : From[k] = n
    <3>1. CASE n = own
      BY <3>1
    <3>2. CASE n < own
      <4>1. n + 1 \in 1..5 /\ From[n + 1] = n
        BY <2>1, <3>2
      <4>. QED  BY <4>1
    <3>3. CASE n > own
      <4>1. From[n] = n
        BY <2>1, <3>3
      <4>. QED  BY <4>1
    <3>. QED  BY <2>1, <3>1, <3>2, <3>3
  <2>6. ASSUME NEW k \in 1..5, NEW l \in 1..5, k < l, Hull!Installs[From[k]] # os PROVE From[k] < From[l]
    <3>1. k # 1
      BY <2>1, <2>6
    <3>. QED  BY <2>1, <2>6, <3>1
  <2>7. DOMAIN list = 1..5 /\ list[1] = os
    BY <2>2, InstallsAre
  <2>8. list \in Seq({list[k] : k \in 1..5}) /\ Len(list) = 5
    BY <2>7, <2>2, InstallsAre
  <2>. HIDE DEF From
  <2>. QED  BY <2>3, <2>4, <2>5, <2>6, <2>7, <2>8
<1>. QED  BY <1>1, <1>2

LEMMA PlacedIsHelpful == ShellInv => Hull!ViewIsOfTheAddress /\ Hull!HelpIsOfThisMachine
<1>. SUFFICES ASSUME Placed(shell) PROVE Hull!ViewIsOfTheAddress /\ Hull!HelpIsOfThisMachine
  BY DEF ShellInv
<1>1. Hull!ViewIsOfTheAddress
  BY DEF Placed, Hull!ViewIsOfTheAddress
<1>. DEFINE list == Hull!InstallsShown
            os == shell.machine.os
            Place(key) == CHOOSE n \in DOMAIN Hull!Installs : Hull!Installs[n] = key
<1>2. /\ DOMAIN list = 1..5 /\ Len(list) = 5
      /\ \E From \in [1..5 -> 1..5] :
           /\ \A k \in 1..5 : list[k] = Hull!Installs[From[k]]
           /\ \A n \in 1..5 : \E k \in 1..5 : From[k] = n
           /\ \A k, l \in 1..5 : k < l /\ Hull!Installs[From[k]] # os => From[k] < From[l]
      /\ shell.platform = "known" /\ (\E n \in 1..5 : Hull!Installs[n] = os) => list[1] = os
  <2>1. CASE shell.platform = "known"
    <3>1. list = Hull!OrderedInstalls(os)
      BY <2>1 DEF Hull!InstallsShown
    <3>. HIDE DEF list, os
    <3>. QED  BY <3>1, InstallsAreOrdered
  <2>2. CASE shell.platform # "known"
    <3>1. list = Hull!Installs
      BY <2>2 DEF Hull!InstallsShown
    <3>. DEFINE From == [k \in 1..5 |-> k]
    <3>2. From \in [1..5 -> 1..5] /\ \A n \in 1..5 : From[n] = n
      OBVIOUS
    <3>. HIDE DEF From, list, os
    <3>. QED  BY <2>2, <3>1, <3>2, InstallsAre
  <2>. QED  BY <2>1, <2>2
<1>3. PICK From \in [1..5 -> 1..5] :
        /\ \A k \in 1..5 : list[k] = Hull!Installs[From[k]]
        /\ \A n \in 1..5 : \E k \in 1..5 : From[k] = n
        /\ \A k, l \in 1..5 : k < l /\ Hull!Installs[From[k]] # os => From[k] < From[l]
  BY <1>2
<1>4. ASSUME NEW k \in 1..5 PROVE Place(list[k]) = From[k]
  BY <1>3, InstallsAre
<1>5. \A k, l \in DOMAIN list : k < l /\ os \notin {list[k], list[l]} => Place(list[k]) < Place(list[l])
  <2>. HIDE DEF list, os, Place
  <2>. QED  BY <1>2, <1>3, <1>4
<1>6. /\ Len(list) = Len(Hull!Installs)
      /\ \A n \in DOMAIN Hull!Installs : \E k \in DOMAIN list : list[k] = Hull!Installs[n]
      /\ shell.platform = "known" /\ (\E n \in DOMAIN Hull!Installs : Hull!Installs[n] = os) => list[1] = os
  <2>. HIDE DEF list, os
  <2>. QED  BY <1>2, <1>3, InstallsAre
<1>7. shell.view = "help" <=> shell.platform # "none"
  BY DEF Placed
<1>8. Hull!FactsShown => shell.view = "help" /\ Hull!BuildLine # "unknown"
  BY <1>7 DEF Hull!FactsShown, Hull!BuildLine
<1>9. Hull!BuildLine = "portable" => shell.machine.published
  BY DEF Hull!BuildLine
<1>10. Hull!FactsShown \/ Hull!BannerShown => Hull!ModeShown # "starting"
  BY DEF Hull!FactsShown, Hull!BannerShown, Hull!ModeShown
<1>. QED  BY <1>1, <1>5, <1>6, <1>7, <1>8, <1>9, <1>10 DEF Hull!HelpIsOfThisMachine

-------------------------------------------------------------------------------
\* The diagram. What is laid out is the graph held, for the size held, once both are
\* there, and no link is kept that leads outside what is laid out.
PrecinctRecords ==
    [visible : BOOLEAN, layer : Layers, asked : Layers \cup {None},
     topo : Precinct!Graphs \cup {Precinct!NoGraph}, dims : Precinct!Sizes \cup {None},
     nodes : SUBSET Precinct!Nodes, links : SUBSET Precinct!Edges, laid : Precinct!Sizes \cup {None},
     sim : {"none", "running", "still"}, cleanup : BOOLEAN, hover : Precinct!Nodes \cup {None}]

LinksAreWithin(p) == \A l \in p.links : {l[1], l[2]} \subseteq p.nodes

LaidOut(p) ==
    /\ p \in PrecinctRecords /\ LinksAreWithin(p)
    /\ p.topo # Precinct!NoGraph /\ p.dims # None => p.nodes = p.topo.nodes /\ p.laid = p.dims

PrecinctInv == LaidOut(precinct)

\* The instance counts as everybody does.
LEMMA PrecinctCounts ==
    ASSUME NEW S
    PROVE  (Precinct!IsFiniteSet(S) <=> IsFiniteSet(S)) /\ Precinct!Cardinality(S) = Cardinality(S)
BY DEF Precinct!IsFiniteSet, IsFiniteSet, Precinct!Cardinality, Cardinality

\* A set that holds another one with as many elements is that one.
LEMMA SameNodes ==
    ASSUME Precinct!PrecinctAssumption, NEW S \in SUBSET Precinct!Nodes, NEW T \in SUBSET S,
           Cardinality(S) = Cardinality(T)
    PROVE  S = T
<1>1. IsFiniteSet(Precinct!Nodes)
  <2>1. IsFiniteSet(Hosts) /\ IsFiniteSet(Orgs)
    BY PrecinctCounts DEF Precinct!PrecinctAssumption
  <2>2. Precinct!Nodes = Hosts \cup Orgs
    BY DEF Precinct!Nodes
  <2>3. IsFiniteSet(Hosts \cup Orgs)
    BY <2>1, FS_Union
  <2>. QED  BY <2>2, <2>3
<1>2. IsFiniteSet(S)
  BY <1>1, FS_Subset
<1>. QED  BY <1>2, FS_Subset

\* Whatever is held before, the effect lays out what is to be shown.
LEMMA LayOutLaysOut ==
    ASSUME Precinct!PrecinctAssumption, NEW p \in PrecinctRecords, LinksAreWithin(p)
    PROVE  LaidOut(Precinct!LayOut(p))
<1>. DEFINE sim == IF p.cleanup /\ p.sim = "running" THEN "still" ELSE p.sim
            q == [p EXCEPT !.sim = sim, !.cleanup = FALSE]
            present == {e \in p.topo.edges : {e[1], e[2]} \subseteq p.topo.nodes}
            again == IF p.nodes = {} \/ Precinct!MembershipChanged(p.nodes, p.topo.nodes)
                     THEN "running" ELSE "still"
            new == [q EXCEPT !.nodes = p.topo.nodes, !.links = present, !.laid = p.dims, !.cleanup = TRUE,
                             !.sim = again]
<1>1. sim \in {"none", "running", "still"} /\ again \in {"running", "still"}
  BY DEF PrecinctRecords
<1>2. Precinct!LayOut(p) = IF p.topo = Precinct!NoGraph \/ p.dims = None THEN q
                           ELSE IF p.sim # "none" /\ ~Precinct!StructureChanged(p) THEN q ELSE new
  BY DEF Precinct!LayOut
<1>. HIDE DEF sim, again
<1>3. /\ q \in PrecinctRecords /\ q.topo = p.topo /\ q.dims = p.dims /\ q.nodes = p.nodes
      /\ q.links = p.links /\ q.laid = p.laid
  BY <1>1 DEF PrecinctRecords
<1>4. LinksAreWithin(q)
  BY <1>3 DEF LinksAreWithin
<1>. HIDE DEF q
<1>5. CASE p.topo = Precinct!NoGraph \/ p.dims = None
  BY <1>2, <1>3, <1>4, <1>5 DEF LaidOut
<1>6. CASE p.topo # Precinct!NoGraph /\ p.dims # None /\ p.sim # "none" /\ ~Precinct!StructureChanged(p)
  <2>1. p.laid = p.dims /\ Cardinality(p.nodes) = Cardinality(p.topo.nodes) /\ p.topo.nodes \subseteq p.nodes
    <3>. HIDE DEF q, present, new
    <3>1. /\ p.laid = p.dims
          /\ Precinct!Cardinality(p.nodes) = Precinct!Cardinality(p.topo.nodes)
          /\ p.topo.nodes \subseteq p.nodes
      BY <1>6, Zenon DEF Precinct!StructureChanged
    <3>. QED  BY <3>1, PrecinctCounts
  <2>2. p.nodes = p.topo.nodes
    BY <2>1, SameNodes DEF PrecinctRecords
  <2>. QED  BY <1>2, <1>3, <1>4, <1>6, <2>1, <2>2 DEF LaidOut
<1>7. CASE p.topo # Precinct!NoGraph /\ p.dims # None /\ ~(p.sim # "none" /\ ~Precinct!StructureChanged(p))
  <2>1. p.topo \in Precinct!Graphs
    BY <1>7 DEF PrecinctRecords
  <2>2. p.topo.nodes \subseteq Precinct!Nodes /\ present \subseteq Precinct!Edges
    BY <2>1 DEF Precinct!Graphs
  <2>3. \A l \in present : {l[1], l[2]} \subseteq p.topo.nodes
    OBVIOUS
  <2>. HIDE DEF present
  <2>4. /\ new \in PrecinctRecords /\ new.topo = p.topo /\ new.dims = p.dims /\ new.nodes = p.topo.nodes
        /\ new.links = present /\ new.laid = p.dims
    BY <1>1, <1>3, <2>2 DEF PrecinctRecords
  <2>5. Precinct!LayOut(p) = new
    BY <1>2, <1>7
  <2>. HIDE DEF new
  <2>. QED  BY <2>3, <2>4, <2>5 DEF LaidOut, LinksAreWithin
<1>. QED  BY <1>5, <1>6, <1>7

LEMMA PrecinctInit == Precinct!PrecinctAssumption /\ Precinct!Init => PrecinctInv
<1>. SUFFICES ASSUME NEW l \in Layers,
                     precinct = [visible |-> TRUE, layer |-> l, asked |-> l, topo |-> Precinct!NoGraph,
                                 dims |-> None, nodes |-> {}, links |-> {}, laid |-> None,
                                 sim |-> "none", cleanup |-> FALSE, hover |-> None]
              PROVE  PrecinctInv
  BY DEF Precinct!Init
<1>1. precinct \in PrecinctRecords
  BY DEF PrecinctRecords
<1>. QED  BY <1>1 DEF PrecinctInv, LaidOut, LinksAreWithin

LEMMA AskingKeeps ==
    ASSUME NEW p, LaidOut(p)
    PROVE  LaidOut(Precinct!Asking(p))
<1>1. CASE p.asked = None
  <2>1. Precinct!Asking(p) = [p EXCEPT !.asked = p.layer]
    BY <1>1 DEF Precinct!Asking
  <2>. QED  BY <2>1 DEF LaidOut, LinksAreWithin, PrecinctRecords
<1>2. CASE p.asked # None
  BY <1>2 DEF Precinct!Asking
<1>. QED  BY <1>1, <1>2

LEMMA PrecinctStep == Precinct!PrecinctAssumption /\ PrecinctInv /\ [Precinct!Next]_precinct => PrecinctInv'
<1>. SUFFICES ASSUME Precinct!PrecinctAssumption, LaidOut(precinct), [Precinct!Next]_precinct
              PROVE  LaidOut(precinct')
  BY DEF PrecinctInv
<1>1. precinct \in PrecinctRecords /\ LinksAreWithin(precinct)
  BY DEF LaidOut
<1>2. CASE Precinct!SimulationCools
  BY <1>2 DEF Precinct!SimulationCools, LaidOut, LinksAreWithin, PrecinctRecords
<1>3. CASE Precinct!Resized
  <2>1. PICK d \in Precinct!Sizes : precinct' = Precinct!LayOut([precinct EXCEPT !.dims = d])
    BY <1>3 DEF Precinct!Resized
  <2>2. PICK p : p = [precinct EXCEPT !.dims = d]
    OBVIOUS
  <2>3. p \in PrecinctRecords /\ LinksAreWithin(p)
    BY <1>1, <2>2 DEF PrecinctRecords, LinksAreWithin
  <2>. QED  BY <2>1, <2>2, <2>3, LayOutLaysOut
<1>4. CASE Precinct!Poll \/ Precinct!RefreshPressed
  BY <1>4, AskingKeeps DEF Precinct!Poll, Precinct!RefreshPressed
<1>5. CASE Precinct!VisibilityChanges
  <2>1. PICK p : p = [precinct EXCEPT !.visible = ~@]
    OBVIOUS
  <2>2. LaidOut(p)
    BY <2>1 DEF LaidOut, PrecinctRecords, LinksAreWithin
  <2>3. precinct' = IF p.visible THEN Precinct!Asking(p) ELSE p
    BY <1>5, <2>1 DEF Precinct!VisibilityChanges
  <2>. QED  BY <2>2, <2>3, AskingKeeps
<1>6. CASE Precinct!LayerChanges
  <2>1. PICK l \in Layers : precinct' = Precinct!Asking([precinct EXCEPT !.layer = l])
    BY <1>6 DEF Precinct!LayerChanges
  <2>2. PICK p : p = [precinct EXCEPT !.layer = l]
    OBVIOUS
  <2>3. LaidOut(p)
    BY <2>2 DEF LaidOut, PrecinctRecords, LinksAreWithin
  <2>. QED  BY <2>1, <2>2, <2>3, AskingKeeps
<1>7. CASE Precinct!TopologyArrives
  <2>1. PICK g \in Precinct!Graphs : precinct' = Precinct!LayOut([precinct EXCEPT !.asked = None, !.topo = g])
    BY <1>7 DEF Precinct!TopologyArrives
  <2>2. PICK p : p = [precinct EXCEPT !.asked = None, !.topo = g]
    OBVIOUS
  <2>3. p \in PrecinctRecords /\ LinksAreWithin(p)
    BY <1>1, <2>2 DEF PrecinctRecords, LinksAreWithin
  <2>. QED  BY <2>1, <2>2, <2>3, LayOutLaysOut
<1>8. CASE Precinct!TopologyFails
  BY <1>8 DEF Precinct!TopologyFails, LaidOut, LinksAreWithin, PrecinctRecords
<1>9. CASE Precinct!Move
  <2>1. PICK n \in Precinct!Nodes \cup {None} : precinct' = [precinct EXCEPT !.hover = n]
    BY <1>1, <1>9 DEF Precinct!Move, PrecinctRecords
  <2>. QED  BY <2>1 DEF LaidOut, LinksAreWithin, PrecinctRecords
<1>10. CASE UNCHANGED precinct
  BY <1>10
<1>. QED  BY <1>2, <1>3, <1>4, <1>5, <1>6, <1>7, <1>8, <1>9, <1>10 DEF Precinct!Next

LEMMA LaidOutIsDrawn == PrecinctInv => Precinct!DiagramShowsTheGraph /\ Precinct!DrawingHangsTogether
<1>. SUFFICES ASSUME LaidOut(precinct) PROVE Precinct!DiagramShowsTheGraph /\ Precinct!DrawingHangsTogether
  BY DEF PrecinctInv
<1>1. Precinct!DiagramShowsTheGraph
  BY DEF LaidOut, Precinct!DiagramShowsTheGraph, Precinct!EmptyNoteShown, Precinct!Labelled
<1>2. precinct.hover \notin precinct.nodes => Precinct!TouchedLinks = {}
  BY DEF LaidOut, LinksAreWithin, Precinct!TouchedLinks
<1>3. precinct.hover \in precinct.nodes => precinct.hover \in Precinct!Labelled
  BY DEF Precinct!Labelled
<1>. QED  BY <1>1, <1>2, <1>3 DEF LaidOut, LinksAreWithin, Precinct!DrawingHangsTogether

-------------------------------------------------------------------------------
\* The findings of the card. Before is a strict order that compares any two, so that a
\* place is every row's own and every place is taken.

LEMMA CardCounts ==
    ASSUME NEW S
    PROVE  Card!Cardinality(S) = Cardinality(S)
BY DEF Card!Cardinality, Cardinality

LEMMA CardAnswer ==
    ASSUME Card!MostWantedAssumption, NEW fs \in Card!Answers
    PROVE  \E n \in 0..Asked : fs \in [1..n -> [score : Scores, ts : Times]]
BY DEF Card!Answers

\* What is ranked of an answer.
LEMMA CardRanks ==
    ASSUME Card!MostWantedAssumption, Card!CardShown, NEW n \in Nat,
           card.found \in [1..n -> [score : Scores, ts : Times]]
    PROVE  /\ Card!Ranked \in [1..n -> 1..n]
           /\ \A k, l \in 1..n : k < l => Card!Before(Card!Ranked[k], Card!Ranked[l])
           /\ \A i \in 1..n : \E k \in 1..n : Card!Ranked[k] = i
<1>. DEFINE fs == card.found
            R == {p \in (1..n) \X (1..n) : Card!Before(p[1], p[2])}
            P == PlaceIn(n, R)
<1>1. \A i \in 1..n : fs[i].score \in Int /\ fs[i].ts \in Int
  <2>1. \A i \in 1..n : fs[i].score \in Scores /\ fs[i].ts \in Times
    OBVIOUS
  <2>2. Scores \subseteq Int /\ Times \subseteq Int
    BY DEF Card!MostWantedAssumption
  <2>. QED  BY <2>1, <2>2
<1>2. \A i, j \in 1..n : <<i, j>> \in R <=> Card!Before(i, j)
  OBVIOUS
<1>3. \A i, j \in 1..n :
        Card!Before(i, j) <=> \/ fs[i].score > fs[j].score
                              \/ fs[i].score = fs[j].score /\ fs[i].ts > fs[j].ts
                              \/ fs[i].score = fs[j].score /\ fs[i].ts = fs[j].ts /\ i < j
  BY DEF Card!Before
<1>. HIDE DEF R, fs
<1>4. \A i \in 1..n : <<i, i>> \notin R
  BY <1>1, <1>2, <1>3
<1>5. \A i, j \in 1..n : i # j => <<i, j>> \in R \/ <<j, i>> \in R
  BY <1>1, <1>2, <1>3
<1>6. \A i, j, k \in 1..n : <<i, j>> \in R /\ <<j, k>> \in R => <<i, k>> \in R
  <2>1. ASSUME NEW i \in 1..n, NEW j \in 1..n, NEW k \in 1..n, Card!Before(i, j), Card!Before(j, k)
        PROVE  Card!Before(i, k)
    <3>1. /\ fs[i].score \in Int /\ fs[j].score \in Int /\ fs[k].score \in Int
          /\ fs[i].ts \in Int /\ fs[j].ts \in Int /\ fs[k].ts \in Int
      BY <1>1
    <3>. QED  BY <1>3, <2>1, <3>1
  <2>. QED  BY <1>2, <2>1
<1>. HIDE DEF P
<1>7. /\ P \in [1..n -> 1..n]
      /\ \A i, j \in 1..n : <<i, j>> \in R => P[i] < P[j]
      /\ \A k \in 1..n : \E i \in 1..n : P[i] = k
  BY <1>4, <1>5, <1>6, PlacesAreTaken DEF P
<1>8. ASSUME NEW i \in 1..n PROVE P[i] = Card!Place(i)
  <2>1. {j \in DOMAIN card.found : Card!Before(j, i)} = {j \in 1..n : <<j, i>> \in R}
    BY <1>2
  <2>. QED  BY <2>1, CardCounts DEF P, PlaceIn, Card!Place
<1>9. \A i, j \in 1..n : P[i] = P[j] => i = j
  <2>. SUFFICES ASSUME NEW i \in 1..n, NEW j \in 1..n, P[i] = P[j], i # j PROVE FALSE
    OBVIOUS
  <2>1. P[i] < P[j] \/ P[j] < P[i]
    BY <1>5, <1>7
  <2>2. P[i] \in Nat /\ P[j] \in Nat
    BY <1>7
  <2>. QED  BY <2>1, <2>2
<1>10. Card!Ranked = [k \in 1..n |-> CHOOSE i \in 1..n : Card!Place(i) = k]
  BY DEF Card!Ranked
<1>11. ASSUME NEW k \in 1..n PROVE Card!Ranked[k] \in 1..n /\ P[Card!Ranked[k]] = k
  BY <1>7, <1>8, <1>10
<1>12. Card!Ranked \in [1..n -> 1..n]
  BY <1>10, <1>11
<1>13. ASSUME NEW k \in 1..n, NEW l \in 1..n, k < l PROVE Card!Before(Card!Ranked[k], Card!Ranked[l])
  <2>. DEFINE i == Card!Ranked[k]
              j == Card!Ranked[l]
  <2>1. i \in 1..n /\ j \in 1..n /\ P[i] = k /\ P[j] = l
    BY <1>11
  <2>. HIDE DEF i, j
  <2>2. k \in Int /\ l \in Int /\ k < l
    BY <1>13
  <2>3. <<j, i>> \notin R /\ i # j
    <3>1. <<j, i>> \in R => P[j] < P[i]
      BY <1>7, <2>1
    <3>. QED  BY <2>1, <2>2, <3>1
  <2>4. <<i, j>> \in R
    BY <1>5, <2>1, <2>3
  <2>5. Card!Before(i, j)
    BY <1>2, <2>1, <2>4
  <2>. QED  BY <2>5 DEF i, j
<1>14. ASSUME NEW i \in 1..n PROVE \E k \in 1..n : Card!Ranked[k] = i
  <2>1. P[i] \in 1..n
    BY <1>7
  <2>2. Card!Ranked[P[i]] \in 1..n /\ P[Card!Ranked[P[i]]] = P[i]
    BY <1>11, <2>1
  <2>3. Card!Ranked[P[i]] = i
    BY <1>9, <2>2
  <2>. QED  BY <2>1, <2>3
<1>. QED  BY <1>12, <1>13, <1>14

\* The rows listed are read off the answer and nothing else.
ShownOf(fs) ==
    LET Ahead(i, j) ==
            LET f == fs[i]
                g == fs[j]
            IN  \/ f.score > g.score
                \/ f.score = g.score /\ (f.ts > g.ts \/ (f.ts = g.ts /\ i < j))
        At(i) == 1 + Card!Cardinality({j \in DOMAIN fs : Ahead(j, i)})
        rows == [k \in DOMAIN fs |-> CHOOSE i \in DOMAIN fs : At(i) = k]
    IN  SubSeq(rows, 1, IF Len(rows) < Card!Rows THEN Len(rows) ELSE Card!Rows)

LEMMA CardShownOf == Card!Shown = ShownOf(card.found) /\ Card!Shown' = ShownOf(card'.found)
BY DEF ShownOf, Card!Shown, Card!Ranked, Card!Place, Card!Before

\* A row that is open is one of those listed.
CardInv ==
    /\ Card!TypeOK
    /\ card.opened # 0 => Card!CardShown /\ \E k \in DOMAIN ShownOf(card.found) : ShownOf(card.found)[k] = card.opened

\* The first few of the ranked.
LEMMA CardRows ==
    ASSUME NEW n \in Nat, Card!Ranked \in [1..n -> 1..n]
    PROVE  \E l \in 0..Card!Rows :
             /\ l = (IF n < Card!Rows THEN n ELSE Card!Rows)
             /\ Len(Card!Ranked) = n
             /\ Card!Shown \in [1..l -> 1..n] /\ Len(Card!Shown) = l
             /\ \A k \in 1..l : Card!Shown[k] = Card!Ranked[k]
<1>. DEFINE l == IF n < Card!Rows THEN n ELSE Card!Rows
<1>1. l \in 0..Card!Rows /\ l <= n /\ l \in Nat
  BY DEF Card!Rows
<1>2. Len(Card!Ranked) = n /\ Card!Ranked \in Seq(1..n)
  OBVIOUS
<1>3. Card!Shown = SubSeq(Card!Ranked, 1, l)
  BY <1>2 DEF Card!Shown
<1>. HIDE DEF l
<1>4. /\ Card!Shown \in [1..l -> 1..n] /\ Len(Card!Shown) = l
      /\ \A k \in 1..l : Card!Shown[k] = Card!Ranked[k]
  <2>1. PICK r : r = Card!Ranked
    OBVIOUS
  <2>2. r \in Seq(1..n) /\ l \in 0..Len(r) /\ Card!Shown = SubSeq(r, 1, l)
    BY <1>1, <1>2, <1>3, <2>1
  <2>3. PICK t : t = SubSeq(r, 1, l)
    OBVIOUS
  <2>4. t \in [1..l -> 1..n] /\ Len(t) = l /\ \A k \in 1..l : t[k] = r[k]
    BY <2>2, <2>3, Front
  <2>. QED  BY <2>1, <2>2, <2>3, <2>4
<1>. QED  BY <1>1, <1>2, <1>4 DEF l

LEMMA CardShows == Card!MostWantedAssumption /\ CardInv => Card!WorstAreShown
<1>. SUFFICES ASSUME Card!MostWantedAssumption, CardInv, Card!CardShown PROVE Card!WorstAreShown
  BY DEF Card!WorstAreShown
<1>1. card.found \in Card!Answers
  BY DEF CardInv, Card!TypeOK, Card!CardShown
<1>2. PICK n \in 0..Asked : card.found \in [1..n -> [score : Scores, ts : Times]]
  BY <1>1, CardAnswer
<1>3. /\ n \in Nat /\ DOMAIN card.found = 1..n
      /\ \A i \in 1..n : card.found[i].score \in Int /\ card.found[i].ts \in Int
  <2>1. \A i \in 1..n : card.found[i].score \in Scores /\ card.found[i].ts \in Times
    BY <1>2
  <2>2. Scores \subseteq Int /\ Times \subseteq Int /\ Asked \in Nat
    BY DEF Card!MostWantedAssumption
  <2>3. n \in Nat /\ DOMAIN card.found = 1..n
    BY <1>2, <2>2
  <2>. QED  BY <2>1, <2>2, <2>3
<1>4. /\ Card!Ranked \in [1..n -> 1..n]
      /\ \A k, l \in 1..n : k < l => Card!Before(Card!Ranked[k], Card!Ranked[l])
      /\ \A i \in 1..n : \E k \in 1..n : Card!Ranked[k] = i
  BY <1>2, <1>3, CardRanks
<1>5. PICK l \in 0..Card!Rows :
        /\ l = (IF n < Card!Rows THEN n ELSE Card!Rows)
        /\ Len(Card!Ranked) = n
        /\ Card!Shown \in [1..l -> 1..n] /\ Len(Card!Shown) = l
        /\ \A k \in 1..l : Card!Shown[k] = Card!Ranked[k]
  BY <1>3, <1>4, CardRows
<1>6. l \in Nat /\ l <= n /\ l <= Card!Rows /\ DOMAIN Card!Shown = 1..l /\ (n < Card!Rows => l = n) /\ (l = 0 <=> n = 0)
  BY <1>3, <1>5 DEF Card!Rows
<1>7. \A k, m \in 1..n : k < m => /\ Card!Ranked[k] # Card!Ranked[m]
                                  /\ card.found[Card!Ranked[k]].score >= card.found[Card!Ranked[m]].score
                                  /\ card.found[Card!Ranked[k]].score = card.found[Card!Ranked[m]].score =>
                                       card.found[Card!Ranked[k]].ts >= card.found[Card!Ranked[m]].ts
  <2>1. \A i, j \in 1..n : Card!Before(i, j) =>
          /\ i # j /\ card.found[i].score >= card.found[j].score
          /\ card.found[i].score = card.found[j].score => card.found[i].ts >= card.found[j].ts
    BY <1>3 DEF Card!Before
  <2>. QED  BY <1>4, <2>1
<1>. DEFINE listed == {Card!Shown[k] : k \in DOMAIN Card!Shown}
            left == DOMAIN card.found \ listed
            Stars(i) == Card!StarsFor(card.found[i].score)
<1>8. Len(Card!Shown) <= Card!Rows /\ (Card!Quiet <=> Card!Shown = <<>>)
  <2>1. card.found = <<>> <=> n = 0
    BY <1>2, <1>3
  <2>2. Card!Shown = <<>> <=> l = 0
    BY <1>5, <1>6
  <2>. QED  BY <1>5, <1>6, <2>1, <2>2 DEF Card!Quiet
<1>9. Card!Extra = Card!Cardinality(left)
  <2>1. Card!Shown \in Bijection(1..l, listed)
    <3>1. Card!Shown \in [1..l -> listed]
      BY <1>5, <1>6
    <3>2. \A k, m \in 1..l : Card!Shown[k] = Card!Shown[m] => k = m
      <4>. SUFFICES ASSUME NEW k \in 1..l, NEW m \in 1..l, Card!Shown[k] = Card!Shown[m], k # m PROVE FALSE
        OBVIOUS
      <4>1. Card!Ranked[k] = Card!Ranked[m] /\ k \in 1..n /\ m \in 1..n
        BY <1>3, <1>5, <1>6
      <4>. QED  BY <1>7, <4>1
    <3>. QED  BY <3>1, <3>2, <1>6 DEF Bijection, Injection, Surjection, IsInjective
  <2>. HIDE DEF listed
  <2>2. IsFiniteSet(1..l) /\ Cardinality(1..l) = l /\ IsFiniteSet(1..n) /\ Cardinality(1..n) = n
    <3>1. l \in Int /\ 1 \in Int /\ n \in Int /\ l >= 0 /\ n >= 0
      BY <1>3, <1>6
    <3>2. /\ IsFiniteSet(1..l) /\ Cardinality(1..l) = (IF 1 > l THEN 0 ELSE l - 1 + 1)
          /\ IsFiniteSet(1..n) /\ Cardinality(1..n) = (IF 1 > n THEN 0 ELSE n - 1 + 1)
      BY <3>1, FS_Interval
    <3>. QED  BY <3>1, <3>2
  <2>3. Cardinality(listed) = l
    BY <2>1, <2>2, FS_Bijection DEF ExistsBijection
  <2>4. listed \subseteq 1..n
    BY <1>5, <1>6 DEF listed
  <2>5. Cardinality((1..n) \ listed) = n - l
    <3>1. (1..n) \cap listed = listed
      BY <2>4
    <3>2. Cardinality((1..n) \ listed) = Cardinality(1..n) - Cardinality((1..n) \cap listed)
      BY <2>2, FS_Difference
    <3>. QED  BY <2>2, <2>3, <3>1, <3>2
  <2>6. left = (1..n) \ listed
    BY <1>3
  <2>7. Card!Extra = n - l
    BY <1>5 DEF Card!Extra
  <2>. QED  BY <2>5, <2>6, <2>7, CardCounts
<1>10. \A k, m \in DOMAIN Card!Shown : k < m =>
         /\ Card!Shown[k] # Card!Shown[m]
         /\ card.found[Card!Shown[k]].score >= card.found[Card!Shown[m]].score
         /\ card.found[Card!Shown[k]].score = card.found[Card!Shown[m]].score =>
              card.found[Card!Shown[k]].ts >= card.found[Card!Shown[m]].ts
  <2>1. \A k \in 1..l : k \in 1..n
    BY <1>3, <1>6
  <2>. QED  BY <1>5, <1>6, <1>7, <2>1
<1>11. ASSUME NEW i \in left, NEW m \in DOMAIN Card!Shown PROVE Stars(i) <= Stars(Card!Shown[m])
  <2>1. PICK k \in 1..n : Card!Ranked[k] = i
    BY <1>3, <1>4, <1>11
  <2>2. m \in 1..l /\ m \in 1..n /\ Card!Shown[m] = Card!Ranked[m]
    BY <1>3, <1>5, <1>6
  <2>3. k \notin 1..l
    BY <1>5, <1>6, <1>11, <2>1
  <2>4. m < k
    BY <1>3, <1>6, <2>1, <2>2, <2>3
  <2>5. card.found[Card!Ranked[m]].score >= card.found[i].score
    BY <1>7, <2>1, <2>2, <2>4
  <2>6. \A a, b \in Int : a >= b => Card!StarsFor(b) <= Card!StarsFor(a)
    BY DEF Card!StarsFor
  <2>7. Card!Ranked[m] \in 1..n /\ i \in 1..n
    BY <1>4, <2>1, <2>2
  <2>. QED  BY <1>3, <2>2, <2>5, <2>6, <2>7
<1>12. card.opened # 0 => card.opened \notin left
  BY CardShownOf DEF CardInv
<1>. HIDE DEF listed
<1>. QED  BY <1>8, <1>9, <1>10, <1>11, <1>12 DEF Card!WorstAreShown, listed

LEMMA CardInit == Card!MostWantedAssumption /\ Card!Init => CardInv
BY DEF Card!MostWantedAssumption, Card!Init, CardInv, Card!TypeOK

LEMMA CardStep == Card!MostWantedAssumption /\ CardInv /\ [Card!Next]_card => CardInv'
<1>. SUFFICES ASSUME Card!MostWantedAssumption, CardInv, [Card!Next]_card PROVE CardInv'
  OBVIOUS
<1>1. CASE Card!Arrives
  <2>1. PICK fs \in Card!Answers : card' = [found |-> fs, opened |-> 0]
    BY <1>1 DEF Card!Arrives
  <2>. QED  BY <2>1 DEF CardInv, Card!TypeOK, Card!MostWantedAssumption
<1>2. CASE Card!Opens
  <2>1. PICK k \in DOMAIN Card!Shown : card' = [card EXCEPT !.opened = Card!Shown[k]]
    BY <1>2 DEF Card!Opens
  <2>2. Card!CardShown /\ card.found \in Card!Answers
    BY <1>2 DEF Card!Opens, Card!CardShown, CardInv, Card!TypeOK
  <2>3. PICK n \in 0..Asked : card.found \in [1..n -> [score : Scores, ts : Times]]
    BY <2>2, CardAnswer
  <2>4. n \in Nat /\ Asked \in Nat /\ n <= Asked
    BY <2>3 DEF Card!MostWantedAssumption
  <2>5. Card!Ranked \in [1..n -> 1..n]
    BY <2>2, <2>3, <2>4, CardRanks
  <2>6. PICK l \in 0..Card!Rows : Card!Shown \in [1..l -> 1..n]
    BY <2>4, <2>5, CardRows
  <2>7. PICK i : i = Card!Shown[k]
    OBVIOUS
  <2>8. i \in 0..Asked
    BY <2>1, <2>4, <2>6, <2>7
  <2>9. card' = [card EXCEPT !.opened = i]
    BY <2>1, <2>7
  <2>10. card'.found = card.found /\ card'.opened = i /\ Card!TypeOK'
    BY <2>8, <2>9 DEF CardInv, Card!TypeOK
  <2>11. \E m \in DOMAIN ShownOf(card.found) : ShownOf(card.found)[m] = i
    BY <2>1, <2>7, CardShownOf
  <2>12. Card!CardShown'
    BY <2>2, <2>10 DEF Card!CardShown
  <2>. QED  BY <2>10, <2>11, <2>12 DEF CardInv
<1>3. CASE UNCHANGED card
  BY <1>3 DEF CardInv, Card!TypeOK, Card!CardShown
<1>. QED  BY <1>1, <1>2, <1>3 DEF Card!Next

-------------------------------------------------------------------------------
\* The code's field. Its operators count: the characters of a code among the first i, and
\* the place of the n-th of them.

LEMMA JoinCounts ==
    ASSUME NEW S
    PROVE  Join!Cardinality(S) = Cardinality(S)
BY DEF Join!Cardinality, Cardinality

LEMMA CountedSteps ==
    ASSUME NEW s
    PROVE  /\ Join!Counted(s, 0) = 0
           /\ \A i \in Nat : /\ Join!Counted(s, i) \in Nat /\ Join!Counted(s, i) <= i
                             /\ Join!Counted(s, i + 1) = Join!Counted(s, i) + (IF Join!InCode(s[i + 1]) THEN 1 ELSE 0)
<1>. DEFINE among(i) == {j \in 1..i : Join!InCode(s[j])}
<1>1. \A i \in Nat : Join!Counted(s, i) = Cardinality(among(i))
  BY JoinCounts DEF Join!Counted
<1>2. among(0) = {}
  OBVIOUS
<1>3. ASSUME NEW i \in Nat PROVE IsFiniteSet(among(i)) /\ Cardinality(among(i)) \in 0..i
  <2>1. IsFiniteSet(1..i) /\ Cardinality(1..i) = i
    BY FS_Interval
  <2>2. among(i) \subseteq 1..i
    OBVIOUS
  <2>. HIDE DEF among
  <2>3. IsFiniteSet(among(i)) /\ Cardinality(among(i)) <= i
    BY <2>1, <2>2, FS_Subset
  <2>4. Cardinality(among(i)) \in Nat
    BY <2>3, FS_CardinalityType
  <2>. QED  BY <2>3, <2>4
<1>4. ASSUME NEW i \in Nat
      PROVE  among(i + 1) = (IF Join!InCode(s[i + 1]) THEN among(i) \cup {i + 1} ELSE among(i)) /\ i + 1 \notin among(i)
  <2>1. 1..(i + 1) = (1..i) \cup {i + 1} /\ i + 1 \notin 1..i
    OBVIOUS
  <2>. QED  BY <2>1
<1>. HIDE DEF among
<1>5. ASSUME NEW i \in Nat
      PROVE  Cardinality(among(i + 1)) = Cardinality(among(i)) + (IF Join!InCode(s[i + 1]) THEN 1 ELSE 0)
  <2>1. IsFiniteSet(among(i)) /\ Cardinality(among(i)) \in Nat
    BY <1>3
  <2>2. CASE Join!InCode(s[i + 1])
    <3>1. among(i + 1) = among(i) \cup {i + 1} /\ i + 1 \notin among(i)
      BY <1>4, <2>2
    <3>2. Cardinality(among(i + 1)) = Cardinality(among(i)) + 1
      BY <2>1, <3>1, FS_AddElement
    <3>. QED  BY <2>2, <3>2
  <2>3. CASE ~Join!InCode(s[i + 1])
    <3>1. among(i + 1) = among(i)
      BY <1>4, <2>3
    <3>. QED  BY <2>1, <2>3, <3>1
  <2>. QED  BY <2>2, <2>3
<1>6. Cardinality(among(0)) = 0
  BY <1>2, FS_EmptySet
<1>. QED  BY <1>1, <1>3, <1>5, <1>6

\* The further, the more; and nothing beyond counts.
LEMMA CountedGrows ==
    ASSUME NEW s, NEW i \in Nat, NEW j \in Nat, i <= j
    PROVE  Join!Counted(s, i) <= Join!Counted(s, j)
<1>. DEFINE short == {k \in Nat : i <= k /\ Join!Counted(s, k) < Join!Counted(s, i)}
<1>1. \A k \in Nat : Join!Counted(s, k) \in Nat
  BY CountedSteps
<1>2. CASE short # {}
  <2>1. PICK k \in short : \A m \in short : k <= m
    BY <1>2, Least
  <2>2. k # i /\ k - 1 \in Nat /\ i <= k - 1
    BY <1>1, <2>1
  <2>3. Join!Counted(s, k - 1) <= Join!Counted(s, k)
    <3>1. Join!Counted(s, (k - 1) + 1) = Join!Counted(s, k - 1) + (IF Join!InCode(s[(k - 1) + 1]) THEN 1 ELSE 0)
      BY <2>2, CountedSteps
    <3>2. (k - 1) + 1 = k
      BY <2>1
    <3>. QED  BY <1>1, <2>2, <3>1, <3>2
  <2>4. k - 1 \in short
    BY <1>1, <2>1, <2>2, <2>3
  <2>. QED  BY <2>1, <2>4
<1>3. CASE short = {}
  BY <1>1, <1>3
<1>. QED  BY <1>2, <1>3

LEMMA CountedAlike ==
    ASSUME NEW s, NEW t, NEW i \in Nat, \A j \in 1..i : s[j] = t[j]
    PROVE  Join!Counted(s, i) = Join!Counted(t, i)
<1>1. {j \in 1..i : Join!InCode(s[j])} = {j \in 1..i : Join!InCode(t[j])}
  OBVIOUS
<1>. QED  BY <1>1 DEF Join!Counted

\* The n-th has a place, and only one.
LEMMA NthStands ==
    ASSUME NEW s, Len(s) \in Nat, NEW n \in 1..Join!Counted(s, Len(s))
    PROVE  /\ Join!Nth(s, n) \in 1..Len(s) /\ Join!InCode(s[Join!Nth(s, n)])
           /\ Join!Counted(s, Join!Nth(s, n)) = n
<1>. DEFINE reached == {i \in Nat : i <= Len(s) /\ Join!Counted(s, i) >= n}
<1>1. \A k \in Nat : Join!Counted(s, k) \in Nat
  BY CountedSteps
<1>2. Len(s) \in reached /\ n \in Nat
  BY <1>1
<1>3. PICK i \in reached : \A j \in reached : i <= j
  BY <1>2, Least
<1>4. i \in 1..Len(s) /\ i - 1 \in Nat
  <2>1. Join!Counted(s, 0) = 0 /\ n >= 1
    BY CountedSteps
  <2>2. i # 0
    BY <1>3, <2>1
  <2>. QED  BY <1>3, <2>2
<1>5. Join!Counted(s, i - 1) < n
  <2>1. i - 1 \notin reached
    BY <1>3, <1>4
  <2>2. Join!Counted(s, i - 1) \in Nat
    BY <1>1, <1>4
  <2>. QED  BY <1>2, <1>4, <2>1, <2>2
<1>6. Join!Counted(s, i) = Join!Counted(s, i - 1) + (IF Join!InCode(s[i]) THEN 1 ELSE 0)
  <2>1. (i - 1) + 1 = i
    BY <1>4
  <2>2. Join!Counted(s, (i - 1) + 1) = Join!Counted(s, i - 1) + (IF Join!InCode(s[(i - 1) + 1]) THEN 1 ELSE 0)
    BY <1>4, CountedSteps
  <2>. QED  BY <2>1, <2>2
<1>7. Join!InCode(s[i]) /\ Join!Counted(s, i) = n
  <2>1. Join!Counted(s, i) \in Nat /\ Join!Counted(s, i - 1) \in Nat /\ Join!Counted(s, i) >= n
    BY <1>1, <1>3, <1>4
  <2>. HIDE DEF reached
  <2>. QED  BY <1>2, <1>5, <1>6, <2>1
<1>. QED  BY <1>4, <1>7 DEF Join!Nth

LEMMA OneNth ==
    ASSUME NEW s, NEW i \in Nat \ {0}, NEW j \in Nat \ {0}, Join!InCode(s[i]), Join!InCode(s[j]),
           Join!Counted(s, i) = Join!Counted(s, j)
    PROVE  i = j
<1>1. ASSUME NEW a \in Nat \ {0}, NEW b \in Nat \ {0}, Join!InCode(s[b]), a < b
      PROVE  Join!Counted(s, a) < Join!Counted(s, b)
  <2>1. b - 1 \in Nat /\ (b - 1) + 1 = b /\ a <= b - 1
    BY <1>1
  <2>2. Join!Counted(s, (b - 1) + 1) = Join!Counted(s, b - 1) + (IF Join!InCode(s[(b - 1) + 1]) THEN 1 ELSE 0)
    BY <2>1, CountedSteps
  <2>3. Join!Counted(s, b) = Join!Counted(s, b - 1) + 1
    BY <1>1, <2>1, <2>2
  <2>4. Join!Counted(s, a) <= Join!Counted(s, b - 1)
    BY <2>1, CountedGrows
  <2>5. Join!Counted(s, a) \in Nat /\ Join!Counted(s, b - 1) \in Nat
    BY <2>1, CountedSteps
  <2>. QED  BY <2>3, <2>4, <2>5
<1>2. Join!Counted(s, i) \in Nat /\ Join!Counted(s, j) \in Nat
  BY CountedSteps
<1>3. ~(i < j) /\ ~(j < i)
  BY <1>1, <1>2
<1>. QED  BY <1>3

\* What is kept of what is typed is a code, in the order typed.
LEMMA KeptIs ==
    ASSUME NEW s, Len(s) \in Nat
    PROVE  /\ Join!Kept(s) \in Seq(Alphabet) /\ Len(Join!Kept(s)) = Join!Counted(s, Len(s))
           /\ \A n \in 1..Join!Counted(s, Len(s)) : Join!Kept(s)[n] = Join!Folded(s[Join!Nth(s, n)])
<1>. DEFINE m == Join!Counted(s, Len(s))
<1>1. m \in Nat
  BY CountedSteps
<1>2. \A n \in 1..m : Join!Folded(s[Join!Nth(s, n)]) \in Alphabet
  BY NthStands DEF Join!InCode
<1>3. Join!Kept(s) = [n \in 1..m |-> Join!Folded(s[Join!Nth(s, n)])]
  BY DEF Join!Kept
<1>. HIDE DEF m
<1>4. Join!Kept(s) \in [1..m -> Alphabet]
  BY <1>2, <1>3
<1>5. Join!Kept(s) \in Seq(Alphabet) /\ Len(Join!Kept(s)) = m
  BY <1>1, <1>4
<1>. QED  BY <1>3, <1>5 DEF m

\* What is kept of the beginning is the beginning of what is kept.
LEMMA KeptOfFront ==
    ASSUME NEW S, NEW s \in Seq(S), NEW c \in 0..Len(s)
    PROVE  /\ Join!Counted(s, c) \in 0..Len(Join!Kept(s))
           /\ Join!Kept(SubSeq(s, 1, c)) = SubSeq(Join!Kept(s), 1, Join!Counted(s, c))
<1>. DEFINE p == SubSeq(s, 1, c)
            m == Join!Counted(s, c)
            whole == Join!Kept(s)
<1>1. Len(s) \in Nat /\ c \in Nat /\ c <= Len(s)
  OBVIOUS
<1>2. p \in Seq(S) /\ Len(p) = c /\ \A k \in 1..c : p[k] = s[k]
  BY Front
<1>. HIDE DEF p
<1>3. Join!Counted(p, c) = m /\ \A k \in 1..c : Join!Counted(p, k) = Join!Counted(s, k)
  <2>1. \A k \in 0..c : k \in Nat /\ \A j \in 1..k : p[j] = s[j]
    BY <1>1, <1>2
  <2>2. \A k \in 0..c : Join!Counted(p, k) = Join!Counted(s, k)
    BY <2>1, CountedAlike
  <2>. QED  BY <1>1, <2>2
<1>4. m \in Nat /\ m <= Join!Counted(s, Len(s)) /\ Join!Counted(s, Len(s)) \in Nat
  BY <1>1, CountedSteps, CountedGrows
<1>5. /\ whole \in Seq(Alphabet) /\ Len(whole) = Join!Counted(s, Len(s))
      /\ \A n \in 1..Len(whole) : whole[n] = Join!Folded(s[Join!Nth(s, n)])
  BY <1>1, KeptIs
<1>6. /\ Join!Kept(p) \in Seq(Alphabet) /\ Len(Join!Kept(p)) = m
      /\ \A n \in 1..m : Join!Kept(p)[n] = Join!Folded(p[Join!Nth(p, n)])
  BY <1>1, <1>2, <1>3, KeptIs
<1>7. ASSUME NEW n \in 1..m PROVE Join!Nth(p, n) = Join!Nth(s, n) /\ p[Join!Nth(p, n)] = s[Join!Nth(s, n)]
  <2>. DEFINE i == Join!Nth(p, n)
              j == Join!Nth(s, n)
  <2>1. i \in 1..c /\ Join!InCode(p[i]) /\ Join!Counted(p, i) = n
    BY <1>1, <1>2, <1>3, NthStands
  <2>2. n \in 1..Join!Counted(s, Len(s))
    BY <1>4
  <2>3. j \in 1..Len(s) /\ Join!InCode(s[j]) /\ Join!Counted(s, j) = n
    BY <1>1, <2>2, NthStands
  <2>. HIDE DEF i, j
  <2>4. p[i] = s[i] /\ Join!Counted(s, i) = n /\ i \in Nat \ {0} /\ j \in Nat \ {0}
    BY <1>1, <1>2, <1>3, <2>1, <2>3
  <2>5. i = j
    BY <2>1, <2>3, <2>4, OneNth
  <2>. QED  BY <2>4, <2>5 DEF i, j
<1>. HIDE DEF m, whole
<1>8. m \in 0..Len(whole)
  BY <1>4, <1>5
<1>9. /\ SubSeq(whole, 1, m) \in Seq(Alphabet) /\ Len(SubSeq(whole, 1, m)) = m
      /\ \A n \in 1..m : SubSeq(whole, 1, m)[n] = whole[n]
  BY <1>5, <1>8, Front
<1>10. \A n \in 1..m : Join!Kept(p)[n] = SubSeq(whole, 1, m)[n]
  <2>1. \A n \in 1..m : n \in 1..Len(whole)
    BY <1>8
  <2>. QED  BY <1>5, <1>6, <1>7, <1>9, <2>1
<1>11. Join!Kept(p) = SubSeq(whole, 1, m)
  BY <1>6, <1>9, <1>10, SameSequence
<1>. QED  BY <1>8, <1>11 DEF p, m, whole

LEMMA CodeCharacters ==
    ASSUME Join!JoinAssumption
    PROVE  (\A ch \in Alphabet : Join!InCode(ch) /\ Join!Folded(ch) = ch) /\ ~Join!InCode(Dash)
BY DEF Join!JoinAssumption, Join!InCode, Join!Folded

LEMMA DashesAre ==
    ASSUME Join!JoinAssumption, NEW m \in Nat
    PROVE  /\ Join!Dashes(m) \in Nat
           /\ (m + Join!Dashes(m)) \div (CodeGroup + 1) = Join!Dashes(m)
           /\ \A n \in 0..m : Join!Dashes(n) <= Join!Dashes(m)
<1>1. CodeGroup \in Nat \ {0} /\ CodeGroup + 1 \in Nat \ {0}
  BY DEF Join!JoinAssumption
<1>2. CASE m = 0
  <2>1. 0 \div (CodeGroup + 1) = 0
    BY <1>1
  <2>. QED  BY <1>2, <2>1 DEF Join!Dashes
<1>3. CASE m # 0
  <2>1. m \in Nat \ {0} /\ m - 1 \in Nat /\ Join!Dashes(m) = (m - 1) \div CodeGroup
    BY <1>3 DEF Join!Dashes
  <2>2. (m - 1) \div CodeGroup \in Nat
    BY <1>1, <2>1, Division
  <2>3. (m + ((m - 1) \div CodeGroup)) \div (CodeGroup + 1) = (m - 1) \div CodeGroup
    BY <1>1, <2>1, DashesBetween
  <2>4. ASSUME NEW n \in 0..m PROVE Join!Dashes(n) <= Join!Dashes(m)
    <3>1. CASE n = 0
      BY <2>1, <2>2, <3>1 DEF Join!Dashes
    <3>2. CASE n # 0
      <4>1. n - 1 \in Nat /\ n - 1 <= m - 1 /\ Join!Dashes(n) = (n - 1) \div CodeGroup
        BY <2>4, <3>2 DEF Join!Dashes
      <4>. QED  BY <1>1, <2>1, <4>1, QuotientGrows
    <3>. QED  BY <3>1, <3>2
  <2>. QED  BY <2>1, <2>2, <2>3, <2>4
<1>. QED  BY <1>2, <1>3

\* A code in groups: where no dash is, its characters in their order.
LEMMA GroupedIs ==
    ASSUME Join!JoinAssumption, NEW s \in Seq(Alphabet), NEW t, t = Len(s) + Join!Dashes(Len(s))
    PROVE  /\ t \in Nat /\ Join!Grouped(s) \in Seq(Alphabet \cup {Dash}) /\ Len(Join!Grouped(s)) = t
           /\ t - (t \div (CodeGroup + 1)) = Len(s)
           /\ \A j \in 1..t :
                IF j % (CodeGroup + 1) = 0 THEN Join!Grouped(s)[j] = Dash
                ELSE /\ j - (j \div (CodeGroup + 1)) \in 1..Len(s)
                     /\ Join!Grouped(s)[j] = s[j - (j \div (CodeGroup + 1))]
<1>. DEFINE m == Len(s)
<1>0. PICK d : d = CodeGroup + 1
  OBVIOUS
<1>1. m \in Nat /\ d \in Nat \ {0} /\ d > 1
  BY <1>0 DEF Join!JoinAssumption
<1>2. Join!Dashes(m) \in Nat /\ t \div d = Join!Dashes(m) /\ t \in Nat /\ t = m + Join!Dashes(m)
  <2>1. t = m + Join!Dashes(m)
    OBVIOUS
  <2>. HIDE DEF m
  <2>2. Join!Dashes(m) \in Nat /\ (m + Join!Dashes(m)) \div (CodeGroup + 1) = Join!Dashes(m)
    BY <1>1, DashesAre
  <2>3. t \div d = (m + Join!Dashes(m)) \div (CodeGroup + 1)
    BY <1>0, <2>1, Zenon
  <2>4. t \in Nat
    BY <1>1, <2>1, <2>2
  <2>. QED  BY <2>1, <2>2, <2>3, <2>4, Zenon
<1>. HIDE DEF m
<1>3. t - (t \div d) = m
  BY <1>1, <1>2
<1>4. ASSUME NEW j \in 1..t, j % d # 0 PROVE j - (j \div d) \in 1..m
  <2>0. PICK q, r : q = j \div d /\ r = (j % d)
    OBVIOUS
  <2>1. j \in Nat /\ q \in Nat /\ r \in 0..(d - 1) /\ j = d * q + r /\ r # 0
    <3>1. j \in Nat
      BY <1>2
    <3>2. j \div d \in Nat /\ (j % d) \in 0..(d - 1) /\ j = d * (j \div d) + (j % d)
      BY <1>1, <3>1, Division
    <3>. QED  BY <1>4, <2>0, <3>1, <3>2
  <2>2. j - q <= t - (t \div d)
    <3>1. j \in Nat /\ j <= t
      BY <1>2
    <3>2. j - (j \div d) <= t - (t \div d)
      BY <1>1, <1>2, <3>1, OthersGrow
    <3>. QED  BY <2>0, <3>2
  <2>3. d * q >= q
    BY <1>1, <2>1
  <2>4. j - q >= 1
    BY <1>1, <2>1, <2>3
  <2>. QED  BY <1>1, <1>3, <2>0, <2>1, <2>2, <2>4
<1>5. Join!Grouped(s) = [j \in 1..t |-> IF j % d = 0 THEN Dash ELSE s[j - (j \div d)]]
  BY <1>0, Zenon DEF Join!Grouped
<1>6. \A j \in 1..t : (IF j % d = 0 THEN Dash ELSE s[j - (j \div d)]) \in Alphabet \cup {Dash}
  BY <1>4 DEF m
<1>7. Join!Grouped(s) \in [1..t -> Alphabet \cup {Dash}]
  BY <1>5, <1>6
<1>8. Join!Grouped(s) \in Seq(Alphabet \cup {Dash}) /\ Len(Join!Grouped(s)) = t
  BY <1>2, <1>7
<1>9. \A j \in 1..t : Join!Grouped(s)[j] = (IF j % d = 0 THEN Dash ELSE s[j - (j \div d)])
  BY <1>5
<1>. QED  BY <1>0, <1>2, <1>3, <1>4, <1>8, <1>9 DEF m

\* Of the first j characters of a code in groups, those are counted that are no dashes.
LEMMA GroupedCounted ==
    ASSUME Join!JoinAssumption, NEW s \in Seq(Alphabet), NEW j \in 0..(Len(s) + Join!Dashes(Len(s)))
    PROVE  Join!Counted(Join!Grouped(s), j) = j - (j \div (CodeGroup + 1))
<1>1. PICK d, g, t : d = CodeGroup + 1 /\ g = Join!Grouped(s) /\ t = Len(s) + Join!Dashes(Len(s))
  OBVIOUS
<1>2. /\ t \in Nat
      /\ \A k \in 1..t : IF k % d = 0 THEN g[k] = Dash
                         ELSE k - (k \div d) \in 1..Len(s) /\ g[k] = s[k - (k \div d)]
  BY <1>1, GroupedIs
<1>3. d \in Nat \ {0}
  BY <1>1 DEF Join!JoinAssumption
<1>4. ASSUME NEW k \in 1..t PROVE Join!InCode(g[k]) <=> k % d # 0
  <2>1. CASE k % d = 0
    BY <1>2, <2>1, CodeCharacters
  <2>2. CASE k % d # 0
    <3>1. k - (k \div d) \in 1..Len(s) /\ g[k] = s[k - (k \div d)]
      BY <1>2, <2>2
    <3>2. PICK i \in 1..Len(s) : g[k] = s[i]
      BY <3>1
    <3>3. g[k] \in Alphabet
      BY <3>2
    <3>. QED  BY <2>2, <3>3, CodeCharacters
  <2>. QED  BY <2>1, <2>2
<1>. DEFINE off == {k \in Nat : k <= t /\ Join!Counted(g, k) # k - (k \div d)}
<1>5. off = {}
  <2>. SUFFICES ASSUME off # {} PROVE FALSE
    OBVIOUS
  <2>1. PICK k \in off : \A i \in off : k <= i
    BY Least
  <2>2. k # 0
    <3>1. 0 \div d = 0
      BY <1>3
    <3>. QED  BY <2>1, <3>1, CountedSteps
  <2>3. PICK a : a = k - 1
    OBVIOUS
  <2>4. a \in Nat /\ k = a + 1 /\ k \in 1..t
    BY <1>2, <2>1, <2>2, <2>3
  <2>5. Join!Counted(g, a) = a - (a \div d)
    <3>1. a \notin off
      BY <2>1, <2>4
    <3>. QED  BY <1>2, <2>4, <3>1
  <2>6. Join!Counted(g, a + 1) = Join!Counted(g, a) + (IF Join!InCode(g[a + 1]) THEN 1 ELSE 0)
    BY <2>4, CountedSteps
  <2>7. (a + 1) \div d = (a \div d) + (IF (a + 1) % d = 0 THEN 1 ELSE 0)
    BY <1>3, <2>4, NextQuotient
  <2>8. PICK c, q, p : c = Join!Counted(g, a + 1) /\ q = a \div d /\ p = (a + 1) \div d
    OBVIOUS
  <2>9. q \in Nat
    BY <1>3, <2>4, <2>8, Division
  <2>10. c = (a + 1) - p
    <3>1. CASE (a + 1) % d = 0
      <4>1. ~Join!InCode(g[a + 1])
        BY <1>4, <2>4, <3>1
      <4>2. c = (a - q) + 0 /\ p = q + 1
        BY <2>5, <2>6, <2>7, <2>8, <3>1, <4>1
      <4>. QED  BY <2>4, <2>9, <4>2
    <3>2. CASE (a + 1) % d # 0
      <4>1. Join!InCode(g[a + 1])
        BY <1>4, <2>4, <3>2
      <4>2. c = (a - q) + 1 /\ p = q + 0
        BY <2>5, <2>6, <2>7, <2>8, <3>2, <4>1
      <4>. QED  BY <2>4, <2>9, <4>2
    <3>. QED  BY <3>1, <3>2
  <2>. QED  BY <2>1, <2>4, <2>8, <2>10
<1>6. j \in Nat /\ j <= t
  BY <1>1, <1>2
<1>. QED  BY <1>1, <1>5, <1>6

\* A code in groups is read as that code.
LEMMA KeptOfGrouped ==
    ASSUME Join!JoinAssumption, NEW s \in Seq(Alphabet)
    PROVE  Join!Kept(Join!Grouped(s)) = s
<1>1. PICK d, g, t : d = CodeGroup + 1 /\ g = Join!Grouped(s) /\ t = Len(s) + Join!Dashes(Len(s))
  OBVIOUS
<1>2. /\ t \in Nat /\ Len(g) = t /\ t - (t \div d) = Len(s)
      /\ \A k \in 1..t : IF k % d = 0 THEN g[k] = Dash
                         ELSE k - (k \div d) \in 1..Len(s) /\ g[k] = s[k - (k \div d)]
  BY <1>1, GroupedIs
<1>3. \A k \in 0..t : Join!Counted(g, k) = k - (k \div d)
  BY <1>1, GroupedCounted
<1>4. Join!Counted(g, t) = Len(s)
  BY <1>2, <1>3
<1>5. /\ Join!Kept(g) \in Seq(Alphabet) /\ Len(Join!Kept(g)) = Len(s)
      /\ \A n \in 1..Len(s) : Join!Kept(g)[n] = Join!Folded(g[Join!Nth(g, n)])
  BY <1>2, <1>4, KeptIs
<1>6. ASSUME NEW n \in 1..Len(s) PROVE Join!Kept(g)[n] = s[n]
  <2>1. PICK k : k = Join!Nth(g, n)
    OBVIOUS
  <2>2. k \in 1..t /\ Join!InCode(g[k]) /\ Join!Counted(g, k) = n
    BY <1>2, <1>4, <2>1, NthStands
  <2>3. k % d # 0
    BY <1>2, <2>2, CodeCharacters
  <2>4. k - (k \div d) = n
    BY <1>2, <1>3, <2>2
  <2>5. g[k] = s[n]
    BY <1>2, <2>2, <2>3, <2>4
  <2>6. s[n] \in Alphabet
    OBVIOUS
  <2>. QED  BY <1>5, <2>1, <2>5, <2>6, CodeCharacters
<1>7. Join!Kept(g) = s
  BY <1>5, <1>6, SameSequence
<1>. QED  BY <1>1, <1>7

\* The texts of the field are the codes in groups.
LEMMA CodesAre ==
    ASSUME Join!JoinAssumption, NEW text
    PROVE  text \in Join!Codes <=> \E s \in Seq(Alphabet) : Len(s) <= CodeChars /\ text = Join!Grouped(s)
<1>1. ASSUME NEW n \in 0..CodeChars, NEW s \in [1..n -> Alphabet]
      PROVE  s \in Seq(Alphabet) /\ Len(s) <= CodeChars
  <2>1. n \in Nat /\ n <= CodeChars
    BY DEF Join!JoinAssumption
  <2>2. s \in Seq(Alphabet) /\ Len(s) = n
    BY <2>1
  <2>. QED  BY <2>1, <2>2
<1>2. ASSUME NEW s \in Seq(Alphabet), Len(s) <= CodeChars
      PROVE  \E n \in 0..CodeChars : s \in [1..n -> Alphabet]
  <2>1. Len(s) \in 0..CodeChars /\ s \in [1..Len(s) -> Alphabet]
    BY <1>2 DEF Join!JoinAssumption
  <2>. QED  BY <2>1
<1>. QED  BY <1>1, <1>2 DEF Join!Codes

LEMMA CutIs ==
    ASSUME Join!JoinAssumption, NEW s \in Seq(Alphabet)
    PROVE  /\ Join!Cut(s) \in Seq(Alphabet)
           /\ Len(Join!Cut(s)) = (IF Len(s) > CodeChars THEN CodeChars ELSE Len(s))
           /\ \A n \in 1..Len(Join!Cut(s)) : Join!Cut(s)[n] = s[n]
<1>1. CodeChars \in Nat
  BY DEF Join!JoinAssumption
<1>2. CASE Len(s) > CodeChars
  <2>1. CodeChars \in 0..Len(s) /\ Join!Cut(s) = SubSeq(s, 1, CodeChars)
    BY <1>1, <1>2 DEF Join!Cut
  <2>2. /\ SubSeq(s, 1, CodeChars) \in Seq(Alphabet) /\ Len(SubSeq(s, 1, CodeChars)) = CodeChars
        /\ \A k \in 1..CodeChars : SubSeq(s, 1, CodeChars)[k] = s[k]
    BY <2>1, Front
  <2>. QED  BY <1>2, <2>1, <2>2
<1>3. CASE ~(Len(s) > CodeChars)
  BY <1>3 DEF Join!Cut
<1>. QED  BY <1>2, <1>3

\* The beginning of a text of the field holds the beginning of its code.
LEMMA CodeText ==
    ASSUME Join!JoinAssumption, NEW s \in Seq(Alphabet), Len(s) <= CodeChars, NEW text, text = Join!Grouped(s)
    PROVE  /\ text \in Join!Codes /\ text \in Seq(Alphabet \cup {Dash})
           /\ Len(text) = Len(s) + Join!Dashes(Len(s)) /\ Len(text) \in Join!Places
           /\ Join!FormatJoinCode(text) = text
           /\ \A c \in 0..Len(text) : /\ c \in Join!Places
                                      /\ Join!Behind(text, c) \in Seq(Alphabet)
                                      /\ Join!Behind(text, c) = SubSeq(s, 1, c - (c \div (CodeGroup + 1)))
<1>1. text \in Join!Codes
  BY CodesAre
<1>2. text \in Seq(Alphabet \cup {Dash}) /\ Len(text) = Len(s) + Join!Dashes(Len(s))
  BY GroupedIs
<1>3. Len(text) \in Join!Places /\ \A c \in 0..Len(text) : c \in Join!Places
  <2>1. CodeChars \in Nat /\ Len(s) \in 0..CodeChars
    BY DEF Join!JoinAssumption
  <2>2. Join!Dashes(Len(s)) <= Join!Dashes(CodeChars) /\ Join!Dashes(CodeChars) \in Nat /\ Join!Dashes(Len(s)) \in Nat
    BY <2>1, DashesAre
  <2>. QED  BY <1>2, <2>1, <2>2 DEF Join!Places
<1>4. Join!Kept(text) = s
  BY KeptOfGrouped
<1>5. Join!FormatJoinCode(text) = text
  <2>1. Join!Cut(s) = s
    BY DEF Join!Cut, Join!JoinAssumption
  <2>2. Join!FormatJoinCode(text) = Join!Grouped(Join!Cut(Join!Kept(text)))
    BY DEF Join!FormatJoinCode
  <2>. QED  BY <1>4, <2>1, <2>2
<1>6. ASSUME NEW c \in 0..Len(text)
      PROVE  /\ Join!Behind(text, c) \in Seq(Alphabet)
             /\ Join!Behind(text, c) = SubSeq(s, 1, c - (c \div (CodeGroup + 1)))
  <2>1. Join!Counted(text, c) = c - (c \div (CodeGroup + 1))
    BY <1>2, GroupedCounted
  <2>2. Join!Counted(text, c) \in 0..Len(s) /\ Join!Behind(text, c) = SubSeq(s, 1, Join!Counted(text, c))
    BY <1>2, <1>4, KeptOfFront DEF Join!Behind
  <2>3. SubSeq(s, 1, Join!Counted(text, c)) \in Seq(Alphabet)
    BY <2>2, Front
  <2>. QED  BY <2>1, <2>2, <2>3
<1>. QED  BY <1>1, <1>2, <1>3, <1>5, <1>6

\* Whatever is in the field, it is formatted to a code, and the caret goes behind what was
\* before it.
LEMMA CaretGoesBehind ==
    ASSUME Join!JoinAssumption, NEW S, NEW raw \in Seq(S), NEW f \in 0..Len(raw),
           NEW text, text = Join!FormatJoinCode(raw),
           NEW caret, caret = Join!CaretAfterFormat(raw, f),
           NEW behind, behind = Join!Cut(Join!Kept(SubSeq(raw, 1, f)))
    PROVE  /\ text \in Join!Codes
           /\ caret \in 0..Len(text)
           /\ behind = Join!Behind(text, caret)
<1>1. PICK all, m : all = Join!Kept(raw) /\ m = Join!Counted(raw, f)
  OBVIOUS
<1>2. all \in Seq(Alphabet)
  BY <1>1, KeptIs
<1>3. m \in 0..Len(all) /\ Join!Kept(SubSeq(raw, 1, f)) = SubSeq(all, 1, m)
  BY <1>1, KeptOfFront
<1>4. PICK part : part = SubSeq(all, 1, m)
  OBVIOUS
<1>5. part \in Seq(Alphabet) /\ Len(part) = m /\ \A k \in 1..m : part[k] = all[k]
  BY <1>2, <1>3, <1>4, Front
<1>6. PICK s, n : s = Join!Cut(all) /\ n = Len(behind)
  OBVIOUS
<1>7. /\ s \in Seq(Alphabet) /\ Len(s) = (IF Len(all) > CodeChars THEN CodeChars ELSE Len(all))
      /\ \A k \in 1..Len(s) : s[k] = all[k]
  BY <1>2, <1>6, CutIs
<1>8. /\ behind = Join!Cut(part) /\ behind \in Seq(Alphabet) /\ n = (IF m > CodeChars THEN CodeChars ELSE m)
      /\ \A k \in 1..n : behind[k] = part[k]
  <2>1. behind = Join!Cut(part)
    BY <1>3, <1>4
  <2>2. /\ behind \in Seq(Alphabet)
        /\ Len(behind) = (IF Len(part) > CodeChars THEN CodeChars ELSE Len(part))
        /\ \A k \in 1..Len(behind) : behind[k] = part[k]
    BY <1>5, <2>1, CutIs
  <2>. QED  BY <1>5, <1>6, <2>1, <2>2
<1>9. CodeChars \in Nat /\ Len(s) <= CodeChars /\ n \in 0..Len(s) /\ n <= m
  BY <1>3, <1>7, <1>8 DEF Join!JoinAssumption
<1>10. behind = SubSeq(s, 1, n)
  <2>1. /\ SubSeq(s, 1, n) \in Seq(Alphabet) /\ Len(SubSeq(s, 1, n)) = n
        /\ \A k \in 1..n : SubSeq(s, 1, n)[k] = s[k]
    BY <1>7, <1>9, Front
  <2>2. \A k \in 1..n : k \in 1..m /\ k \in 1..Len(s)
    BY <1>3, <1>9
  <2>3. \A k \in 1..n : SubSeq(s, 1, n)[k] = behind[k]
    BY <1>5, <1>7, <1>8, <2>1, <2>2
  <2>. QED  BY <1>6, <1>8, <2>1, <2>3, SameSequence
<1>11. text = Join!Grouped(s)
  BY <1>1, <1>6 DEF Join!FormatJoinCode
<1>12. /\ text \in Join!Codes /\ Len(text) = Len(s) + Join!Dashes(Len(s))
       /\ \A c \in 0..Len(text) : Join!Behind(text, c) = SubSeq(s, 1, c - (c \div (CodeGroup + 1)))
  BY <1>7, <1>9, <1>11, CodeText
<1>13. caret = n + Join!Dashes(n)
  BY <1>6 DEF Join!CaretAfterFormat
<1>14. n \in Nat /\ Len(s) \in Nat /\ n \in 0..Len(s)
  BY <1>9
<1>15. /\ Join!Dashes(n) \in Nat /\ (n + Join!Dashes(n)) \div (CodeGroup + 1) = Join!Dashes(n)
       /\ Join!Dashes(n) <= Join!Dashes(Len(s)) /\ Join!Dashes(Len(s)) \in Nat
  BY <1>14, DashesAre
<1>16. caret \in 0..Len(text)
  BY <1>12, <1>13, <1>14, <1>15
<1>17. caret - (caret \div (CodeGroup + 1)) = n
  BY <1>13, <1>14, <1>15
<1>. QED  BY <1>10, <1>12, <1>16, <1>17

\* What the browser makes of an edit is a sequence, what is put in and what stands before
\* it its beginning.
LEMMA EditedIs ==
    ASSUME NEW S, NEW text \in Seq(S), NEW what \in Seq(S), NEW from \in 0..Len(text), NEW to \in from..Len(text)
    PROVE  /\ Join!Edited(text, from, to, what) \in Seq(S)
           /\ from + Len(what) \in 0..Len(Join!Edited(text, from, to, what))
<1>1. PICK a, c : a = SubSeq(text, 1, from) /\ c = SubSeq(text, to + 1, Len(text))
  OBVIOUS
<1>2. a \in Seq(S) /\ Len(a) = from /\ c \in Seq(S)
  BY <1>1, Front
<1>3. Join!Edited(text, from, to, what) = (a \o what) \o c
  BY <1>1 DEF Join!Edited
<1>4. PICK b : b = a \o what
  OBVIOUS
<1>5. b \in Seq(S) /\ Len(b) = from + Len(what)
  BY <1>2, <1>4, Concatenated
<1>6. PICK all : all = b \o c
  OBVIOUS
<1>7. all \in Seq(S) /\ Len(all) = Len(b) + Len(c) /\ Len(c) \in Nat /\ from + Len(what) \in Nat
  <2>1. all \in Seq(S) /\ Len(all) = Len(b) + Len(c)
    BY <1>2, <1>5, <1>6, Concatenated
  <2>2. Len(c) \in Nat /\ from \in Nat /\ Len(what) \in Nat
    BY <1>2
  <2>. QED  BY <2>1, <2>2
<1>8. all = Join!Edited(text, from, to, what)
  BY <1>3, <1>4, <1>6
<1>. QED  BY <1>5, <1>7, <1>8

\* The field: a text that is a code in groups, and the caret behind what is before it.
Field(text, caret, behind) ==
    text \in Join!Codes /\ caret \in 0..Len(text) /\ behind = Join!Behind(text, caret)

JoinRecords ==
    [open : BOOLEAN, text : Join!Codes, caret : Join!Places, behind : Seq(Alphabet), busy : BOOLEAN,
     done : BOOLEAN, sent : {"none", "mine", "orphan"}, timer : BOOLEAN]

JoinInv == join \in JoinRecords /\ Field(join.text, join.caret, join.behind)

LEMMA FieldIs ==
    ASSUME Join!JoinAssumption, NEW text, NEW caret, NEW behind, Field(text, caret, behind)
    PROVE  /\ text \in Seq(Alphabet \cup {Dash}) /\ Len(text) \in Join!Places
           /\ caret \in Join!Places /\ behind \in Seq(Alphabet)
           /\ Join!FormatJoinCode(text) = text
<1>1. PICK s \in Seq(Alphabet) : Len(s) <= CodeChars /\ text = Join!Grouped(s)
  BY CodesAre DEF Field
<1>2. /\ text \in Seq(Alphabet \cup {Dash}) /\ Len(text) \in Join!Places /\ Join!FormatJoinCode(text) = text
      /\ \A c \in 0..Len(text) : c \in Join!Places /\ Join!Behind(text, c) \in Seq(Alphabet)
  BY <1>1, CodeText
<1>. QED  BY <1>2 DEF Field

LEMMA JoinShows ==
    Join!JoinAssumption /\ JoinInv => Join!TypeOK /\ Join!CaretFollowsTheTyping
<1>. SUFFICES ASSUME Join!JoinAssumption, JoinInv PROVE Join!TypeOK /\ Join!CaretFollowsTheTyping
  OBVIOUS
<1>1. Join!FormatJoinCode(join.text) = join.text /\ join.text \in Seq(Alphabet \cup {Dash})
  BY FieldIs DEF JoinInv
<1>2. join.caret <= Len(join.text)
  BY <1>1 DEF JoinInv, Field
<1>. QED  BY <1>1, <1>2 DEF JoinInv, JoinRecords, Field, Join!TypeOK, Join!CaretFollowsTheTyping

LEMMA EmptyField == Join!JoinAssumption => Field(<<>>, 0, <<>>) /\ <<>> \in Seq(Alphabet) /\ 0 \in Join!Places
<1>. SUFFICES ASSUME Join!JoinAssumption
              PROVE  Field(<<>>, 0, <<>>) /\ <<>> \in Seq(Alphabet) /\ 0 \in Join!Places
  OBVIOUS
<1>1. PICK e : e = <<>>
  OBVIOUS
<1>2. e \in Seq(Alphabet) /\ Len(e) = 0
  BY <1>1
<1>3. Join!Dashes(0) = 0 /\ 0 <= CodeChars
  BY DEF Join!Dashes, Join!JoinAssumption
<1>4. Join!Grouped(e) \in Seq(Alphabet \cup {Dash}) /\ Len(Join!Grouped(e)) = 0
  <2>1. PICK t : t = Len(e) + Join!Dashes(Len(e))
    OBVIOUS
  <2>2. t = 0
    BY <1>2, <1>3, <2>1
  <2>3. Join!Grouped(e) \in Seq(Alphabet \cup {Dash}) /\ Len(Join!Grouped(e)) = t
    BY <1>2, <2>1, GroupedIs
  <2>. QED  BY <2>2, <2>3
<1>5. Join!Grouped(e) = e
  BY <1>1, <1>4
<1>6. e \in Join!Codes /\ 0 \in Join!Places /\ Join!Behind(e, 0) = SubSeq(e, 1, 0)
  <2>1. PICK z : z = 0
    OBVIOUS
  <2>2. Len(e) <= CodeChars /\ z \in 0..Len(e)
    BY <1>2, <1>3, <2>1
  <2>3. e \in Join!Codes /\ z \in Join!Places /\ Join!Behind(e, z) = SubSeq(e, 1, z - (z \div (CodeGroup + 1)))
    BY <1>2, <1>5, <2>2, CodeText
  <2>4. z - (z \div (CodeGroup + 1)) = 0
    BY <2>1 DEF Join!JoinAssumption
  <2>. QED  BY <2>1, <2>3, <2>4
<1>8. SubSeq(e, 1, 0) = e
  <2>1. SubSeq(e, 1, 0) \in Seq(Alphabet) /\ Len(SubSeq(e, 1, 0)) = 0
    BY <1>2, Front
  <2>. QED  BY <1>1, <2>1
<1>. QED  BY <1>1, <1>2, <1>6, <1>8 DEF Field

\* A dialog that has just opened, or is closed.
LEMMA JoinEmptied ==
    ASSUME Join!JoinAssumption, NEW o \in BOOLEAN, NEW sent \in {"none", "mine", "orphan"}, NEW timer \in BOOLEAN,
           NEW j, j = [open |-> o, text |-> <<>>, caret |-> 0, behind |-> <<>>, busy |-> FALSE, done |-> FALSE,
                       sent |-> sent, timer |-> timer]
    PROVE  j \in JoinRecords /\ Field(j.text, j.caret, j.behind)
<1>1. PICK e : e = <<>>
  OBVIOUS
<1>2. Field(e, 0, e) /\ e \in Seq(Alphabet) /\ 0 \in Join!Places /\ e \in Join!Codes
  BY <1>1, EmptyField DEF Field
<1>3. j = [open |-> o, text |-> e, caret |-> 0, behind |-> e, busy |-> FALSE, done |-> FALSE,
           sent |-> sent, timer |-> timer]
  BY <1>1
<1>4. j \in JoinRecords
  BY <1>2, <1>3 DEF JoinRecords
<1>. QED  BY <1>2, <1>3, <1>4

LEMMA JoinInit == Join!JoinAssumption /\ Join!Init => JoinInv
<1>. SUFFICES ASSUME Join!JoinAssumption, Join!Init PROVE JoinInv
  OBVIOUS
<1>1. join = [open |-> FALSE, text |-> <<>>, caret |-> 0, behind |-> <<>>, busy |-> FALSE, done |-> FALSE,
              sent |-> "none", timer |-> FALSE]
  BY DEF Join!Init, Join!Dialog, Join!Closed
<1>. QED  BY <1>1, JoinEmptied DEF JoinInv

LEMMA JoinStep == Join!JoinAssumption /\ JoinInv /\ [Join!Next]_join => JoinInv'
<1>. SUFFICES ASSUME Join!JoinAssumption, JoinInv, [Join!Next]_join PROVE JoinInv'
  OBVIOUS
<1>1. join \in JoinRecords /\ Field(join.text, join.caret, join.behind)
  BY DEF JoinInv
<1>2. ASSUME NEW text, NEW caret, NEW behind, Field(text, caret, behind),
             join' = [join EXCEPT !.text = text, !.caret = caret, !.behind = behind]
      PROVE  JoinInv'
  <2>1. text \in Join!Codes /\ caret \in Join!Places /\ behind \in Seq(Alphabet)
    BY <1>2, FieldIs DEF Field
  <2>2. join' \in JoinRecords /\ join'.text = text /\ join'.caret = caret /\ join'.behind = behind
    BY <1>1, <1>2, <2>1 DEF JoinRecords
  <2>. QED  BY <1>2, <2>2 DEF JoinInv
<1>3. ASSUME NEW o \in BOOLEAN, NEW sent \in {"none", "mine", "orphan"}, NEW timer \in BOOLEAN,
             join' = [open |-> o, text |-> <<>>, caret |-> 0, behind |-> <<>>, busy |-> FALSE, done |-> FALSE,
                      sent |-> sent, timer |-> timer]
      PROVE  JoinInv'
  BY <1>3, JoinEmptied DEF JoinInv
<1>4. ASSUME NEW b \in BOOLEAN, NEW d \in BOOLEAN, NEW sent \in {"none", "mine", "orphan"}, NEW timer \in BOOLEAN,
             join' = [join EXCEPT !.busy = b, !.done = d, !.sent = sent, !.timer = timer]
      PROVE  JoinInv'
  <2>1. join' \in JoinRecords /\ join'.text = join.text /\ join'.caret = join.caret /\ join'.behind = join.behind
    BY <1>1, <1>4 DEF JoinRecords
  <2>. QED  BY <1>1, <2>1 DEF JoinInv
<1>5. PICK sent, timer : /\ sent = (IF join.sent = "none" THEN "none" ELSE "orphan") /\ timer = join.timer
                         /\ sent \in {"none", "mine", "orphan"} /\ timer \in BOOLEAN
  BY <1>1 DEF JoinRecords
<1>6. CASE Join!Open
  <2>1. join' = [open |-> TRUE, text |-> <<>>, caret |-> 0, behind |-> <<>>, busy |-> FALSE, done |-> FALSE,
                 sent |-> sent, timer |-> timer]
    BY <1>5, <1>6 DEF Join!Open, Join!WithDialog, Join!Dialog, Join!Closed
  <2>. QED  BY <1>3, <1>5, <2>1
<1>7. CASE Join!Close
  <2>1. join' = [open |-> FALSE, text |-> <<>>, caret |-> 0, behind |-> <<>>, busy |-> FALSE, done |-> FALSE,
                 sent |-> sent, timer |-> timer]
    BY <1>5, <1>7 DEF Join!Close, Join!WithDialog, Join!Dialog, Join!Closed
  <2>. QED  BY <1>3, <1>5, <2>1
<1>8. CASE Join!TimerFires
  <2>1. join' = [open |-> FALSE, text |-> <<>>, caret |-> 0, behind |-> <<>>, busy |-> FALSE, done |-> FALSE,
                 sent |-> sent, timer |-> FALSE]
    BY <1>5, <1>8 DEF Join!TimerFires, Join!WithDialog, Join!Dialog, Join!Closed
  <2>. QED  BY <1>3, <1>5, <2>1
<1>9. CASE Join!Input
  <2>1. PICK from \in Join!Places, to \in Join!Places, what \in Pasted \cup {<<>>} : Join!Edit(from, to, what)
    BY <1>9 DEF Join!Input
  <2>. DEFINE S == Alphabet \cup Confused \cup Foreign
  <2>2. join.text \in Seq(S) /\ what \in Seq(S)
    <3>1. join.text \in Seq(Alphabet \cup {Dash}) /\ Dash \in S
      BY <1>1, FieldIs DEF Join!JoinAssumption
    <3>2. Alphabet \cup {Dash} \subseteq S
      BY <3>1
    <3>3. join.text \in Seq(S)
      BY <3>1, <3>2
    <3>4. what \in Seq(S)
      <4>1. CASE what \in Pasted
        BY <4>1 DEF Join!JoinAssumption
      <4>2. CASE what = <<>>
        BY <4>2
      <4>. QED  BY <2>1, <4>1, <4>2
    <3>. QED  BY <3>3, <3>4
  <2>. HIDE DEF S
  <2>3. from \in 0..Len(join.text) /\ to \in from..Len(join.text)
    BY <2>1, <2>2 DEF Join!Edit, Join!Places
  <2>4. PICK raw, f : raw = Join!Edited(join.text, from, to, what) /\ f = from + Len(what)
    OBVIOUS
  <2>5. raw \in Seq(S) /\ f \in 0..Len(raw)
    BY <2>2, <2>3, <2>4, EditedIs
  <2>6. PICK text, caret, behind :
          /\ text = Join!FormatJoinCode(raw) /\ caret = Join!CaretAfterFormat(raw, f)
          /\ behind = Join!Cut(Join!Kept(SubSeq(raw, 1, f)))
    OBVIOUS
  <2>7. Field(text, caret, behind)
    BY <2>5, <2>6, CaretGoesBehind DEF Field
  <2>8. join' = [join EXCEPT !.text = text, !.caret = caret, !.behind = behind]
    BY <2>1, <2>4, <2>6 DEF Join!Edit
  <2>. QED  BY <1>2, <2>7, <2>8
<1>10. CASE Join!MoveCaret
  <2>1. PICK c \in 0..Len(join.text) : join' = [join EXCEPT !.caret = c, !.behind = Join!Behind(join.text, c)]
    BY <1>10 DEF Join!MoveCaret
  <2>2. PICK text, behind : text = join.text /\ behind = Join!Behind(text, c)
    OBVIOUS
  <2>3. join' = [join EXCEPT !.text = text, !.caret = c, !.behind = behind]
    BY <1>1, <2>1, <2>2 DEF JoinRecords
  <2>4. Field(text, c, behind)
    BY <1>1, <2>1, <2>2 DEF Field
  <2>. QED  BY <1>2, <2>3, <2>4
<1>11. CASE Join!PasteButton
  <2>1. PICK what \in Pasted : \E text :
          /\ text = Join!FormatJoinCode(what)
          /\ join' = [join EXCEPT !.text = text, !.caret = Len(text), !.behind = Join!Behind(text, Len(text))]
    BY <1>11 DEF Join!PasteButton
  <2>2. PICK text :
          /\ text = Join!FormatJoinCode(what)
          /\ join' = [join EXCEPT !.text = text, !.caret = Len(text), !.behind = Join!Behind(text, Len(text))]
    BY <2>1
  <2>3. what \in Seq(Alphabet \cup Confused \cup Foreign)
    BY DEF Join!JoinAssumption
  <2>4. text \in Join!Codes
    BY <2>2, <2>3, CaretGoesBehind, 0 \in 0..Len(what)
  <2>5. Len(text) \in 0..Len(text)
    <3>1. PICK s \in Seq(Alphabet) : Len(s) <= CodeChars /\ text = Join!Grouped(s)
      BY <2>4, CodesAre
    <3>2. text \in Seq(Alphabet \cup {Dash})
      BY <3>1, GroupedIs
    <3>. QED  BY <3>2
  <2>. QED  BY <1>2, <2>2, <2>4, <2>5 DEF Field
<1>12. CASE Join!Submit
  <2>1. join' = [join EXCEPT !.busy = TRUE, !.done = FALSE, !.sent = "mine", !.timer = join.timer]
    BY <1>1, <1>12 DEF Join!Submit, JoinRecords
  <2>. QED  BY <1>1, <1>4, <2>1 DEF JoinRecords
<1>13. CASE Join!Joined
  <2>1. PICK b, d : b = (join.busy /\ join.sent # "mine") /\ d = (join.done \/ join.sent = "mine")
    OBVIOUS
  <2>2. b \in BOOLEAN /\ d \in BOOLEAN
    BY <2>1
  <2>3. join' = [join EXCEPT !.sent = "none", !.timer = TRUE, !.busy = b, !.done = d]
    BY <1>13, <2>1 DEF Join!Joined
  <2>4. join' = [join EXCEPT !.busy = b, !.done = d, !.sent = "none", !.timer = TRUE]
    BY <1>1, <2>3 DEF JoinRecords
  <2>. QED  BY <1>4, <2>2, <2>4
<1>14. CASE Join!Refused
  <2>1. PICK b : b = (join.busy /\ join.sent # "mine")
    OBVIOUS
  <2>2. b \in BOOLEAN
    BY <2>1
  <2>3. join' = [join EXCEPT !.sent = "none", !.busy = b]
    BY <1>14, <2>1 DEF Join!Refused
  <2>4. join' = [join EXCEPT !.busy = b, !.done = join.done, !.sent = "none", !.timer = join.timer]
    BY <1>1, <2>3 DEF JoinRecords
  <2>. QED  BY <1>1, <1>4, <2>2, <2>4 DEF JoinRecords
<1>15. CASE UNCHANGED join
  BY <1>15 DEF JoinInv
<1>. QED
  BY <1>6, <1>7, <1>8, <1>9, <1>10, <1>11, <1>12, <1>13, <1>14, <1>15 DEF Join!Next

-------------------------------------------------------------------------------
\* All of them. The map's mouse is its one part no other argument speaks of.
MouseInv == mouse \in [dragging : BOOLEAN, moved : BOOLEAN, clicks : BOOLEAN]
MapInv == ViewInv /\ CanvasInv /\ MouseInv

LEMMA MapStarts == MapInit => MapInv
<1>. SUFFICES ASSUME MapInit PROVE MapInv
  OBVIOUS
<1>1. PICK on \in BOOLEAN : map = Fresh({}, {}, None, on)
  BY DEF MapInit
<1>2. map \in Maps /\ ~map.settled
  BY <1>1, FreshMap
<1>. QED  BY <1>2, ViewInit DEF MapInv, MouseInv, CanvasInv, CanvasIsCurrent, MapInit

LEMMA MouseStep == MouseInv /\ [MapNext]_mapVars => MouseInv'
<1>. SUFFICES ASSUME MouseInv, [MapNext]_mapVars PROVE MouseInv'
  OBVIOUS
<1>1. ASSUME NEW d \in BOOLEAN, NEW m \in BOOLEAN, NEW c \in BOOLEAN,
             mouse' = [mouse EXCEPT !.dragging = d, !.moved = m, !.clicks = c]
      PROVE  MouseInv'
  BY <1>1 DEF MouseInv
<1>2. CASE UNCHANGED mouse
  BY <1>2 DEF MouseInv
<1>3. CASE Remounts \/ Press
  <2>1. PICK d \in BOOLEAN, m \in BOOLEAN, c \in BOOLEAN : mouse' = [dragging |-> d, moved |-> m, clicks |-> c]
    BY <1>3, Zenon DEF Remounts, Press
  <2>. QED  BY <2>1 DEF MouseInv
<1>4. CASE Drag
  <2>1. PICK far \in BOOLEAN, moved \in BOOLEAN :
          moved = (mouse.moved \/ far) /\ mouse' = [mouse EXCEPT !.moved = mouse.moved \/ far]
    BY <1>4 DEF Drag
  <2>2. mouse' = [mouse EXCEPT !.dragging = mouse.dragging, !.moved = moved, !.clicks = mouse.clicks]
    BY <2>1 DEF MouseInv
  <2>. QED  BY <1>1, <2>2 DEF MouseInv
<1>5. CASE Release \/ Click
  <2>1. PICK d \in BOOLEAN, m \in BOOLEAN, c \in BOOLEAN :
          mouse' = [mouse EXCEPT !.dragging = d, !.moved = m, !.clicks = c]
    <3>1. CASE Release
      <4>1. PICK over \in BOOLEAN : mouse' = [mouse EXCEPT !.dragging = FALSE, !.clicks = over]
        BY <3>1 DEF Release
      <4>2. mouse' = [mouse EXCEPT !.dragging = FALSE, !.moved = mouse.moved, !.clicks = over] /\ mouse.moved \in BOOLEAN
        BY <4>1 DEF MouseInv
      <4>. QED  BY <4>2
    <3>2. CASE Click
      <4>1. mouse' = [mouse EXCEPT !.moved = FALSE, !.clicks = FALSE]
        BY <3>2 DEF Click
      <4>2. mouse' = [mouse EXCEPT !.dragging = mouse.dragging, !.moved = FALSE, !.clicks = FALSE] /\ mouse.dragging \in BOOLEAN
        BY <4>1 DEF MouseInv
      <4>. QED  BY <4>2
    <3>. QED  BY <1>5, <3>1, <3>2
  <2>. QED  BY <1>1, <2>1
<1>6. CASE Resize \/ Wheel \/ ZoomIn \/ ZoomOut
  BY <1>2, <1>6 DEF Resize, Wheel, ZoomIn, ZoomOut, ZoomsTo
<1>7. CASE Hover \/ SetData \/ SetSelected \/ RefreshTheme \/ SetCountries \/ BordersArrive \/ Tick \/ UNCHANGED mapVars
  BY <1>2, <1>7 DEF Hover, SetData, SetSelected, RefreshTheme, SetCountries, BordersArrive, Tick, mapVars
<1>. QED  BY <1>3, <1>4, <1>5, <1>6, <1>7 DEF MapNext

LEMMA MapStep == MapInv /\ [MapNext]_mapVars => MapInv'
BY ViewStep, CanvasStep, MouseStep DEF MapInv

LEMMA MapTypes == MapInv => MapTypeOK
<1>. SUFFICES ASSUME MapInv PROVE MapTypeOK
  OBVIOUS
<1>1. view \in [frame : Sizes, k : Zooms, t : Int] /\ limits \in [min : BOOLEAN, max : BOOLEAN]
  BY DEF MapInv, ViewInv, Clamped, LimitsOf
<1>2. map \in [arcs : SUBSET Keys, active : SUBSET Keys, selected : Keys \cup {None}, hover : Keys \cup {None},
               wanted : BOOLEAN, countries : BOOLEAN, borders : BOOLEAN, loading : BOOLEAN,
               projected : BOOLEAN, basemap : {"none", "current", "old"}, settled : BOOLEAN,
               drawn : BOOLEAN, tip : Keys \cup {None}]
  BY DEF MapInv, CanvasInv, Maps
<1>. QED  BY <1>1, <1>2 DEF MapInv, MouseInv, MapTypeOK

\* The part that is looked at keeps its invariant; the others are not there.
DashboardInv ==
    /\ focus \in {"shell", "search", "line", "chatter", "precinct", "notices", "map", "join", "board", "people", "card", "kin"}
    /\ focus = "shell" => ShellInv
    /\ focus = "search" => SearchInv
    /\ focus = "line" => LineInv
    /\ focus = "chatter" => ChatterInv
    /\ focus = "precinct" => PrecinctInv
    /\ focus = "notices" => NoticesInv
    /\ focus = "map" => MapInv
    /\ focus = "join" => JoinInv
    /\ focus = "board" => BoardInv
    /\ focus = "people" => RosterInv
    /\ focus = "card" => CardInv
    /\ focus = "kin" => KinInv

LEMMA DashboardInit == Init => DashboardInv
BY PartsAssumption, ShellInit, SearchInit, LineInit, ChatterInit, PrecinctInit, NoticesInitInv, MapStarts,
   JoinInit, BoardInitInv, RosterInitInv, CardInit, KinInit
   DEF Init, DashboardInv

LEMMA DashboardStep == DashboardInv /\ [Next]_vars => DashboardInv'
<1>. SUFFICES ASSUME DashboardInv, [Next]_vars PROVE DashboardInv'
  OBVIOUS
<1>1. CASE focus = "shell"
  <2>1. focus' = "shell" /\ [Hull!Next]_shell
    BY <1>1 DEF Next, Alone, vars
  <2>2. ShellInv'
    BY <1>1, <2>1, PartsAssumption, ShellStep DEF DashboardInv
  <2>. QED  BY <2>1, <2>2 DEF DashboardInv
<1>2. CASE focus = "search"
  <2>1. focus' = "search" /\ [Search!Next]_search
    BY <1>2 DEF Next, Alone, vars
  <2>2. SearchInv'
    BY <1>2, <2>1, PartsAssumption, SearchStep DEF DashboardInv
  <2>. QED  BY <2>1, <2>2 DEF DashboardInv
<1>3. CASE focus = "line"
  <2>1. focus' = "line" /\ [Line!Next]_line
    BY <1>3 DEF Next, Alone, vars
  <2>2. LineInv'
    BY <1>3, <2>1, PartsAssumption, LineStep DEF DashboardInv
  <2>. QED  BY <2>1, <2>2 DEF DashboardInv
<1>4. CASE focus = "chatter"
  <2>1. focus' = "chatter" /\ [Chatter!Next]_chatter
    BY <1>4 DEF Next, Alone, vars
  <2>2. ChatterInv'
    BY <1>4, <2>1, PartsAssumption, ChatterStep DEF DashboardInv
  <2>. QED  BY <2>1, <2>2 DEF DashboardInv
<1>5. CASE focus = "precinct"
  <2>1. focus' = "precinct" /\ [Precinct!Next]_precinct
    BY <1>5 DEF Next, Alone, vars
  <2>2. PrecinctInv'
    BY <1>5, <2>1, PartsAssumption, PrecinctStep DEF DashboardInv
  <2>. QED  BY <2>1, <2>2 DEF DashboardInv
<1>6. CASE focus = "notices"
  <2>1. focus' = "notices" /\ [NoticesNext]_notices
    BY <1>6 DEF Next, Alone, vars
  <2>2. NoticesInv'
    BY <1>6, <2>1, PartsAssumption, NoticesStep DEF DashboardInv
  <2>. QED  BY <2>1, <2>2 DEF DashboardInv
<1>7. CASE focus = "map"
  <2>1. focus' = "map" /\ [MapNext]_mapVars
    BY <1>7 DEF Next, Alone, vars, mapVars
  <2>2. MapInv'
    BY <1>7, <2>1, PartsAssumption, MapStep DEF DashboardInv
  <2>. QED  BY <2>1, <2>2 DEF DashboardInv
<1>8. CASE focus = "join"
  <2>1. focus' = "join" /\ [Join!Next]_join
    BY <1>8 DEF Next, Alone, vars
  <2>2. JoinInv'
    BY <1>8, <2>1, PartsAssumption, JoinStep DEF DashboardInv
  <2>. QED  BY <2>1, <2>2 DEF DashboardInv
<1>9. CASE focus = "board"
  <2>1. focus' = "board" /\ [BoardNext]_boardVars
    BY <1>9 DEF Next, Alone, vars, boardVars
  <2>2. BoardInv'
    BY <1>9, <2>1, PartsAssumption, BoardStep DEF DashboardInv
  <2>. QED  BY <2>1, <2>2 DEF DashboardInv
<1>10. CASE focus = "people"
  <2>1. focus' = "people" /\ [RosterNext]_rosterVars
    BY <1>10 DEF Next, Alone, vars, rosterVars
  <2>2. RosterInv'
    BY <1>10, <2>1, PartsAssumption, RosterStep DEF DashboardInv
  <2>. QED  BY <2>1, <2>2 DEF DashboardInv
<1>11. CASE focus = "card"
  <2>1. focus' = "card" /\ [Card!Next]_card
    BY <1>11 DEF Next, Alone, vars
  <2>2. CardInv'
    BY <1>11, <2>1, PartsAssumption, CardStep DEF DashboardInv
  <2>. QED  BY <2>1, <2>2 DEF DashboardInv
<1>12. CASE focus = "kin"
  <2>1. focus' = "kin" /\ [Kin!Next]_kin
    BY <1>12 DEF Next, Alone, vars
  <2>2. KinInv'
    BY <1>12, <2>1, PartsAssumption, KinStep DEF DashboardInv
  <2>. QED  BY <2>1, <2>2 DEF DashboardInv
<1>. QED  BY <1>1, <1>2, <1>3, <1>4, <1>5, <1>6, <1>7, <1>8, <1>9, <1>10, <1>11, <1>12 DEF DashboardInv

LEMMA DashboardHolds == Spec => []DashboardInv
BY DashboardInit, DashboardStep, PTL DEF Spec

\* What is shown is of what was asked, or what makes it so is on its way (app.tsx, help.tsx,
\* toolbar.tsx, timeline.tsx, chatter.tsx, roster.tsx, widgets.tsx, precinct.tsx), for any
\* ranges, terms, layers, filters, networks and findings.
THEOREM EveryAnswerIsOfItsQuestion == Spec => []AnswersAreOfTheirQuestion
<1>1. DashboardInv => AnswersAreOfTheirQuestion
  BY PartsAssumption, PlacedIsHelpful, ChatterShows, LaidOutIsDrawn, CardShows
     DEF DashboardInv, AnswersAreOfTheirQuestion, SearchInv, LineInv, KinInv
<1>. QED  BY <1>1, DashboardHolds, PTL

\* The field shows a code as it is formatted, and the caret stays behind what was typed
\* last (caretAfterFormat, dispatch.tsx:83-87), for any alphabet, length and groups of a
\* code, and whatever is typed or pasted.
THEOREM CaretIsBehindTheTyping == Spec => []CaretFollowsTheTyping
<1>1. DashboardInv => CaretFollowsTheTyping
  BY PartsAssumption, JoinShows DEF DashboardInv, CaretFollowsTheTyping
<1>. QED  BY <1>1, DashboardHolds, PTL

\* The types of every view.
THEOREM DashboardTypeCorrect == Spec => []TypeOK
<1>1. DashboardInv => TypeOK
  <2>. SUFFICES ASSUME DashboardInv PROVE TypeOK
    OBVIOUS
  <2>1. focus = "shell" => Hull!TypeOK
    BY DEF DashboardInv, ShellInv, Placed, ShellRecords, Backs, Platforms, Hull!TypeOK
  <2>2. focus = "search" => Search!TypeOK
    BY DEF DashboardInv, SearchInv
  <2>3. focus = "line" => Line!TypeOK
    BY DEF DashboardInv, LineInv
  <2>4. focus = "chatter" => Chatter!TypeOK
    BY DEF DashboardInv, ChatterInv
  <2>5. focus = "precinct" => Precinct!TypeOK
    BY DEF DashboardInv, PrecinctInv, LaidOut, PrecinctRecords, Precinct!TypeOK
  <2>6. focus = "notices" => NoticesTypeOK
    BY DEF DashboardInv, NoticesInv, Discreet, NoticesRecords, NoticesTypeOK
  <2>7. focus = "map" => MapTypeOK
    BY MapTypes DEF DashboardInv
  <2>8. focus = "join" => Join!TypeOK
    BY PartsAssumption, JoinShows DEF DashboardInv
  <2>9. focus = "board" => BoardTypeOK
    BY DEF DashboardInv, BoardInv, Sound, BoardTypeOK, BoardRecords, RecordTypes, Held
  <2>10. focus = "people" => RosterTypeOK
    BY DEF DashboardInv, RosterInv
  <2>11. focus = "card" => Card!TypeOK
    BY DEF DashboardInv, CardInv
  <2>12. focus = "kin" => Kin!TypeOK
    BY DEF DashboardInv, KinInv
  <2>. QED  BY <2>1, <2>2, <2>3, <2>4, <2>5, <2>6, <2>7, <2>8, <2>9, <2>10, <2>11, <2>12 DEF DashboardInv, TypeOK
<1>. QED  BY <1>1, DashboardHolds, PTL

-------------------------------------------------------------------------------
\* What is not looked at stays as it starts.
Absent ==
    /\ focus # "map" => NoMap
    /\ focus # "people" => net = NoList /\ roster = Blank
    /\ focus # "notices" => NoNotices

LEMMA AbsentHolds == Spec => []Absent
<1>1. Init => Absent
  BY DEF Init, Absent
<1>2. Absent /\ [Next]_vars => Absent'
  <2>. SUFFICES ASSUME Absent, [Next]_vars PROVE Absent'
    OBVIOUS
  <2>1. focus' = focus
    BY DEF Next, Alone, vars
  <2>2. focus # "map" => UNCHANGED mapVars
    BY DEF Next, Alone, vars, mapVars
  <2>3. focus # "people" => UNCHANGED <<net, roster>>
    BY DEF Next, Alone, vars, rosterVars
  <2>4. focus # "notices" => UNCHANGED notices
    BY DEF Next, Alone, vars
  <2>. QED  BY <2>1, <2>2, <2>3, <2>4 DEF Absent, NoMap, NoNotices, mapVars
<1>. QED  BY <1>1, <1>2, PTL DEF Spec

LEMMA AbsentIsFine ==
    ASSUME DashboardInv, Absent
    PROVE  MapInv /\ RosterInv /\ NothingAnnouncedTwice
<1>1. MapInv
  <2>1. NoMap => MapInit
    BY DEF NoMap, MapInit
  <2>. QED  BY <2>1, MapStarts DEF DashboardInv, Absent
<1>2. RosterInv
  <2>1. net = NoList /\ roster = Blank => RosterInit
    BY NoListType DEF RosterInit
  <2>. QED  BY <2>1, RosterInitInv DEF DashboardInv, Absent
<1>3. NothingAnnouncedTwice
  <2>1. CASE focus = "notices"
    BY <2>1 DEF DashboardInv, NoticesInv, Discreet, NotTwice, NothingAnnouncedTwice
  <2>2. CASE focus # "notices"
    <3>1. \A f \in FindingRows : notices.told[f] = 0
      BY <2>2 DEF Absent, NoNotices
    <3>. QED  BY <3>1 DEF NothingAnnouncedTwice
  <2>. QED  BY <2>1, <2>2
<1>. QED  BY <1>1, <1>2, <1>3

\* What the dashboard keeps whichever view is looked at: the map fills its frame and its
\* still canvas shows what is held (map.tsx), a name that is being typed is not overwritten
\* (roster.tsx), and nothing is announced twice while it is remembered (bolo.tsx).
THEOREM DashboardKeepsItsViews ==
    Spec => [](FrameIsCovered /\ CanvasIsCurrent /\ TypingIsNotFought /\ NothingAnnouncedTwice)
<1>1. ASSUME DashboardInv, Absent
      PROVE  FrameIsCovered /\ CanvasIsCurrent /\ TypingIsNotFought /\ NothingAnnouncedTwice
  BY <1>1, AbsentIsFine, ViewCovers DEF MapInv, CanvasInv, RosterInv
<1>2. DashboardInv /\ Absent => FrameIsCovered /\ CanvasIsCurrent /\ TypingIsNotFought /\ NothingAnnouncedTwice
  BY <1>1
<1>. QED  BY <1>2, DashboardHolds, AbsentHolds, PTL

\* No answer of an overlapping poll takes the Wanted List back (app.tsx), in the whole
\* dashboard as well.
THEOREM DashboardNeverGoesBack == Spec => PollsNeverGoBack
<1>1. DashboardInv /\ [Next]_vars
      => [board'.wanted.at >= board.wanted.at /\ board'.findings.at >= board.findings.at]_boardVars
  <2>. SUFFICES ASSUME DashboardInv, [Next]_vars
                PROVE  [board'.wanted.at >= board.wanted.at /\ board'.findings.at >= board.findings.at]_boardVars
    OBVIOUS
  <2>1. CASE focus = "board"
    <3>1. BoardInv /\ [BoardNext]_boardVars
      BY <2>1 DEF DashboardInv, Next, Alone, vars, boardVars
    <3>2. NothingOlder
      BY <3>1, BoardStep
    <3>. QED  BY <3>2 DEF NothingOlder
  <2>2. CASE focus # "board"
    BY <2>2 DEF Next, Alone, vars, boardVars
  <2>. QED  BY <2>1, <2>2
<1>. QED  BY <1>1, DashboardHolds, PTL DEF Spec, PollsNeverGoBack
=============================================================================
