------------------------------ MODULE MostWanted ------------------------------
\* The card at the foot of the sidebar (MostWanted of web/src/widgets.tsx): three of the
\* findings the service gave, which come newest first, the worst of them on top.
EXTENDS Naturals, Sequences, FiniteSets

CONSTANTS
    Scores,   \* in tenths
    Times,    \* when a finding was raised
    Asked,    \* how many are asked for
    None

MostWantedAssumption ==
    Scores \subseteq 0..10 /\ Times \subseteq Nat /\ Asked \in Nat

Rows == 3

\* What the service answers: open findings, newest first.
Newest(fs) == \A i, j \in DOMAIN fs : i < j => fs[i].ts >= fs[j].ts
Answers == {fs \in UNION {[1..n -> [score : Scores, ts : Times]] : n \in 0..Asked} : Newest(fs)}

VARIABLE card   \* the findings, unless none have been asked for; the row opened

TypeOK == card \in [found : Answers \cup {None}, opened : 0..Asked]

Init == card = [found |-> None, opened |-> 0]

\* By severity; ties on recency, and then as they came.
Before(i, j) ==
    LET f == card.found[i]
        g == card.found[j]
    IN  \/ f.score > g.score
        \/ f.score = g.score /\ (f.ts > g.ts \/ (f.ts = g.ts /\ i < j))

CardShown == card.found # None

\* A finding stands behind as many as come before it.
Place(i) == 1 + Cardinality({j \in DOMAIN card.found : Before(j, i)})
Ranked == [k \in DOMAIN card.found |-> CHOOSE i \in DOMAIN card.found : Place(i) = k]
Shown == SubSeq(Ranked, 1, IF Len(Ranked) < Rows THEN Len(Ranked) ELSE Rows)
Extra == Len(Ranked) - Len(Shown)
Quiet == CardShown /\ card.found = <<>>

StarsFor(score) == IF score >= 9 THEN 3 ELSE IF score >= 7 THEN 2 ELSE 1

Arrives == \E fs \in Answers \ {card.found} : card' = [found |-> fs, opened |-> 0]

\* A row that is about a device opens it.
Opens == CardShown /\ \E n \in DOMAIN Shown : card' = [card EXCEPT !.opened = Shown[n]]

Next == Arrives \/ Opens

\* Whatever order the findings come in, the card lists none twice, counts every one it
\* does not list, puts none above a worse one, or, as bad, above a later one, and leaves
\* none out that deserves more stars than one it lists (widgets.tsx:219 "A card called
\* 'most wanted' that puts a one-star arrival above a three-star one is simply
\* mislabelled").
WorstAreShown ==
    CardShown =>
        LET left == DOMAIN card.found \ {Shown[n] : n \in DOMAIN Shown}
            Stars(i) == StarsFor(card.found[i].score)
        IN  /\ Len(Shown) <= Rows /\ (Quiet <=> Shown = <<>>)
            /\ Extra = Cardinality(left)
            /\ \A n, m \in DOMAIN Shown : n < m =>
                 LET f == card.found[Shown[n]]
                     g == card.found[Shown[m]]
                 IN  /\ Shown[n] # Shown[m] /\ f.score >= g.score
                     /\ f.score = g.score => f.ts >= g.ts
            /\ \A i \in left, n \in DOMAIN Shown : Stars(i) <= Stars(Shown[n])
            /\ card.opened # 0 => card.opened \notin left
=============================================================================
