------------------------------- MODULE JoinDialog -------------------------------
\* The machine that joins (EnterCode and the code's field in web/src/dispatch.tsx,
\* the paste button of clip.tsx): a code that is regrouped as it is typed, sent once
\* it is whole, and a dialog that closes itself a moment after it has worked.
EXTENDS Naturals, Sequences, FiniteSets

CONSTANTS
    Alphabet,    \* characters of a code
    Confused,    \* characters read as another one, as I is as 1
    ReadAs(_),   \* what each of them is read as
    Foreign,     \* characters no code has, the separator among them
    CodeChars,   \* length of a code
    CodeGroup,   \* length of its groups
    Dash,        \* the separator
    Pasted       \* what is typed or pasted at once

JoinAssumption ==
    /\ CodeChars \in Nat \ {0} /\ CodeGroup \in Nat \ {0}
    /\ Dash \in Foreign /\ Foreign \cap (Alphabet \cup Confused) = {} /\ Alphabet \cap Confused = {}
    /\ \A ch \in Confused : ReadAs(ch) \in Alphabet
    /\ \A p \in Pasted : p \in Seq(Alphabet \cup Confused \cup Foreign)

\* text and caret: the field; behind: the characters of the code the reader has put
\* before the caret, a history of its edits; busy, done: what the dialog says; sent: answers to come,
\* with whether the dialog that asked is still the one shown; timer: a dialog is to close.
VARIABLE join

-------------------------------------------------------------------------------
\* The code, regrouped.

Folded(ch) == IF ch \in Confused THEN ReadAs(ch) ELSE ch
InCode(ch) == Folded(ch) \in Alphabet

\* How many of the first i characters belong to a code, and those that do, folded.
Counted(s, i) == Cardinality({j \in 1..i : InCode(s[j])})
Nth(s, n) == CHOOSE i \in 1..Len(s) : InCode(s[i]) /\ Counted(s, i) = n
Kept(s) == [n \in 1..Counted(s, Len(s)) |-> Folded(s[Nth(s, n)])]

\* Slip: what is too long is kept.
Cut_Slip(s) == s
Cut(s) == IF Len(s) > CodeChars THEN SubSeq(s, 1, CodeChars) ELSE s

Dashes(n) == IF n = 0 THEN 0 ELSE (n - 1) \div CodeGroup
Grouped(s) ==
    [j \in 1..(Len(s) + Dashes(Len(s))) |->
        IF j % (CodeGroup + 1) = 0 THEN Dash ELSE s[j - j \div (CodeGroup + 1)]]

FormatJoinCode(raw) == Grouped(Cut(Kept(raw)))

\* Slip: the dashes before the caret are not counted.
CaretAfterFormat_Slip(raw, caret) == Len(Cut(Kept(SubSeq(raw, 1, caret))))
CaretAfterFormat(raw, caret) ==
    LET n == Len(Cut(Kept(SubSeq(raw, 1, caret)))) IN n + Dashes(n)

JoinCodeRemaining(text) == CodeChars - Len(Kept(text))

-------------------------------------------------------------------------------
Places == 0..(CodeChars + Dashes(CodeChars))
Codes == {Grouped(s) : s \in UNION {[1..n -> Alphabet] : n \in 0..CodeChars}}
Closed == [open |-> FALSE, text |-> <<>>, caret |-> 0, behind |-> <<>>, busy |-> FALSE, done |-> FALSE]

TypeOK ==
    /\ join \in [open : BOOLEAN, text : Codes, caret : Places, behind : Seq(Alphabet), busy : BOOLEAN,
                 done : BOOLEAN, sent : {"none", "mine", "orphan"}, timer : BOOLEAN]
    /\ join.caret <= Len(join.text)

Dialog(d, sent, timer) ==
    [open |-> d.open, text |-> d.text, caret |-> d.caret, behind |-> d.behind, busy |-> d.busy, done |-> d.done,
     sent |-> sent, timer |-> timer]
WithDialog(d) == Dialog(d, IF join.sent = "none" THEN "none" ELSE "orphan", join.timer)

Init == join = Dialog(Closed, "none", FALSE)

Open == ~join.open /\ join' = WithDialog([Closed EXCEPT !.open = TRUE])
Close == join.open /\ join' = WithDialog(Closed)

\* What the browser makes of a key, a paste or a deletion over what is selected.
Edited(text, from, to, what) == SubSeq(text, 1, from) \o what \o SubSeq(text, to + 1, Len(text))

\* onInput.
Edit(from, to, what) ==
    /\ join.open /\ from <= to /\ to <= Len(join.text)
    /\ LET raw == Edited(join.text, from, to, what)
       IN  join' = [join EXCEPT !.text = FormatJoinCode(raw),
                                !.caret = CaretAfterFormat(raw, from + Len(what)),
                                !.behind = Cut(Kept(SubSeq(raw, 1, from + Len(what))))]

Input == \E from, to \in Places, what \in Pasted \cup {<<>>} : Edit(from, to, what)

Behind(text, c) == Kept(SubSeq(text, 1, c))
MoveCaret ==
    /\ join.open
    /\ \E c \in 0..Len(join.text) : join' = [join EXCEPT !.caret = c, !.behind = Behind(join.text, c)]

\* The button, where the browser lets the clipboard be read. The caret ends up behind.
PasteButton ==
    /\ join.open
    /\ \E what \in Pasted :
         LET text == FormatJoinCode(what)
         IN  join' = [join EXCEPT !.text = text, !.caret = Len(text), !.behind = Behind(text, Len(text))]

-------------------------------------------------------------------------------
\* A whole code is sent; the protocol has one attempt for it.
Submit ==
    /\ join.open /\ ~join.busy /\ JoinCodeRemaining(join.text) = 0 /\ join.sent = "none"
    /\ join' = [join EXCEPT !.busy = TRUE, !.done = FALSE, !.sent = "mine"]

\* It has worked: the dialog says so and closes itself, whichever is open by then.
Joined ==
    /\ join.sent # "none"
    /\ join' = [join EXCEPT !.sent = "none", !.timer = TRUE,
                            !.busy = @ /\ join.sent # "mine", !.done = @ \/ join.sent = "mine"]

Refused ==
    /\ join.sent # "none"
    /\ join' = [join EXCEPT !.sent = "none", !.busy = @ /\ join.sent # "mine"]

TimerFires ==
    /\ join.timer
    /\ join' = [WithDialog(Closed) EXCEPT !.timer = FALSE]

Next ==
    \/ Open \/ Close \/ Input \/ MoveCaret \/ PasteButton
    \/ Submit \/ Joined \/ Refused \/ TimerFires

Spec == Init /\ [][Next]_join

-------------------------------------------------------------------------------
\* However a code is corrected in the middle, pasted over or typed with its dashes,
\* the field shows a code as the other machine shows it, unchanged by being formatted
\* again, and the caret stays behind the character the reader typed last: as many
\* characters of the code are before it as were before the field was rewritten
\* (caretAfterFormat, dispatch.tsx:83-87).
CaretFollowsTheTyping ==
    /\ Behind(join.text, join.caret) = join.behind
    /\ FormatJoinCode(join.text) = join.text
=============================================================================
