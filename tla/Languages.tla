------------------------------- MODULE Languages -------------------------------
\* The language of the page (web/src/i18n/index.tsx, langpicker.tsx): English is part of
\* it, every other catalogue is a chunk fetched when its language is chosen.
EXTENDS Naturals, FiniteSets

CONSTANTS Others, RightToLeft

LanguageAssumption == IsFiniteSet(Others) /\ RightToLeft \subseteq Others /\ "en" \notin Others

Langs == {"en"} \cup Others
DirFor(l) == IF l \in RightToLeft THEN "rtl" ELSE "ltr"

\* stored: the preference of the browser; lang and dir: of the document; catalog: whose
\* texts are on screen; pending: nothing is on screen; loaded: catalogues held; loads:
\* chunks asked for; menu: the list of languages is open.
VARIABLE speech

TypeOK ==
    speech \in [stored : Langs, lang : Langs, dir : {"ltr", "rtl"}, catalog : Langs, pending : BOOLEAN,
                loaded : SUBSET Langs, loads : SUBSET Others, menu : BOOLEAN]

\* A page that starts in another language than English shows nothing until it has it.
Started(saved) ==
    [stored |-> saved, lang |-> saved, dir |-> DirFor(saved), catalog |-> "en", pending |-> saved # "en",
     loaded |-> {"en"}, loads |-> {saved} \ {"en"}, menu |-> FALSE]

Init == \E l \in Langs : speech = Started(l)

MenuToggles == ~speech.pending /\ speech' = [speech EXCEPT !.menu = ~@]

\* Applied at once; the texts follow when the catalogue is there.
SetLang(l) ==
    /\ speech.menu
    /\ speech' = [speech EXCEPT !.lang = l, !.dir = DirFor(l), !.stored = l, !.menu = FALSE,
                                !.catalog = IF l \in speech.loaded THEN l ELSE @,
                                !.loads = IF l \in speech.loaded THEN @ ELSE @ \cup {l}]

ChunkArrives(l) ==
    /\ l \in speech.loads
    /\ speech' = [speech EXCEPT !.loads = @ \ {l}, !.loaded = @ \cup {l}, !.catalog = l, !.pending = FALSE]

\* A chunk that will not load is English, and is asked for again the next time.
Instead(s) == [s EXCEPT !.catalog = "en", !.pending = FALSE]

ChunkFails(l) ==
    /\ l \in speech.loads
    /\ speech' = [Instead(speech) EXCEPT !.loads = @ \ {l}]

Reloads == speech' = Started(speech.stored)

Next ==
    \/ MenuToggles \/ Reloads
    \/ \E l \in Langs : SetLang(l)
    \/ \E l \in Others : ChunkArrives(l) \/ ChunkFails(l)

\* A page with nothing on screen gets its texts, whether the chunk of its language loads
\* or not (index.tsx:42-44 "A chunk that will not load must not leave the interface blank").
PageIsNotLeftBlank == []<>~speech.pending
=============================================================================
