--------------------------- MODULE PairingConsent ---------------------------
(***************************************************************************)
(* What pairing promises, without the messages: an instance pins another   *)
(* only because a code one of them displayed was entered on the other, and *)
(* a code is good for one acceptance.  PairingExchange implements this.    *)
(***************************************************************************)
CONSTANTS
  Machines,
  Codes,     \* every code that may ever be displayed
  Displayer  \* from code to the machine that displays it: its key tag

VARIABLES
  offers,    \* the codes on display
  entered,   \* <<j, c>>: code c was entered on machine j, and is being tried
  accepted,  \* <<j, c>>: the machine that displayed c has accepted j for it
  pairs      \* <<a, b>>: a has pinned b

abstractVars == <<offers, entered, accepted, pairs>>

AbstractInit ==
  /\ offers = {}
  /\ entered = {}
  /\ accepted = {}
  /\ pairs = {}

\* A code that was good once is never on display again.
Display(c) ==
  /\ \A j \in Machines : <<j, c>> \notin accepted
  /\ offers' = offers \cup {c}
  /\ UNCHANGED <<entered, accepted, pairs>>

\* Codes closed by the operator, by time, by a crash or by an attempt that
\* failed, and attempts that end.
Withdraw(cs, tries) ==
  /\ offers' = offers \ cs
  /\ entered' = entered \ tries
  /\ UNCHANGED <<accepted, pairs>>

Enter(j, c) ==
  /\ entered' = entered \cup {<<j, c>>}
  /\ UNCHANGED <<offers, accepted, pairs>>

\* Accepting consumes the code.
Accept(j, c) ==
  /\ c \in offers
  /\ <<j, c>> \in entered
  /\ offers' = offers \ {c}
  /\ accepted' = accepted \cup {<<j, c>>}
  /\ UNCHANGED <<entered, pairs>>

\* One of the two pins the other, which may be the end of the attempt.
Pin(j, c, tries) ==
  /\ <<j, c>> \in accepted
  /\ \/ pairs' = pairs \cup {<<Displayer[c], j>>}
     \/ pairs' = pairs \cup {<<j, Displayer[c]>>}
  /\ entered' = entered \ tries
  /\ UNCHANGED <<offers, accepted>>

\* Unilateral, and at once.
Unpair(a, b) ==
  /\ pairs' = pairs \ {<<a, b>>}
  /\ UNCHANGED <<offers, entered, accepted>>

AbstractNext ==
  \/ \E c \in Codes : Display(c)
  \/ \E cs \in SUBSET Codes, tries \in SUBSET entered : Withdraw(cs, tries)
  \/ \E j \in Machines, c \in Codes : Enter(j, c) \/ Accept(j, c)
  \/ \E j \in Machines, c \in Codes, tries \in SUBSET entered : Pin(j, c, tries)
  \/ \E a, b \in Machines : Unpair(a, b)

AbstractSpec == AbstractInit /\ [][AbstractNext]_abstractVars
=============================================================================
