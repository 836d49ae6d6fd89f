----------------------------- MODULE DeckQueue -----------------------------
(***************************************************************************)
(* What the card reader promises for the decks its operator loads: they are *)
(* read in the order in which they were loaded, each from its first card to *)
(* its last, and none leaves the tray before its last card was read, unless *)
(* its file cannot be opened.  A deck in the hopper (the input directory)   *)
(* is there until it is in the tray, unless the operator names it in a load *)
(* command while the tray is full.  CardReader implements this.             *)
(***************************************************************************)
EXTENDS Naturals, Sequences

CONSTANTS Decks, DeckLength, Ended, Unreadable, Blank, Eoi, Capacity

VARIABLES hopper,      \* the decks in the hopper
          tray,        \* the decks loaded, oldest first
          lastCard,    \* the card the PP read last
          named        \* a command to load a deck by its name is to be executed

queueVars == <<hopper, tray, lastCard, named>>

Card(d, n) == [deck |-> d, n |-> n]

\* What is left of a tray when the decks at its head cannot be opened.
Opened(s) == {SubSeq(s, k + 1, Len(s)) :
                 k \in {i \in 0 .. Len(s) : \A j \in 1 .. i : s[j] \in Unreadable}}

Init == hopper = {} /\ tray = <<>> /\ lastCard = Blank /\ named = FALSE

Arrive == \E d \in Decks : hopper' = hopper \cup {d} /\ UNCHANGED <<tray, lastCard>>

Load == /\ Len(tray) < Capacity
        /\ \E d \in Decks : /\ tray' \in Opened(Append(tray, d))
                            /\ hopper' = hopper \ {d}
        /\ UNCHANGED lastCard

\* A deck that is named is taken from the hopper although there is no room: it is lost.
LoadInVain == /\ named /\ Len(tray) = Capacity
              /\ \E d \in hopper : hopper' = hopper \ {d}
              /\ UNCHANGED <<tray, lastCard>>

\* The next card of the deck at the head, or its first (again, if it was cut
\* short); with the last card the deck may leave the tray.
ReadCard == /\ tray # <<>>
            /\ \E n \in 1 .. DeckLength :
                  /\ n = 1 \/ lastCard = Card(Head(tray), n - 1)
                  /\ lastCard' = Card(Head(tray), n)
                  /\ tray' = tray \/ (n = DeckLength /\ tray' \in Opened(Tail(tray)))
            /\ UNCHANGED hopper

\* A deck that does not end in an end-of-information card is given one.
ReadEoi == /\ \E d \in Decks \ Ended : lastCard = Card(d, DeckLength)
           /\ lastCard' = Eoi
           /\ UNCHANGED <<hopper, tray>>

\* The operator may give a command, and it may be done, in any step.
Next == /\ Arrive \/ Load \/ LoadInVain \/ ReadCard \/ ReadEoi
             \/ UNCHANGED <<hopper, tray, lastCard>>
        /\ named' \in BOOLEAN

Spec == Init /\ [][Next]_queueVars

=============================================================================
