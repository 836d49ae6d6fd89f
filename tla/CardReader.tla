---------------------------- MODULE CardReader ----------------------------
(***************************************************************************)
(* The 405 card reader (cr405.c) and the operator interface that loads its  *)
(* decks (operator.c).                                                      *)
(*                                                                         *)
(* The operator's thread reads command lines and hands them, one at a time, *)
(* to the main thread, which executes them between two turns of the PPs.    *)
(* The command load_cards names a file, which may be in the reader's input  *)
(* directory, the hopper, or "*" for the newest deck there (no output       *)
(* directory is configured, and the directory is not watched); pause stops  *)
(* the main thread until the operator types another line.  Other commands,  *)
(* and the preparation of a deck, change nothing here; a preparation that   *)
(* fails leaves all as it is.                                               *)
(*                                                                         *)
(* Loaded decks wait in a tray of MaxDecks slots used as a ring.  A card    *)
(* has Columns columns, read one by one by a PP.  The files and the program *)
(* in the PP are external.                                                  *)
(***************************************************************************)
EXTENDS Integers, SequencesExt

CONSTANTS Decks,         \* the decks of cards there are
          DeckLength,    \* the cards of each
          Ended,         \* those whose last card is a 6/7/8/9 card
          Unreadable,    \* those whose file cannot be opened when their turn comes
          MaxDecks,      \* slots of the tray: Cr405MaxDecks
          Columns,       \* of a card: 80
          Blank, Eoi,    \* the card there is at first; the 6/7/8/9 card that is faked
          NoDeck, NoLine

ASSUME DecksAssumption == Ended \subseteq Decks /\ Unreadable \subseteq Decks
ASSUME SizesAssumption == /\ DeckLength \in Nat \ {0} /\ Columns \in Nat \ {0}
                          /\ MaxDecks \in Nat \ {0}
Slots    == 0 .. MaxDecks - 1
NoFile   == 0                            \* fcb: no deck is open
Commands == {"load", "loadNext", "pause"}
ASSUME LinesAssumption == NoLine \notin Commands

Card(d, n) == [deck |-> d, n |-> n]
Cards == [deck : Decks, n : 1 .. DeckLength]
ASSUME NamesAssumption == NoDeck \notin Decks /\ Blank # Eoi /\ Blank \notin Cards /\ Eoi \notin Cards

VARIABLES files, hopper,                 \* decks not submitted yet; the hopper, newest last
          decks, inDeck, outDeck,        \* the tray
          fcb,                           \* the cards read from decks[outDeck], or NoFile
          card, col,                     \* the card at the read station, its next column
          line, opCmdFunction,           \* a line the operator's thread has read; its command
          opActive, opPaused, mainPc,
          lastCard, cut                  \* history: the card read last; a load stopped a deck

trayVars    == <<decks, inDeck, outDeck>>
stationVars == <<fcb, card, col, cut>>
readerVars  == <<files, hopper, trayVars, stationVars, lastCard>>
operatorVars == <<line, opCmdFunction, opActive, opPaused, mainPc>>
vars == <<readerVars, operatorVars>>

Init == /\ files = Decks /\ hopper = <<>>
        /\ decks = [i \in Slots |-> NoDeck] /\ inDeck = 0 /\ outDeck = 0
        /\ fcb = NoFile /\ card = Blank /\ col = Columns
        /\ line = NoLine /\ opCmdFunction = NoLine
        /\ opActive = FALSE /\ opPaused = FALSE /\ mainPc = "loop"
        /\ lastCard = Blank /\ cut = FALSE

-----------------------------------------------------------------------------
(* The tray.                                                               *)

Slot(i) == i % MaxDecks

TrayFullUnseen == FALSE  \* mutation

TrayFull == Slot(inDeck + 1) = outDeck

\* The decks between two indices of the ring, oldest first.
Queued(slots, out, in) == [i \in 1 .. Slot(in - out) |-> slots[Slot(out + i - 1)]]

Tray == Queued(decks, outDeck, inDeck)

-----------------------------------------------------------------------------
(* Reading.                                                                *)

IsEoi(c) == c = Eoi \/ \E d \in Ended : c = Card(d, DeckLength)

StartNextDeckOnce(out, c, n) ==  \* mutation
    /\ cut' = FALSE
    /\ \/ /\ out # inDeck' /\ decks'[out] \notin Unreadable
          /\ outDeck' = out
          /\ fcb' = 1 /\ card' = Card(decks'[out], 1) /\ col' = 0
       \/ /\ out = inDeck' \/ decks'[out] \in Unreadable
          /\ outDeck' = IF out = inDeck' THEN out ELSE Slot(out + 1)
          /\ fcb' = NoFile /\ card' = c /\ col' = n

\* The first deck that can be opened is, and its first card comes to the read
\* station; those before it are thrown away.  Without one, the station keeps c
\* at column n.
StartNextDeck(out, c, n) ==
    \E skipped \in 0 .. Slot(inDeck' - out) :
        LET o == Slot(out + skipped)
        IN  /\ \A i \in 0 .. skipped - 1 : decks'[Slot(out + i)] \in Unreadable
            /\ outDeck' = o /\ cut' = FALSE
            /\ \/ /\ o # inDeck' /\ decks'[o] \notin Unreadable
                  /\ fcb' = 1 /\ card' = Card(decks'[o], 1) /\ col' = 0
               \/ /\ o = inDeck'
                  /\ fcb' = NoFile /\ card' = c /\ col' = n

EndOfFileUnended ==  \* mutation
    UNCHANGED <<decks, inDeck>> /\ StartNextDeck(Slot(outDeck + 1), card, Columns)

\* The file is at its end: the deck leaves the tray, a 6/7/8/9 card is faked
\* unless it was the last one, and the next deck is started, over the faked card.
EndOfFile ==
    /\ UNCHANGED <<decks, inDeck>>
    /\ IF IsEoi(card) THEN StartNextDeck(Slot(outDeck + 1), card, Columns)
                      ELSE StartNextDeck(Slot(outDeck + 1), Eoi, 0)

NextCard ==
    \/ /\ fcb = NoFile
       /\ col' = Columns
       /\ UNCHANGED <<trayVars, fcb, card, cut>>
    \/ /\ fcb # NoFile /\ fcb < DeckLength
       /\ fcb' = fcb + 1 /\ card' = Card(decks[outDeck], fcb + 1) /\ col' = 0
       /\ UNCHANGED <<trayVars, cut>>
    \/ /\ fcb = DeckLength
       /\ EndOfFile

\* A PP, to whom the reader is ready, takes a column.
Io == /\ mainPc = "loop"
      /\ fcb # NoFile \/ col < Columns
      /\ IF col + 1 < Columns
         THEN col' = col + 1 /\ UNCHANGED <<trayVars, fcb, card, cut, lastCard>>
         ELSE lastCard' = card /\ NextCard
      /\ UNCHANGED <<files, hopper, operatorVars>>

-----------------------------------------------------------------------------
(* Loading.                                                                *)

\* A deck is put into the tray, and started if none is open.  The deck that is
\* open is closed and stays first in the tray, to be started again by the next load.
LoadCards(d) ==
    IF TrayFull THEN UNCHANGED <<trayVars, stationVars>>
    ELSE /\ decks' = [decks EXCEPT ![inDeck] = d]
         /\ inDeck' = Slot(inDeck + 1)
         /\ \/ fcb = NoFile /\ StartNextDeck(outDeck, card, col)
            \/ /\ fcb # NoFile
               /\ fcb' = NoFile /\ cut' = TRUE
               /\ UNCHANGED <<outDeck, card, col>>

\* A deck is taken from the hopper: once it is prepared, its file there is deleted, and
\* only then does the reader look for room in the tray.  If there is none, the prepared
\* copy is left, a file like others.
LoadFromHopper(i) == /\ hopper' = RemoveAt(hopper, i)
                     /\ LoadCards(hopper[i])
                     /\ files' = IF TrayFull THEN files \cup {hopper[i]} ELSE files

\* load_cards of a file: without room in the tray it can be loaded again.
Load == \/ /\ \E d \in files : LoadCards(d) /\ files' = IF TrayFull THEN files ELSE files \ {d}
           /\ UNCHANGED hopper
        \/ \E i \in 1 .. Len(hopper) : LoadFromHopper(i)
        \/ UNCHANGED <<files, hopper, trayVars, stationVars>>

\* load_cards of "*": the newest deck, if there is room.
LoadNext == \/ hopper # <<>> /\ ~TrayFull /\ LoadFromHopper(Len(hopper))
            \/ UNCHANGED <<files, hopper, trayVars, stationVars>>

\* Somebody puts a deck into the hopper.
Arrive == \E d \in files : /\ files' = files \ {d} /\ hopper' = Append(hopper, d)
                           /\ UNCHANGED <<trayVars, stationVars, lastCard, operatorVars>>

-----------------------------------------------------------------------------
(* The operator's thread and the main thread.                              *)

\* The operator's thread waits until the last command is done.  The end of any
\* line, an empty one too, ends a pause.
OpReadLine == /\ line = NoLine /\ ~opActive
              /\ opPaused' = FALSE
              /\ line' \in Commands \cup {NoLine}
              /\ UNCHANGED <<readerVars, opCmdFunction, opActive, mainPc>>

OpRequestCommand == /\ line # NoLine
                    /\ opCmdFunction' = line /\ opActive' = TRUE
                    /\ line' = NoLine
                    /\ UNCHANGED <<readerVars, opPaused, mainPc>>

ExecuteLoad == /\ \/ opCmdFunction = "load" /\ Load
                  \/ opCmdFunction = "loadNext" /\ LoadNext
               /\ UNCHANGED <<lastCard, opPaused, mainPc>>

PauseStillActive == /\ opCmdFunction = "pause" /\ opPaused' = TRUE /\ opActive' = TRUE  \* mutation
                    /\ mainPc' = "paused"
                    /\ UNCHANGED readerVars

\* The command is over for the operator's thread while the main thread waits.
Pause == /\ opCmdFunction = "pause" /\ opPaused' = TRUE /\ opActive' = FALSE
         /\ mainPc' = "paused"
         /\ UNCHANGED readerVars

OpRequest == /\ mainPc = "loop" /\ opActive
             /\ Pause \/ (ExecuteLoad /\ opActive' = FALSE)
             /\ UNCHANGED <<line, opCmdFunction>>

\* The pause is over and opRequest returns: a command that the operator's thread
\* requested meanwhile is not executed.
Resume == /\ mainPc = "paused" /\ ~opPaused
          /\ mainPc' = "loop" /\ opActive' = FALSE
          /\ UNCHANGED <<readerVars, line, opCmdFunction, opPaused>>

Next == Arrive \/ OpReadLine \/ OpRequestCommand \/ OpRequest \/ Resume \/ Io

Spec == Init /\ [][Next]_vars

\* The threads run; every turn of the main thread's loop comes to the PPs, one
\* of which keeps reading cards while there are any.
FairSpec == Spec /\ WF_vars(OpRequestCommand) /\ WF_vars(OpRequest) /\ WF_vars(Resume)
                 /\ SF_vars(Io)

-----------------------------------------------------------------------------
(* Properties.                                                             *)

TypeOK == /\ files \subseteq Decks /\ hopper \in Seq(Decks)
          /\ decks \in [Slots -> Decks \cup {NoDeck}] /\ inDeck \in Slots /\ outDeck \in Slots
          /\ fcb \in 0 .. DeckLength /\ col \in 0 .. Columns
          /\ card \in Cards \cup {Blank, Eoi} /\ lastCard \in Cards \cup {Blank, Eoi}
          /\ line \in Commands \cup {NoLine} /\ opCmdFunction \in Commands \cup {NoLine}
          /\ opActive \in BOOLEAN /\ opPaused \in BOOLEAN /\ mainPc \in {"loop", "paused"}
          /\ cut \in BOOLEAN

\* Unless a load has stopped a deck in the middle, the reader is idle only when
\* its tray is empty, and not ready only when the PP has had a 6/7/8/9 card after
\* the last card of the last job: cr405NextCard, line 1072.
JobsAreEnded == fcb = NoFile /\ ~cut => /\ inDeck = outDeck
                                        /\ col = Columns => lastCard = Blank \/ IsEoi(lastCard)

\* The ring is a queue of at most MaxDecks - 1 decks; the PP gets the cards of
\* each from the first on, and no deck is lost between hopper and tray, except one that
\* load_cards names while the tray is full (operator.c:2864, before cr405.c:535).
Queue == INSTANCE DeckQueue
            WITH hopper <- {hopper[i] : i \in 1 .. Len(hopper)},
                 tray <- Tray, Capacity <- MaxDecks - 1,
                 named <- opActive /\ opCmdFunction = "load"
TraySpec == Queue!Spec

\* Unless a load stops the reader for good or a pause never ends, every deck
\* leaves the tray.
InTray(d) == \E i \in 1 .. Len(Tray) : Tray[i] = d
DecksAreRead == <>[]~cut /\ []<>(mainPc = "loop")
                   => \A d \in Decks : InTray(d) ~> ~InTray(d)

\* Every request of the operator is taken back by the main thread, and an
\* operator who goes on typing ends every pause.
OperatorIsServed == /\ opActive ~> ~opActive
                    /\ WF_vars(OpReadLine) => (mainPc = "paused" ~> mainPc = "loop")

=============================================================================
