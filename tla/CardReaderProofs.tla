------------------------- MODULE CardReaderProofs -------------------------
(***************************************************************************)
(* Theorems about CardReader, for any decks, any size of the tray and any  *)
(* number of columns.                                                      *)
(***************************************************************************)
EXTENDS CardReader, SequenceTheorems, TLAPS

USE SizesAssumption DEF Slots

-----------------------------------------------------------------------------
(* Indices of the ring.                                                    *)

\* An index taken modulo the size of the tray is a slot.
LEMMA SlotType == ASSUME NEW i \in Int PROVE Slot(i) \in Slots
  BY DEF Slot

\* The sum of a slot and a distance wraps around at most once.
LEMMA SlotSum ==
  ASSUME NEW i \in Slots, NEW j \in Slots
  PROVE  /\ Slot(i) = i
         /\ Slot(i + 1) = IF i + 1 = MaxDecks THEN 0 ELSE i + 1
         /\ Slot(i + j) = IF i + j < MaxDecks THEN i + j ELSE i + j - MaxDecks
  <1>1. Slot(i) = i
    BY DEF Slot
  <1>2. Slot(i + 1) = IF i + 1 = MaxDecks THEN 0 ELSE i + 1
    BY DEF Slot
  <1>3. Slot(i + j) = IF i + j < MaxDecks THEN i + j ELSE i + j - MaxDecks
    BY DEF Slot
  <1> QED BY <1>1, <1>2, <1>3

\* So does the difference of two slots.
LEMMA SlotDifference ==
  ASSUME NEW i \in Slots, NEW j \in Slots
  PROVE  Slot(i - j) = IF j <= i THEN i - j ELSE i - j + MaxDecks
  BY DEF Slot

-----------------------------------------------------------------------------
(* The inductive invariant.                                                *)

\* Slot i is between the two indices of the ring.
InRing(i, out, in) == IF out <= in THEN out <= i /\ i < in ELSE out <= i \/ i < in

RingHolds(slots, out, in) == \A i \in Slots : InRing(i, out, in) => slots[i] \in Decks

StationOK ==
    /\ fcb # NoFile => /\ col < Columns /\ ~cut
                       /\ outDeck # inDeck /\ decks[outDeck] \notin Unreadable
    /\ cut => fcb = NoFile /\ outDeck # inDeck /\ decks[outDeck] \notin Unreadable
    /\ fcb = NoFile /\ ~cut => inDeck = outDeck /\ (card = Blank \/ IsEoi(card))
    /\ col = Columns => lastCard = card

RingOK == RingHolds(decks, outDeck, inDeck)

IInv == TypeOK /\ RingOK /\ StationOK

CardTypes == Cards \cup {Blank, Eoi}

\* What is in the ring from a later index on is in the ring.
LEMMA RingSuffix ==
  ASSUME NEW out \in Slots, NEW in \in Slots, NEW k \in 0 .. Slot(in - out),
         NEW i \in Slots, InRing(i, Slot(out + k), in)
  PROVE  InRing(i, out, in)
  <1>1. Slot(in - out) \in Slots
    BY SlotType
  <1>2. k \in Slots
    BY <1>1
  <1>3. CASE out <= in
    <2>1. Slot(in - out) = in - out
      BY <1>3, SlotDifference
    <2>2. Slot(out + k) = out + k
      BY <1>2, <1>3, <2>1, SlotSum
    <2> QED BY <1>3, <2>1, <2>2 DEF InRing
  <1>4. CASE ~(out <= in)
    <2>1. Slot(in - out) = in - out + MaxDecks
      BY <1>4, SlotDifference
    <2>2. CASE out + k < MaxDecks
      <3>1. Slot(out + k) = out + k
        BY <1>2, <2>2, SlotSum
      <3> QED BY <1>2, <1>4, <2>1, <2>2, <3>1 DEF InRing
    <2>3. CASE ~(out + k < MaxDecks)
      <3>1. Slot(out + k) = out + k - MaxDecks
        BY <1>2, <2>3, SlotSum
      <3> QED BY <1>2, <1>4, <2>1, <2>3, <3>1 DEF InRing
    <2> QED BY <2>2, <2>3
  <1> QED BY <1>3, <1>4

-----------------------------------------------------------------------------
(* The operations of the reader.                                           *)

\* Starting the next deck opens one that is in the tray, or empties the tray and
\* leaves the card at the read station alone; a readable deck is not passed over.
LEMMA StartNextDeckLemma ==
  ASSUME NEW out \in Slots, inDeck' \in Slots, decks' \in [Slots -> Decks \cup {NoDeck}],
         RingHolds(decks', out, inDeck'), NEW c \in CardTypes, NEW n \in 0 .. Columns,
         StartNextDeck(out, c, n)
  PROVE  /\ outDeck' \in Slots /\ cut' = FALSE
         /\ RingHolds(decks', outDeck', inDeck')
         /\ \/ /\ fcb' = 1 /\ col' = 0 /\ card' \in Cards
               /\ outDeck' # inDeck' /\ decks'[outDeck'] \notin Unreadable
            \/ /\ fcb' = NoFile /\ col' = n /\ card' = c /\ outDeck' = inDeck'
               /\ out = inDeck' \/ decks'[out] \in Unreadable
  <1>1. PICK skipped \in 0 .. Slot(inDeck' - out) :
           LET o == Slot(out + skipped)
           IN  /\ \A i \in 0 .. skipped - 1 : decks'[Slot(out + i)] \in Unreadable
               /\ outDeck' = o /\ cut' = FALSE
               /\ \/ /\ o # inDeck' /\ decks'[o] \notin Unreadable
                     /\ fcb' = 1 /\ card' = Card(decks'[o], 1) /\ col' = 0
                  \/ /\ o = inDeck'
                     /\ fcb' = NoFile /\ card' = c /\ col' = n
    BY DEF StartNextDeck
  <1>2. Slot(inDeck' - out) \in Slots /\ skipped \in Slots
    BY SlotType
  <1>3. outDeck' \in Slots
    BY <1>1, <1>2, SlotType
  <1>4. outDeck' = Slot(out + skipped)
    BY <1>1
  <1>5. \A i \in Slots : InRing(i, outDeck', inDeck') => InRing(i, out, inDeck')
    BY <1>4, RingSuffix
  <1>6. RingHolds(decks', outDeck', inDeck')
    BY <1>5 DEF RingHolds
  <1>7. CASE outDeck' # inDeck'
    <2>1. InRing(outDeck', outDeck', inDeck')
      BY <1>3, <1>7 DEF InRing
    <2>2. decks'[outDeck'] \in Decks
      BY <2>1, <1>3, <1>6 DEF RingHolds
    <2>3. card' \in Cards
      BY <1>1, <1>7, <2>2 DEF Card, Cards
    <2> QED BY <1>1, <1>3, <1>6, <1>7, <2>3
  <1>8. CASE outDeck' = inDeck'
    <2>1. CASE skipped = 0
      <3>1. Slot(out + 0) = out
        BY SlotSum
      <3>2. outDeck' = out
        BY <1>4, <2>1, <3>1
      <3> QED BY <1>1, <1>3, <1>6, <1>8, <3>2
    <2>2. CASE skipped # 0
      <3>1. Slot(out + 0) = out
        BY SlotSum
      <3>2. 0 \in 0 .. skipped - 1
        BY <1>2, <2>2
      <3>3. decks'[out] \in Unreadable
        BY <1>1, <3>1, <3>2
      <3> QED BY <1>1, <1>3, <1>6, <1>8, <3>3
    <2> QED BY <2>1, <2>2
  <1> QED BY <1>7, <1>8

\* The variables of the station after one of the operations below.
StationTypes == /\ inDeck \in Slots /\ outDeck \in Slots
                /\ decks \in [Slots -> Decks \cup {NoDeck}]
                /\ fcb \in 0 .. DeckLength /\ col \in 0 .. Columns
                /\ card \in CardTypes /\ cut \in BOOLEAN

\* After the last column of a card, the reader holds the next card, or none.
LEMMA NextCardLemma ==
  ASSUME IInv, lastCard' = card, NextCard
  PROVE  StationTypes' /\ RingOK' /\ StationOK'
  <1> USE DEF IInv, NoFile
  <1>1. CASE fcb = NoFile
    <2>1. /\ col' = Columns
          /\ UNCHANGED <<decks, inDeck, outDeck, fcb, card, cut>>
      BY <1>1 DEF NextCard, trayVars
    <2>2. StationTypes'
      BY <2>1 DEF TypeOK, StationTypes, CardTypes
    <2>3. RingOK'
      BY <2>1 DEF RingOK, RingHolds
    <2>4. StationOK'
      BY <1>1, <2>1 DEF StationOK, IsEoi
    <2> QED BY <2>2, <2>3, <2>4
  <1>2. CASE fcb # NoFile /\ fcb < DeckLength /\ ~(fcb = DeckLength)
    <2>1. /\ fcb' = fcb + 1 /\ card' = Card(decks[outDeck], fcb + 1) /\ col' = 0
          /\ UNCHANGED <<decks, inDeck, outDeck, cut>>
      BY <1>2 DEF NextCard, trayVars
    <2>2. decks[outDeck] \in Decks
      <3>1. outDeck \in Slots /\ inDeck \in Slots /\ outDeck # inDeck
        BY <1>2 DEF TypeOK, StationOK
      <3>2. InRing(outDeck, outDeck, inDeck)
        BY <3>1 DEF InRing
      <3> QED BY <3>1, <3>2 DEF RingOK, RingHolds
    <2>3. fcb' \in 1 .. DeckLength
      BY <1>2, <2>1 DEF TypeOK
    <2>4. StationTypes'
      BY <2>1, <2>2, <2>3 DEF TypeOK, StationTypes, CardTypes, Card, Cards
    <2>5. RingOK'
      BY <2>1 DEF RingOK, RingHolds
    <2>6. StationOK'
      BY <1>2, <2>1, <2>3 DEF StationOK
    <2> QED BY <2>4, <2>5, <2>6
  <1>3. CASE fcb = DeckLength
    <2> DEFINE out == Slot(outDeck + 1)
               c == IF IsEoi(card) THEN card ELSE Eoi
               n == IF IsEoi(card) THEN Columns ELSE 0
    <2>1. UNCHANGED <<decks, inDeck>> /\ StartNextDeck(out, c, n)
      BY <1>3 DEF NextCard, EndOfFile
    <2>2. /\ outDeck \in Slots /\ inDeck \in Slots /\ outDeck # inDeck
          /\ decks \in [Slots -> Decks \cup {NoDeck}]
      BY <1>3 DEF TypeOK, StationOK
    <2>3. out \in Slots
      BY <2>2, SlotType
    <2>4. RingHolds(decks', out, inDeck')
      <3>1. \A i \in Slots : InRing(i, out, inDeck) => InRing(i, outDeck, inDeck)
        <4>1. out = IF outDeck + 1 = MaxDecks THEN 0 ELSE outDeck + 1
          BY <2>2, SlotSum
        <4> QED BY <2>2, <4>1 DEF InRing
      <3> QED BY <2>1, <3>1 DEF RingOK, RingHolds
    <2>5. c \in CardTypes /\ n \in 0 .. Columns
      BY DEF TypeOK, CardTypes
    <2> HIDE DEF out, c, n
    <2>6. /\ outDeck' \in Slots /\ cut' = FALSE
          /\ RingHolds(decks', outDeck', inDeck')
          /\ \/ /\ fcb' = 1 /\ col' = 0 /\ card' \in Cards
                /\ outDeck' # inDeck' /\ decks'[outDeck'] \notin Unreadable
             \/ /\ fcb' = NoFile /\ col' = n /\ card' = c /\ outDeck' = inDeck'
      BY <2>1, <2>2, <2>3, <2>4, <2>5, StartNextDeckLemma
    <2>7. StationTypes'
      <3>1. inDeck' \in Slots /\ decks' \in [Slots -> Decks \cup {NoDeck}]
        BY <2>1, <2>2
      <3>2. fcb' \in 0 .. DeckLength /\ col' \in 0 .. Columns
        BY <2>5, <2>6
      <3>3. card' \in CardTypes
        BY <2>5, <2>6 DEF CardTypes
      <3> QED BY <2>6, <3>1, <3>2, <3>3 DEF StationTypes
    <2>8. RingOK'
      BY <2>6 DEF RingOK
    <2>9. IsEoi(c) /\ (n = Columns => c = card)
      BY DEF n, c, IsEoi
    <2>10. StationOK'
      BY <2>6, <2>9 DEF StationOK, IsEoi
    <2> QED BY <2>7, <2>8, <2>10
  <1> QED BY <1>1, <1>2, <1>3 DEF NextCard, TypeOK

\* So it does after a load, whether it was reading a deck or idle.
LEMMA LoadCardsLemma ==
  ASSUME IInv, NEW d \in Decks, LoadCards(d), lastCard' = lastCard
  PROVE  StationTypes' /\ RingOK' /\ StationOK'
  <1> USE DEF IInv, NoFile
  <1> SUFFICES ASSUME ~TrayFull PROVE StationTypes' /\ RingOK' /\ StationOK'
    <2>1. TrayFull => UNCHANGED <<decks, inDeck, outDeck, fcb, card, col, cut>>
      BY DEF LoadCards, trayVars, stationVars
    <2>2. TrayFull => StationTypes' /\ RingOK' /\ StationOK'
      BY <2>1 DEF TypeOK, StationTypes, CardTypes, RingOK, RingHolds, StationOK, IsEoi
    <2> QED BY <2>2
  <1>1. /\ decks' = [decks EXCEPT ![inDeck] = d]
        /\ inDeck' = Slot(inDeck + 1)
        /\ \/ fcb = NoFile /\ StartNextDeck(outDeck, card, col)
           \/ /\ fcb # NoFile
              /\ fcb' = NoFile /\ cut' = TRUE
              /\ UNCHANGED <<outDeck, card, col>>
    BY DEF LoadCards
  <1>2. /\ outDeck \in Slots /\ inDeck \in Slots
        /\ decks \in [Slots -> Decks \cup {NoDeck}]
        /\ card \in CardTypes /\ col \in 0 .. Columns
    BY DEF TypeOK, CardTypes
  <1>3. inDeck' \in Slots /\ decks' \in [Slots -> Decks \cup {NoDeck}] /\ inDeck' # outDeck
    BY <1>1, <1>2, SlotType DEF TrayFull
  <1>4. RingHolds(decks', outDeck, inDeck')
    <2>1. inDeck' = IF inDeck + 1 = MaxDecks THEN 0 ELSE inDeck + 1
      BY <1>1, <1>2, SlotSum
    <2>2. \A i \in Slots : InRing(i, outDeck, inDeck') => i = inDeck \/ InRing(i, outDeck, inDeck)
      BY <1>2, <1>3, <2>1 DEF InRing
    <2> QED BY <1>1, <1>2, <2>2 DEF RingOK, RingHolds
  <1>5. CASE fcb = NoFile
    <2>1. /\ outDeck' \in Slots /\ cut' = FALSE
          /\ RingHolds(decks', outDeck', inDeck')
          /\ \/ /\ fcb' = 1 /\ col' = 0 /\ card' \in Cards
                /\ outDeck' # inDeck' /\ decks'[outDeck'] \notin Unreadable
             \/ /\ fcb' = NoFile /\ col' = col /\ card' = card /\ outDeck' = inDeck'
                /\ outDeck = inDeck' \/ decks'[outDeck] \in Unreadable
      BY <1>1, <1>2, <1>3, <1>4, <1>5, StartNextDeckLemma
    <2>2. StationTypes'
      <3>1. fcb' \in 0 .. DeckLength /\ col' \in 0 .. Columns
        BY <1>2, <2>1
      <3>2. card' \in CardTypes
        BY <1>2, <2>1 DEF CardTypes
      <3> QED BY <1>3, <2>1, <3>1, <3>2 DEF StationTypes
    <2>3. RingOK'
      BY <2>1 DEF RingOK
    <2>4. cut => decks'[outDeck] = decks[outDeck] /\ decks[outDeck] \notin Unreadable
      BY <1>1, <1>2 DEF StationOK
    <2>5. StationOK'
      BY <1>3, <1>5, <2>1, <2>4 DEF StationOK, IsEoi
    <2> QED BY <2>2, <2>3, <2>5
  <1>6. CASE fcb # NoFile
    <2>1. /\ fcb' = NoFile /\ cut' = TRUE
          /\ UNCHANGED <<outDeck, card, col>>
      BY <1>1, <1>6
    <2>2. StationTypes'
      BY <1>2, <1>3, <2>1 DEF StationTypes
    <2>3. RingOK'
      BY <1>4, <2>1 DEF RingOK
    <2>4. decks'[outDeck] = decks[outDeck] /\ decks[outDeck] \notin Unreadable
      BY <1>1, <1>2, <1>6 DEF StationOK
    <2>5. StationOK'
      BY <1>3, <1>6, <2>1, <2>4 DEF StationOK
    <2> QED BY <2>2, <2>3, <2>5
  <1> QED BY <1>5, <1>6

-----------------------------------------------------------------------------
(* Every step preserves the invariant.                                     *)

\* What the operator's side changes is of its type.
OperatorTypes == /\ line \in Commands \cup {NoLine} /\ opCmdFunction \in Commands \cup {NoLine}
                 /\ opActive \in BOOLEAN /\ opPaused \in BOOLEAN
                 /\ mainPc \in {"loop", "paused"}

FileTypes == files \subseteq Decks /\ hopper \in Seq(Decks)

\* A sequence without one of its elements.
LEMMA Removed ==
  ASSUME NEW S, NEW s \in Seq(S), NEW k \in 1 .. Len(s)
  PROVE  /\ RemoveAt(s, k) \in Seq(S) /\ Len(RemoveAt(s, k)) = Len(s) - 1
         /\ \A i \in 1 .. Len(s) - 1 : RemoveAt(s, k)[i] = IF i < k THEN s[i] ELSE s[i + 1]
  <1> DEFINE n == Len(s)
             before == SubSeq(s, 1, k - 1)
             after  == SubSeq(s, k + 1, n)
  <1>1. n \in Nat /\ k \in 1 .. n
    OBVIOUS
  <1>2. /\ before \in Seq(S) /\ Len(before) = k - 1
        /\ \A i \in 1 .. k - 1 : before[i] = s[i]
    OBVIOUS
  <1>3. /\ after \in Seq(S) /\ Len(after) = n - k
        /\ \A i \in 1 .. n - k : after[i] = s[k + i]
    OBVIOUS
  <1>4. RemoveAt(s, k) = before \o after
    BY DEF RemoveAt
  <1> HIDE DEF before, after, n
  <1>5. before \o after \in Seq(S) /\ Len(before \o after) = n - 1
    <2>1. before \o after \in Seq(S)
      BY <1>2, <1>3
    <2>2. Len(before \o after) = Len(before) + Len(after)
      BY <1>2, <1>3, ConcatProperties
    <2> QED BY <1>1, <1>2, <1>3, <2>1, <2>2
  <1>6. ASSUME NEW i \in 1 .. n - 1
        PROVE  (before \o after)[i] = IF i < k THEN s[i] ELSE s[i + 1]
    <2>1. CASE i < k
      BY <1>1, <1>2, <1>3, <2>1
    <2>2. CASE ~(i < k)
      <3>1. i - (k - 1) \in 1 .. n - k /\ k + (i - (k - 1)) = i + 1
        BY <1>1, <2>2
      <3>2. (before \o after)[i] = after[i - (k - 1)]
        BY <1>1, <1>2, <1>3, <2>2
      <3> QED BY <1>3, <2>2, <3>1, <3>2
    <2> QED BY <2>1, <2>2
  <1> QED BY <1>4, <1>5, <1>6 DEF n

\* The type invariant after a step is these together.
LEMMA TypesInParts ==
  ASSUME FileTypes', StationTypes', OperatorTypes', lastCard' \in CardTypes
  PROVE  TypeOK'
  BY DEF TypeOK, FileTypes, StationTypes, OperatorTypes, CardTypes

\* A step that leaves the station alone leaves its part of the invariant alone.
LEMMA StationUnchanged ==
  ASSUME IInv, UNCHANGED <<trayVars, stationVars, lastCard>>
  PROVE  StationTypes' /\ RingOK' /\ StationOK' /\ lastCard' \in CardTypes
  BY DEF IInv, TypeOK, CardTypes, StationTypes, RingOK, RingHolds, StationOK, IsEoi, trayVars,
         stationVars

LEMMA InitIInv == Init => IInv
  <1> SUFFICES ASSUME Init PROVE IInv
    OBVIOUS
  <1>1. TypeOK
    <2>1. files \subseteq Decks /\ hopper \in Seq(Decks) /\ lastCard \in Cards \cup {Blank, Eoi}
      BY DEF Init
    <2>2. /\ decks \in [Slots -> Decks \cup {NoDeck}] /\ inDeck \in Slots /\ outDeck \in Slots
          /\ fcb \in 0 .. DeckLength /\ col \in 0 .. Columns /\ cut \in BOOLEAN
          /\ card \in Cards \cup {Blank, Eoi}
      <3>1. 0 \in Slots /\ 0 \in 0 .. DeckLength /\ Columns \in 0 .. Columns
        OBVIOUS
      <3>2. decks = [i \in Slots |-> NoDeck]
        BY DEF Init
      <3>3. decks \in [Slots -> Decks \cup {NoDeck}]
        BY <3>2
      <3> QED BY <3>1, <3>3 DEF Init, NoFile
    <2>3. /\ line \in Commands \cup {NoLine} /\ opCmdFunction \in Commands \cup {NoLine}
          /\ opActive \in BOOLEAN /\ opPaused \in BOOLEAN /\ mainPc \in {"loop", "paused"}
      BY DEF Init
    <2> QED BY <2>1, <2>2, <2>3 DEF TypeOK
  <1>2. RingOK
    BY DEF Init, RingOK, RingHolds, InRing
  <1>3. StationOK
    BY DEF Init, StationOK, NoFile
  <1> QED BY <1>1, <1>2, <1>3 DEF IInv

LEMMA IoStep == ASSUME IInv, Io PROVE IInv'
  <1>1. FileTypes' /\ OperatorTypes'
    BY DEF IInv, TypeOK, FileTypes, OperatorTypes, Io, operatorVars
  <1>2. CASE col + 1 < Columns
    <2>1. col' = col + 1 /\ UNCHANGED <<trayVars, fcb, card, cut, lastCard>>
      BY <1>2 DEF Io
    <2>2. StationTypes' /\ lastCard' \in CardTypes
      BY <1>2, <2>1 DEF IInv, TypeOK, StationTypes, CardTypes, trayVars
    <2>3. RingOK' /\ StationOK'
      BY <1>2, <2>1 DEF IInv, TypeOK, RingOK, RingHolds, StationOK, IsEoi, trayVars
    <2> QED BY <1>1, <2>2, <2>3, TypesInParts DEF IInv
  <1>3. CASE ~(col + 1 < Columns)
    <2>1. lastCard' = card /\ NextCard
      BY <1>3 DEF Io
    <2>2. lastCard' \in CardTypes
      BY <2>1 DEF IInv, TypeOK, CardTypes
    <2>3. StationTypes' /\ RingOK' /\ StationOK'
      BY <2>1, NextCardLemma
    <2> QED BY <1>1, <2>2, <2>3, TypesInParts DEF IInv
  <1> QED BY <1>2, <1>3

LEMMA OpRequestStep == ASSUME IInv, OpRequest PROVE IInv'
  <1>1. OperatorTypes' /\ lastCard' = lastCard
    BY DEF IInv, TypeOK, OperatorTypes, OpRequest, Pause, ExecuteLoad, readerVars
  <1>2. lastCard' \in CardTypes
    BY <1>1 DEF IInv, TypeOK, CardTypes
  <1>3. CASE UNCHANGED <<files, hopper, trayVars, stationVars>>
    <2>1. FileTypes'
      BY <1>3 DEF IInv, TypeOK, FileTypes
    <2> QED BY <1>1, <1>2, <1>3, <2>1, StationUnchanged, TypesInParts DEF IInv
  <1>4. ASSUME NEW d \in files, LoadCards(d),
               files' = IF TrayFull THEN files ELSE files \ {d}, UNCHANGED hopper
        PROVE  IInv'
    <2>1. FileTypes' /\ d \in Decks
      BY <1>4 DEF IInv, TypeOK, FileTypes
    <2>2. StationTypes' /\ RingOK' /\ StationOK'
      BY <1>1, <1>4, <2>1, LoadCardsLemma
    <2> QED BY <1>1, <1>2, <2>1, <2>2, TypesInParts DEF IInv
  <1>5. ASSUME NEW i \in 1 .. Len(hopper), LoadFromHopper(i)
        PROVE  IInv'
    <2>1. hopper \in Seq(Decks) /\ files \subseteq Decks
      BY DEF IInv, TypeOK
    <2>2. hopper[i] \in Decks /\ hopper' \in Seq(Decks)
      BY <1>5, <2>1, Removed DEF LoadFromHopper
    <2>3. FileTypes'
      BY <1>5, <2>1, <2>2 DEF LoadFromHopper, FileTypes
    <2>4. LoadCards(hopper[i])
      BY <1>5 DEF LoadFromHopper
    <2>5. StationTypes' /\ RingOK' /\ StationOK'
      BY <1>1, <2>2, <2>4, LoadCardsLemma
    <2> QED BY <1>1, <1>2, <2>3, <2>5, TypesInParts DEF IInv
  <1>6. CASE Pause
    BY <1>3, <1>6 DEF Pause, readerVars
  <1>7. CASE Load
    <2>1. CASE \E i \in 1 .. Len(hopper) : LoadFromHopper(i)
      BY <1>5, <2>1
    <2> QED BY <1>3, <1>4, <1>7, <2>1 DEF Load
  <1>8. CASE LoadNext
    <2>1. hopper # <<>> => Len(hopper) \in 1 .. Len(hopper)
      BY DEF IInv, TypeOK
    <2>2. CASE hopper # <<>> /\ LoadFromHopper(Len(hopper))
      <3>1. PICK i \in 1 .. Len(hopper) : i = Len(hopper)
        BY <2>1, <2>2
      <3>2. LoadFromHopper(i)
        BY <2>2, <3>1
      <3> QED BY <1>5, <3>2
    <2> QED BY <1>3, <1>8, <2>2 DEF LoadNext
  <1> QED BY <1>6, <1>7, <1>8 DEF OpRequest, ExecuteLoad

LEMMA OtherSteps ==
  ASSUME IInv, Arrive \/ OpReadLine \/ OpRequestCommand \/ Resume \/ UNCHANGED vars
  PROVE  IInv'
  <1>1. UNCHANGED <<trayVars, stationVars, lastCard>>
    BY DEF Arrive, OpReadLine, OpRequestCommand, Resume, vars, readerVars
  <1>2. OperatorTypes'
    BY DEF IInv, TypeOK, OperatorTypes, Arrive, OpReadLine, OpRequestCommand, Resume, vars,
           operatorVars
  <1>3. FileTypes'
    <2>1. CASE Arrive
      BY <2>1 DEF IInv, TypeOK, FileTypes, Arrive
    <2>2. CASE UNCHANGED <<files, hopper>>
      BY <2>2 DEF IInv, TypeOK, FileTypes
    <2> QED BY <2>1, <2>2 DEF OpReadLine, OpRequestCommand, Resume, vars, readerVars
  <1> QED BY <1>1, <1>2, <1>3, StationUnchanged, TypesInParts DEF IInv

LEMMA NextStep == ASSUME IInv, [Next]_vars PROVE IInv'
  BY IoStep, OpRequestStep, OtherSteps DEF Next

LEMMA Inductive == Spec => []IInv
  <1>1. IInv /\ [Next]_vars => IInv'
    BY NextStep
  <1> QED BY <1>1, InitIInv, PTL DEF Spec

-----------------------------------------------------------------------------
(* Theorems.                                                               *)

\* Every variable has its type: in particular what the reader starts to read is
\* a deck, never a slot of the ring that holds none.
THEOREM TypeCorrect == Spec => []TypeOK
  <1>1. IInv => TypeOK
    BY DEF IInv
  <1> QED BY <1>1, Inductive, PTL

\* Unless a load has stopped a deck, the reader is idle only with an empty tray,
\* and not ready only when the last job was ended by a 6/7/8/9 card.
THEOREM JobsEnd == Spec => []JobsAreEnded
  <1>1. IInv => JobsAreEnded
    BY DEF IInv, StationOK, JobsAreEnded
  <1> QED BY <1>1, Inductive, PTL

-----------------------------------------------------------------------------
(* The ring as a queue.                                                    *)

\* What the slots of a tray may hold.
Contents == Decks \cup {NoDeck}
Rings == [Slots -> Contents]

\* The queue is as long as its indices are apart, and in their order.
LEMMA QueuedType ==
  ASSUME NEW slots \in Rings, NEW out \in Slots, NEW in \in Slots
  PROVE  /\ Queued(slots, out, in) \in Seq(Contents)
         /\ Len(Queued(slots, out, in)) = Slot(in - out)
         /\ Slot(in - out) \in Slots
         /\ \A i \in 1 .. Slot(in - out) : Queued(slots, out, in)[i] = slots[Slot(out + i - 1)]
  <1>1. Slot(in - out) \in Slots
    BY SlotType
  <1>2. \A i \in 1 .. Slot(in - out) : slots[Slot(out + i - 1)] \in Contents
    <2> SUFFICES ASSUME NEW i \in 1 .. Slot(in - out) PROVE slots[Slot(out + i - 1)] \in Contents
      OBVIOUS
    <2>1. out + i - 1 \in Int
      BY <1>1
    <2> QED BY <2>1, SlotType DEF Rings
  <1> QED BY <1>1, <1>2 DEF Queued

\* Moving the outward index by k drops the k oldest decks.
LEMMA QueuedDrop ==
  ASSUME NEW slots \in Rings, NEW out \in Slots, NEW in \in Slots,
         NEW k \in 0 .. Slot(in - out)
  PROVE  /\ Slot(in - Slot(out + k)) = Slot(in - out) - k
         /\ Queued(slots, Slot(out + k), in)
               = SubSeq(Queued(slots, out, in), k + 1, Len(Queued(slots, out, in)))
  <1>1. Slot(in - out) \in Slots /\ k \in Slots
    BY SlotType
  <1> DEFINE o == Slot(out + k)
             q == Queued(slots, out, in)
             n == Slot(in - out)
  <1>2. o = IF out + k < MaxDecks THEN out + k ELSE out + k - MaxDecks
    BY <1>1, SlotSum
  <1>3. n = IF out <= in THEN in - out ELSE in - out + MaxDecks
    BY SlotDifference
  <1>4. o \in Slots
    BY <1>1, SlotType
  <1>5. Slot(in - o) = IF o <= in THEN in - o ELSE in - o + MaxDecks
    BY <1>4, SlotDifference
  <1>6. Slot(in - o) = n - k
    <2>1. k \in 0 .. n /\ n \in Slots
      BY <1>1
    <2> HIDE DEF o, n
    <2> QED BY <2>1, <1>2, <1>3, <1>4, <1>5
  <1>7. ASSUME NEW i \in 1 .. n - k
        PROVE  Slot(o + i - 1) = Slot(out + (k + i) - 1)
    <2>1. i - 1 \in Slots /\ k + i - 1 \in Slots
      BY <1>1
    <2>2. Slot(o + (i - 1)) = IF o + (i - 1) < MaxDecks THEN o + (i - 1) ELSE o + (i - 1) - MaxDecks
      BY <1>4, <2>1, SlotSum
    <2>3. Slot(out + (k + i - 1)) = IF out + (k + i - 1) < MaxDecks THEN out + (k + i - 1)
                                                               ELSE out + (k + i - 1) - MaxDecks
      BY <2>1, SlotSum
    <2>4. o + i - 1 = o + (i - 1) /\ out + (k + i) - 1 = out + (k + i - 1)
      BY <1>1, <1>4
    <2>5. Slot(o + (i - 1)) = Slot(out + (k + i - 1))
      <3> HIDE DEF o, n
      <3> QED BY <1>1, <1>2, <1>4, <2>1, <2>2, <2>3
    <2> QED BY <2>4, <2>5
  <1>8. /\ q \in Seq(Contents) /\ Len(q) = n
        /\ \A i \in 1 .. n : q[i] = slots[Slot(out + i - 1)]
    <2>1. Slot(in - out) = n /\ Queued(slots, out, in) = q
      OBVIOUS
    <2> HIDE DEF q, n
    <2>2. q \in Seq(Contents) /\ Len(q) = n
      BY <2>1, QueuedType
    <2>3. ASSUME NEW i \in 1 .. n PROVE q[i] = slots[Slot(out + i - 1)]
      BY <2>1, QueuedType, ZenonT(60)
    <2> QED BY <2>2, <2>3
  <1>9. Queued(slots, o, in) = [i \in 1 .. n - k |-> q[k + i]]
    <2>1. \A i \in 1 .. n - k : k + i \in 1 .. n
      BY <1>1
    <2>2. \A i \in 1 .. n - k : slots[Slot(o + i - 1)] = q[k + i]
      BY <1>7, <1>8, <2>1
    <2> QED BY <1>6, <2>2 DEF Queued
  <1>10. SubSeq(q, k + 1, Len(q)) = [i \in 1 .. n - k |-> q[k + i]]
    <2>1. n - (k + 1) + 1 = n - k /\ n \in Int /\ \A i \in 1 .. n - k : i + (k + 1) - 1 = k + i
      BY <1>1
    <2> HIDE DEF q, n
    <2> QED BY <1>8, <2>1
  <1> QED BY <1>6, <1>9, <1>10

\* A deck put at the inward index is the newest.
LEMMA QueuedAppend ==
  ASSUME NEW slots \in Rings, NEW out \in Slots, NEW in \in Slots,
         NEW d \in Contents
  PROVE  Slot(in + 1) # out =>
           /\ Queued([slots EXCEPT ![in] = d], out, Slot(in + 1))
                 = Append(Queued(slots, out, in), d)
           /\ Slot(in - out) < MaxDecks - 1
  <1>0. /\ Queued(slots, out, in) \in Seq(Contents) /\ Len(Queued(slots, out, in)) = Slot(in - out)
        /\ \A i \in 1 .. Slot(in - out) : Queued(slots, out, in)[i] = slots[Slot(out + i - 1)]
    BY QueuedType
  <1> SUFFICES ASSUME Slot(in + 1) # out
               PROVE  /\ Queued([slots EXCEPT ![in] = d], out, Slot(in + 1))
                            = Append(Queued(slots, out, in), d)
                      /\ Slot(in - out) < MaxDecks - 1
    OBVIOUS
  <1> DEFINE q == Queued(slots, out, in)
             n == Slot(in - out)
             next == Slot(in + 1)
             added == [slots EXCEPT ![in] = d]
  <1>1. n \in Slots /\ n = IF out <= in THEN in - out ELSE in - out + MaxDecks
    <2>1. n \in Slots
      BY SlotType
    <2> QED BY <2>1, SlotDifference
  <1>2. next \in Slots /\ next = IF in + 1 = MaxDecks THEN 0 ELSE in + 1
    <2>1. next \in Slots
      BY SlotType
    <2> QED BY <2>1, SlotSum
  <1>3. Slot(next - out) = IF out <= next THEN next - out ELSE next - out + MaxDecks
    BY <1>2, SlotDifference
  <1>4. Slot(next - out) = n + 1 /\ n < MaxDecks - 1
    <2> HIDE DEF n, next
    <2>1. next # out
      BY DEF next
    <2> QED BY <1>1, <1>2, <1>3, <2>1
  <1>5. /\ q \in Seq(Contents) /\ Len(q) = n
        /\ \A i \in 1 .. n : q[i] = slots[Slot(out + i - 1)]
    BY <1>0
  <1>6. ASSUME NEW i \in 1 .. n + 1
        PROVE  Slot(out + i - 1) \in Slots /\ (Slot(out + i - 1) = in <=> i = n + 1)
    <2>1. i - 1 \in Slots /\ out + i - 1 = out + (i - 1)
      BY <1>1, <1>4
    <2>2. Slot(out + (i - 1)) = IF out + (i - 1) < MaxDecks THEN out + (i - 1)
                                                       ELSE out + (i - 1) - MaxDecks
      BY <2>1, SlotSum
    <2>3. Slot(out + (i - 1)) \in Slots /\ (Slot(out + (i - 1)) = in <=> i = n + 1)
      <3> HIDE DEF n
      <3> QED BY <1>1, <1>4, <2>1, <2>2
    <2> QED BY <2>1, <2>3
  <1>7. Queued(added, out, next) = [i \in 1 .. n + 1 |-> added[Slot(out + i - 1)]]
    BY <1>4 DEF Queued
  <1>8. \A i \in 1 .. n + 1 : added[Slot(out + i - 1)] = IF i = n + 1 THEN d ELSE q[i]
    <2> SUFFICES ASSUME NEW i \in 1 .. n + 1
                 PROVE  added[Slot(out + i - 1)] = IF i = n + 1 THEN d ELSE q[i]
      OBVIOUS
    <2>1. CASE i = n + 1
      BY <1>6, <2>1 DEF Rings
    <2>2. CASE i # n + 1
      <3>1. i \in 1 .. n
        BY <1>1, <2>2
      <3> QED BY <1>5, <1>6, <2>2, <3>1 DEF Rings
    <2> QED BY <2>1, <2>2
  <1>9. Append(q, d) = [i \in 1 .. n + 1 |-> IF i = n + 1 THEN d ELSE q[i]]
    <2>1. Len(q) = n /\ q \in Seq(Contents)
      BY <1>5
    <2> HIDE DEF q, n, next, added
    <2>2. /\ Append(q, d) \in Seq(Contents) /\ Len(Append(q, d)) = n + 1
          /\ \A i \in 1 .. n + 1 : Append(q, d)[i] = IF i = n + 1 THEN d ELSE q[i]
      BY <2>1
    <2> DEFINE f == [i \in 1 .. n + 1 |-> IF i = n + 1 THEN d ELSE q[i]]
    <2>3. f \in Seq(Contents) /\ Len(f) = n + 1 /\ \A i \in 1 .. n + 1 : f[i] = IF i = n + 1 THEN d ELSE q[i]
      <3>1. \A i \in 1 .. n + 1 : (IF i = n + 1 THEN d ELSE q[i]) \in Contents
        BY <1>1, <2>1
      <3> QED BY <1>1, <3>1
    <2> HIDE DEF f
    <2>4. Append(q, d) = f
      BY <2>2, <2>3, SeqEqual
    <2> QED BY <2>4 DEF f
  <1>10. Queued(added, out, next) = Append(q, d)
    <2> HIDE DEF q, n, added, next
    <2> QED BY <1>7, <1>8, <1>9
  <1> QED BY <1>4, <1>10

-----------------------------------------------------------------------------
(* The reader implements the queue of decks.                               *)

\* The card at the read station, unless it was read, is the next of the deck at
\* the head of the tray, or the faked card after the last one read.
CardOK ==
    /\ fcb # NoFile => card = Card(decks[outDeck], fcb)
    /\ col < Columns =>
          \/ /\ card = Eoi /\ fcb = NoFile /\ ~cut
             /\ \E d \in Decks \ Ended : lastCard = Card(d, DeckLength)
          \/ /\ outDeck # inDeck
             /\ \E n \in 1 .. DeckLength :
                   /\ card = Card(decks[outDeck], n)
                   /\ n = 1 \/ lastCard = Card(decks[outDeck], n - 1)

\* A deck is in the hopper once, and was submitted.
HopperOK == /\ \A i, j \in 1 .. Len(hopper) : hopper[i] = hopper[j] => i = j
            /\ \A i \in 1 .. Len(hopper) : hopper[i] \notin files

QInv == IInv /\ CardOK /\ HopperOK

Hoppered == {hopper[i] : i \in 1 .. Len(hopper)}

\* The deck at the head of a tray that is not empty, and the rest.
LEMMA TrayHead ==
  ASSUME IInv, outDeck # inDeck
  PROVE  /\ Tray # <<>> /\ Head(Tray) = decks[outDeck]
         /\ Slot(outDeck + 1) \in Slots
         /\ Tail(Tray) = Queued(decks, Slot(outDeck + 1), inDeck)
  <1>1. /\ decks \in Rings /\ outDeck \in Slots /\ inDeck \in Slots
    BY DEF IInv, TypeOK, Rings, Contents
  <1>2. /\ Tray \in Seq(Contents) /\ Len(Tray) = Slot(inDeck - outDeck)
        /\ \A i \in 1 .. Slot(inDeck - outDeck) : Tray[i] = decks[Slot(outDeck + i - 1)]
    BY <1>1, QueuedType DEF Tray
  <1>3. Slot(inDeck - outDeck) \in 1 .. MaxDecks - 1
    BY <1>1, SlotDifference
  <1>4. Tray # <<>> /\ Head(Tray) = Tray[1]
    BY <1>2, <1>3
  <1>5. Tray[1] = decks[outDeck]
    <2>1. outDeck + 1 - 1 = outDeck /\ Slot(outDeck) = outDeck
      BY <1>1, SlotSum
    <2> QED BY <1>2, <1>3, <2>1
  <1>6. Tail(Tray) = SubSeq(Tray, 2, Len(Tray))
    BY <1>2, <1>4, TailIsSubSeq
  <1>7. Queued(decks, Slot(outDeck + 1), inDeck) = SubSeq(Tray, 2, Len(Tray))
    <2>1. Queued(decks, Slot(outDeck + 1), inDeck) = SubSeq(Tray, 1 + 1, Len(Tray))
      BY <1>1, <1>3, QueuedDrop DEF Tray
    <2>2. 1 + 1 = 2
      OBVIOUS
    <2> QED BY <2>1, <2>2
  <1>8. Slot(outDeck + 1) \in Slots
    BY <1>1, SlotType
  <1> QED BY <1>4, <1>5, <1>6, <1>7, <1>8

\* Starting the next deck drops decks that cannot be opened.
LEMMA StartNextDeckDrops ==
  ASSUME NEW out \in Slots, inDeck' \in Slots, decks' \in Rings,
         NEW c, NEW n, StartNextDeck(out, c, n)
  PROVE  /\ Tray' \in Queue!Opened(Queued(decks', out, inDeck'))
         /\ \/ fcb' = 1 /\ outDeck' # inDeck' /\ card' = Card(decks'[outDeck'], 1)
            \/ fcb' = NoFile /\ col' = n /\ card' = c
  <1>1. PICK skipped \in 0 .. Slot(inDeck' - out) :
           LET o == Slot(out + skipped)
           IN  /\ \A i \in 0 .. skipped - 1 : decks'[Slot(out + i)] \in Unreadable
               /\ outDeck' = o /\ cut' = FALSE
               /\ \/ /\ o # inDeck' /\ decks'[o] \notin Unreadable
                     /\ fcb' = 1 /\ card' = Card(decks'[o], 1) /\ col' = 0
                  \/ /\ o = inDeck'
                     /\ fcb' = NoFile /\ card' = c /\ col' = n
    BY DEF StartNextDeck
  <1> DEFINE q == Queued(decks', out, inDeck')
  <1>2. /\ Len(q) = Slot(inDeck' - out) /\ Slot(inDeck' - out) \in Slots
        /\ \A i \in 1 .. Slot(inDeck' - out) : q[i] = decks'[Slot(out + i - 1)]
    BY QueuedType
  <1>3. Tray' = SubSeq(q, skipped + 1, Len(q))
    <2>1. Tray' = Queued(decks', Slot(out + skipped), inDeck')
      BY <1>1 DEF Tray
    <2> QED BY <2>1, QueuedDrop
  <1>4. \A j \in 1 .. skipped : q[j] \in Unreadable
    <2> SUFFICES ASSUME NEW j \in 1 .. skipped PROVE q[j] \in Unreadable
      OBVIOUS
    <2>1. j - 1 \in 0 .. skipped - 1 /\ out + j - 1 = out + (j - 1) /\ j \in 1 .. Slot(inDeck' - out)
      BY <1>2
    <2> HIDE DEF q
    <2> QED BY <1>1, <1>2, <2>1
  <1>5. Tray' \in Queue!Opened(q)
    <2> HIDE DEF q
    <2> QED BY <1>2, <1>3, <1>4 DEF Queue!Opened
  <1> QED BY <1>1, <1>5

\* Nothing at all may be dropped.
LEMMA OpenedReflexive ==
  ASSUME NEW s \in Seq(Contents)
  PROVE  s \in Queue!Opened(s)
  <1>1. SubSeq(s, 0 + 1, Len(s)) = s
    BY SubSeqFull
  <1> QED BY <1>1 DEF Queue!Opened

\* A PP's step reads a card of the deck at the head, or the faked card, or
\* nothing that the queue shows.
LEMMA IoImplements ==
  ASSUME QInv, Io
  PROVE  /\ CardOK'
         /\ \/ (Queue!ReadCard \/ Queue!ReadEoi) /\ UNCHANGED hopper
            \/ UNCHANGED <<Tray, lastCard, hopper>>
  <1> USE DEF QInv
  <1>1. UNCHANGED <<files, hopper>>
    BY DEF Io
  <1>2. /\ decks \in Rings /\ outDeck \in Slots /\ inDeck \in Slots
        /\ fcb \in 0 .. DeckLength /\ col \in 0 .. Columns
    BY DEF IInv, TypeOK, Rings, Contents
  <1>3. CASE col + 1 < Columns
    <2>1. col' = col + 1 /\ UNCHANGED <<decks, inDeck, outDeck, fcb, card, cut, lastCard>>
      BY <1>3 DEF Io, trayVars
    <2>2. CardOK'
      BY <1>2, <1>3, <2>1 DEF CardOK, Card
    <2>3. UNCHANGED Tray
      BY <2>1 DEF Tray
    <2> QED BY <1>1, <2>1, <2>2, <2>3
  <1>4. CASE ~(col + 1 < Columns)
    <2>1. lastCard' = card /\ NextCard /\ col < Columns
      BY <1>2, <1>4 DEF Io, IInv, StationOK
    <2>2. CASE fcb = NoFile
      <3>1. col' = Columns /\ UNCHANGED <<decks, inDeck, outDeck, fcb, card, cut>>
        BY <2>1, <2>2 DEF NextCard, trayVars, NoFile
      <3>2. CardOK'
        BY <2>2, <3>1 DEF CardOK
      <3>3. UNCHANGED Tray
        BY <3>1 DEF Tray
      <3>4. CASE card = Eoi /\ \E d \in Decks \ Ended : lastCard = Card(d, DeckLength)
        <4>1. Queue!ReadEoi
          BY <1>1, <2>1, <3>3, <3>4 DEF Queue!ReadEoi, Queue!Card, Card
        <4> QED BY <1>1, <3>2, <4>1
      <3>5. CASE /\ outDeck # inDeck
                 /\ \E n \in 1 .. DeckLength :
                       /\ card = Card(decks[outDeck], n)
                       /\ n = 1 \/ lastCard = Card(decks[outDeck], n - 1)
        <4>1. Tray # <<>> /\ Head(Tray) = decks[outDeck]
          BY <3>5, TrayHead
        <4>2. Queue!ReadCard
          BY <1>1, <2>1, <3>3, <3>5, <4>1 DEF Queue!ReadCard, Queue!Card, Card
        <4> QED BY <1>1, <3>2, <4>2
      <3> QED BY <2>1, <3>4, <3>5 DEF CardOK
    <2>3. CASE fcb # NoFile
      <3>1. outDeck # inDeck /\ card = Card(decks[outDeck], fcb) /\ fcb \in 1 .. DeckLength
        BY <1>2, <2>3 DEF IInv, StationOK, CardOK, NoFile
      <3>2. /\ Tray # <<>> /\ Head(Tray) = decks[outDeck] /\ Slot(outDeck + 1) \in Slots
            /\ Tail(Tray) = Queued(decks, Slot(outDeck + 1), inDeck)
        BY <3>1, TrayHead
      <3>3. card # Eoi
        <4>1. InRing(outDeck, outDeck, inDeck)
          BY <1>2, <3>1 DEF InRing
        <4>2. decks[outDeck] \in Decks
          BY <1>2, <4>1 DEF IInv, RingOK, RingHolds
        <4>3. card \in Cards
          BY <3>1, <4>2 DEF Card, Cards
        <4>4. Eoi \notin Cards
          BY NamesAssumption
        <4> QED BY <4>3, <4>4
      <3>4. PICK k \in 1 .. DeckLength : /\ card = Card(decks[outDeck], k)
                                         /\ k = 1 \/ lastCard = Card(decks[outDeck], k - 1)
        BY <2>1, <3>3 DEF CardOK
      <3>5. fcb = 1 \/ lastCard = Card(decks[outDeck], fcb - 1)
        <4>1. Card(decks[outDeck], k).n = k /\ Card(decks[outDeck], fcb).n = fcb
          BY DEF Card
        <4>2. k = fcb
          BY <3>1, <3>4, <4>1
        <4> QED BY <3>4, <4>2
      <3>6. CASE fcb < DeckLength /\ ~(fcb = DeckLength)
        <4>1. /\ fcb' = fcb + 1 /\ card' = Card(decks[outDeck], fcb + 1) /\ col' = 0
              /\ UNCHANGED <<decks, inDeck, outDeck, cut>>
          BY <2>1, <2>3, <3>6 DEF NextCard, trayVars
        <4>2. UNCHANGED Tray
          BY <4>1 DEF Tray
        <4>3. Queue!ReadCard
          BY <1>1, <2>1, <3>1, <3>2, <3>5, <4>2 DEF Queue!ReadCard, Queue!Card, Card
        <4>4. fcb + 1 \in 1 .. DeckLength /\ fcb + 1 - 1 = fcb
          BY <3>1, <3>6
        <4>5. CardOK'
          BY <2>1, <3>1, <4>1, <4>4 DEF CardOK
        <4> QED BY <1>1, <4>3, <4>5
      <3>7. CASE fcb = DeckLength
        <4> DEFINE out == Slot(outDeck + 1)
                   c == IF IsEoi(card) THEN card ELSE Eoi
                   n == IF IsEoi(card) THEN Columns ELSE 0
        <4>1. UNCHANGED <<decks, inDeck>> /\ StartNextDeck(out, c, n)
          BY <2>1, <2>3, <3>7 DEF NextCard, EndOfFile
        <4>2. /\ Tray' \in Queue!Opened(Queued(decks', out, inDeck'))
              /\ \/ fcb' = 1 /\ outDeck' # inDeck' /\ card' = Card(decks'[outDeck'], 1)
                 \/ fcb' = NoFile /\ col' = n /\ card' = c
          <5> HIDE DEF out, c, n
          <5> QED BY <1>2, <3>2, <4>1, StartNextDeckDrops DEF out
        <4>3. Tray' \in Queue!Opened(Tail(Tray))
          BY <3>2, <4>1, <4>2
        <4>4. Queue!ReadCard
          BY <1>1, <2>1, <3>1, <3>2, <3>5, <3>7, <4>3 DEF Queue!ReadCard, Queue!Card, Card
        <4>5. CardOK'
          <5>1. CASE fcb' = 1 /\ outDeck' # inDeck' /\ card' = Card(decks'[outDeck'], 1)
            BY <5>1 DEF CardOK, NoFile
          <5>2. CASE fcb' = NoFile /\ col' = n /\ card' = c
            <6>1. CASE IsEoi(card)
              BY <5>2, <6>1 DEF CardOK
            <6>2. CASE ~IsEoi(card)
              <7>1. decks[outDeck] \in Decks \ Ended
                <8>1. InRing(outDeck, outDeck, inDeck)
                  BY <1>2, <3>1 DEF InRing
                <8>2. decks[outDeck] \in Decks
                  BY <1>2, <8>1 DEF IInv, RingOK, RingHolds
                <8> QED BY <3>1, <3>7, <6>2, <8>2 DEF IsEoi
              <7>2. lastCard' = Card(decks[outDeck], DeckLength)
                BY <2>1, <3>1, <3>7
              <7>3. cut' = FALSE
                BY <4>1 DEF StartNextDeck
              <7> QED BY <5>2, <6>2, <7>1, <7>2, <7>3 DEF CardOK
            <6> QED BY <6>1, <6>2
          <5> QED BY <4>2, <5>1, <5>2
        <4> QED BY <1>1, <4>4, <4>5
      <3> QED BY <3>1, <3>6, <3>7
    <2> QED BY <2>2, <2>3
  <1> QED BY <1>3, <1>4

\* A load appends its deck, and may drop decks that cannot be opened.
LEMMA LoadCardsImplements ==
  ASSUME QInv, NEW d \in Decks, LoadCards(d), lastCard' = lastCard
  PROVE  /\ CardOK'
         /\ \/ UNCHANGED Tray /\ TrayFull
            \/ /\ ~TrayFull /\ Len(Tray) < MaxDecks - 1
               /\ Tray' \in Queue!Opened(Append(Tray, d))
  <1> USE DEF QInv
  <1>1. /\ decks \in Rings /\ outDeck \in Slots /\ inDeck \in Slots /\ d \in Contents
    BY DEF IInv, TypeOK, Rings, Contents
  <1>2. CASE TrayFull
    <2>1. UNCHANGED <<decks, inDeck, outDeck, fcb, card, col, cut>>
      BY <1>2 DEF LoadCards, trayVars, stationVars
    <2>2. CardOK' /\ UNCHANGED Tray
      BY <2>1 DEF CardOK, Tray
    <2> QED BY <1>2, <2>2
  <1>3. CASE ~TrayFull
    <2>1. /\ decks' = [decks EXCEPT ![inDeck] = d]
          /\ inDeck' = Slot(inDeck + 1)
          /\ \/ fcb = NoFile /\ StartNextDeck(outDeck, card, col)
             \/ /\ fcb # NoFile
                /\ fcb' = NoFile /\ cut' = TRUE
                /\ UNCHANGED <<outDeck, card, col>>
      BY <1>3 DEF LoadCards
    <2>2. decks' \in Rings /\ inDeck' \in Slots
      BY <1>1, <2>1, SlotType DEF Rings
    <2>3. /\ Queued(decks', outDeck, inDeck') = Append(Tray, d)
          /\ Len(Tray) < MaxDecks - 1
      <3>1. Slot(inDeck + 1) # outDeck
        BY <1>3 DEF TrayFull
      <3>2. /\ Queued([decks EXCEPT ![inDeck] = d], outDeck, Slot(inDeck + 1)) = Append(Tray, d)
            /\ Slot(inDeck - outDeck) < MaxDecks - 1
        BY <1>1, <3>1, QueuedAppend DEF Tray
      <3>3. Len(Tray) = Slot(inDeck - outDeck)
        BY <1>1, QueuedType DEF Tray
      <3> QED BY <2>1, <3>2, <3>3
    <2>4. CASE fcb = NoFile
      <3>1. /\ Tray' \in Queue!Opened(Append(Tray, d))
            /\ \/ fcb' = 1 /\ outDeck' # inDeck' /\ card' = Card(decks'[outDeck'], 1)
               \/ fcb' = NoFile /\ col' = col /\ card' = card
        BY <1>1, <2>1, <2>2, <2>3, <2>4, StartNextDeckDrops
      <3>2. CASE fcb' = 1 /\ outDeck' # inDeck' /\ card' = Card(decks'[outDeck'], 1)
        <4>1. CardOK'
          BY <3>2 DEF CardOK, NoFile
        <4> QED BY <1>3, <2>3, <3>1, <4>1
      <3>3. CASE fcb' = NoFile /\ col' = col /\ card' = card
        <4>1. cut' = FALSE
          BY <2>1, <2>4 DEF StartNextDeck
        <4>2. ~cut
          <5>1. StationOK' /\ IInv
            BY LoadCardsLemma
          <5>2. cut => outDeck # inDeck /\ decks[outDeck] \notin Unreadable /\ decks'[outDeck] = decks[outDeck]
            BY <1>1, <2>1 DEF IInv, StationOK, Rings
          <5>3. outDeck = inDeck' \/ decks'[outDeck] \in Unreadable
            <6>1. RingHolds(decks', outDeck, inDeck')
              <7>1. inDeck' = IF inDeck + 1 = MaxDecks THEN 0 ELSE inDeck + 1
                BY <1>1, <2>1, SlotSum
              <7>2. \A i \in Slots :
                       InRing(i, outDeck, inDeck') => i = inDeck \/ InRing(i, outDeck, inDeck)
                BY <1>1, <1>3, <2>1, <7>1 DEF InRing, TrayFull
              <7> QED BY <1>1, <2>1, <7>2 DEF IInv, RingOK, RingHolds, Rings
            <6>2. /\ card \in CardTypes /\ col \in 0 .. Columns
                  /\ decks' \in [Slots -> Decks \cup {NoDeck}]
              BY <2>2 DEF IInv, TypeOK, CardTypes, Rings, Contents
            <6>3. \/ fcb' = 1
                  \/ outDeck = inDeck' \/ decks'[outDeck] \in Unreadable
              BY <1>1, <2>1, <2>2, <2>4, <6>1, <6>2, StartNextDeckLemma
            <6> QED BY <3>3, <6>3 DEF NoFile
          <5> QED BY <1>3, <2>1, <5>2, <5>3 DEF TrayFull
        <4>3. CardOK'
          BY <2>4, <3>3, <4>1, <4>2 DEF CardOK, IInv, StationOK
        <4> QED BY <1>3, <2>3, <3>1, <4>3
      <3> QED BY <3>1, <3>2, <3>3
    <2>5. CASE fcb # NoFile
      <3>1. fcb' = NoFile /\ cut' = TRUE /\ UNCHANGED <<outDeck, card, col>>
        BY <2>1, <2>5
      <3>2. outDeck # inDeck' /\ decks'[outDeck] = decks[outDeck]
        BY <1>1, <1>3, <2>1, <2>5 DEF IInv, StationOK, TrayFull, Rings
      <3>3. CardOK'
        BY <2>5, <3>1, <3>2 DEF CardOK
      <3>4. Append(Tray, d) \in Seq(Contents)
        BY <1>1, QueuedType DEF Tray
      <3>5. Tray' = Append(Tray, d)
        BY <2>3, <3>1 DEF Tray
      <3> QED BY <1>3, <2>3, <3>3, <3>4, <3>5, OpenedReflexive
    <2> QED BY <2>4, <2>5
  <1> QED BY <1>2, <1>3

\* A step outside the tray and the read station changes nothing of the queue but,
\* perhaps, the hopper.
LEMMA StationKeeps ==
  ASSUME QInv, UNCHANGED <<trayVars, stationVars, lastCard>>
  PROVE  CardOK' /\ UNCHANGED <<Tray, lastCard>>
  BY DEF QInv, CardOK, Tray, trayVars, stationVars

\* A deck put into the hopper is a deck more there.
LEMMA ArriveImplements ==
  ASSUME QInv, Arrive
  PROVE  HopperOK' /\ Queue!Arrive
  <1>1. PICK d \in files : /\ files' = files \ {d} /\ hopper' = Append(hopper, d)
                           /\ UNCHANGED <<trayVars, stationVars, lastCard, operatorVars>>
    BY DEF Arrive
  <1>2. hopper \in Seq(Decks) /\ d \in Decks
    BY DEF QInv, IInv, TypeOK
  <1> DEFINE n == Len(hopper)
  <1>3. /\ n \in Nat /\ Len(hopper') = n + 1
        /\ \A i \in 1 .. n + 1 : hopper'[i] = IF i = n + 1 THEN d ELSE hopper[i]
    BY <1>1, <1>2
  <1>4. /\ \A i, j \in 1 .. n : hopper[i] = hopper[j] => i = j
        /\ \A i \in 1 .. n : hopper[i] \notin files
    BY DEF QInv, HopperOK
  <1> HIDE DEF n
  <1>5. \A i \in 1 .. n + 1 : i = n + 1 \/ i \in 1 .. n
    BY <1>3
  <1>6. \A i, j \in 1 .. n + 1 : hopper'[i] = hopper'[j] => i = j
    BY <1>3, <1>4, <1>5
  <1>7. \A i \in 1 .. n + 1 : hopper'[i] \notin files'
    BY <1>1, <1>3, <1>4, <1>5
  <1>8. HopperOK'
    BY <1>3, <1>6, <1>7 DEF HopperOK
  <1>9. Hoppered' = Hoppered \cup {d}
    <2>1. \A x : x \in Hoppered' <=> \E i \in 1 .. n + 1 : x = hopper'[i]
      BY <1>3 DEF Hoppered
    <2>2. \A x : x \in Hoppered <=> \E i \in 1 .. n : x = hopper[i]
      BY DEF Hoppered, n
    <2>3. n + 1 \in 1 .. n + 1 /\ \A i \in 1 .. n : i \in 1 .. n + 1 /\ i # n + 1
      BY <1>3
    <2>4. \A x : x \in Hoppered' <=> x \in Hoppered \/ x = d
      BY <1>3, <1>5, <2>1, <2>2, <2>3
    <2> QED BY <2>4
  <1>10. UNCHANGED <<Tray, lastCard>>
    BY <1>1, StationKeeps
  <1> QED BY <1>2, <1>8, <1>9, <1>10 DEF Queue!Arrive, Hoppered

\* The queue's view of a load.
LEMMA LoadIsLoad ==
  ASSUME QInv, NEW d \in Decks, ~TrayFull, LoadCards(d), lastCard' = lastCard,
         Hoppered' = Hoppered \ {d}
  PROVE  CardOK' /\ Queue!Load
  BY LoadCardsImplements DEF Queue!Load, Hoppered

\* A full tray holds as many decks as the queue can.
LEMMA FullTray ==
  ASSUME QInv, TrayFull
  PROVE  Len(Tray) = MaxDecks - 1
  <1>1. decks \in Rings /\ outDeck \in Slots /\ inDeck \in Slots
    BY DEF QInv, IInv, TypeOK, Rings, Contents
  <1>2. Len(Tray) = Slot(inDeck - outDeck)
    BY <1>1, QueuedType DEF Tray
  <1>3. outDeck = IF inDeck + 1 = MaxDecks THEN 0 ELSE inDeck + 1
    BY <1>1, SlotSum DEF TrayFull
  <1>4. Slot(inDeck - outDeck) = IF outDeck <= inDeck THEN inDeck - outDeck
                                 ELSE inDeck - outDeck + MaxDecks
    BY <1>1, SlotDifference
  <1> QED BY <1>1, <1>2, <1>3, <1>4

\* The two commands load a deck, change nothing, or lose one from the hopper that was named.
LEMMA LoadImplements ==
  ASSUME QInv, opActive, lastCard' = lastCard,
         (opCmdFunction = "load" /\ Load) \/ (opCmdFunction = "loadNext" /\ LoadNext)
  PROVE  /\ CardOK' /\ HopperOK'
         /\ Queue!Load \/ Queue!LoadInVain \/ UNCHANGED <<Hoppered, Tray, lastCard>>
  <1>1. hopper \in Seq(Decks) /\ files \subseteq Decks
    BY DEF QInv, IInv, TypeOK
  <1>2. CASE UNCHANGED <<files, hopper, trayVars, stationVars>>
    <2>1. CardOK' /\ UNCHANGED <<Tray, lastCard>>
      BY <1>2, StationKeeps
    <2>2. HopperOK' /\ UNCHANGED Hoppered
      BY <1>2 DEF QInv, HopperOK, Hoppered
    <2> QED BY <2>1, <2>2
  <1>3. ASSUME NEW d \in files, LoadCards(d), UNCHANGED hopper,
               files' = IF TrayFull THEN files ELSE files \ {d}
        PROVE  CardOK' /\ HopperOK' /\ (Queue!Load \/ UNCHANGED <<Hoppered, Tray, lastCard>>)
    <2>1. HopperOK'
      BY <1>3 DEF QInv, HopperOK
    <2>2. Hoppered' = Hoppered /\ Hoppered = Hoppered \ {d}
      BY <1>3 DEF QInv, HopperOK, Hoppered
    <2>3. d \in Decks
      BY <1>1
    <2>4. CASE TrayFull
      BY <1>3, <2>1, <2>2, <2>3, <2>4, LoadCardsImplements
    <2>5. CASE ~TrayFull
      BY <1>3, <2>1, <2>2, <2>3, <2>5, LoadIsLoad
    <2> QED BY <2>4, <2>5
  <1>4. ASSUME NEW k \in 1 .. Len(hopper), LoadFromHopper(k), TrayFull => opCmdFunction = "load"
        PROVE  CardOK' /\ HopperOK' /\ (Queue!Load \/ Queue!LoadInVain)
    <2> DEFINE n == Len(hopper)
               d == hopper[k]
    <2>1. /\ n \in Nat \ {0} /\ d \in Decks /\ k \in 1 .. n
          /\ Len(hopper') = n - 1
          /\ \A i \in 1 .. n - 1 : hopper'[i] = IF i < k THEN hopper[i] ELSE hopper[i + 1]
      <3>1. n \in Nat \ {0} /\ d \in Decks /\ k \in 1 .. n
        BY <1>1, <1>4
      <3>2. hopper' = RemoveAt(hopper, k)
        BY <1>4 DEF LoadFromHopper
      <3>3. /\ Len(RemoveAt(hopper, k)) = n - 1
            /\ \A i \in 1 .. n - 1 : RemoveAt(hopper, k)[i] = IF i < k THEN hopper[i]
                                                           ELSE hopper[i + 1]
        BY <1>1, <1>4, Removed
      <3> QED BY <3>1, <3>2, <3>3
    <2>2. /\ \A i, j \in 1 .. n : hopper[i] = hopper[j] => i = j
          /\ \A i \in 1 .. n : hopper[i] \notin files
      BY DEF QInv, HopperOK
    <2>3. \A x : x \in Hoppered <=> \E i \in 1 .. n : x = hopper[i]
      BY DEF Hoppered
    <2>4. LoadCards(d) /\ files' \subseteq files \cup {d}
      BY <1>4 DEF LoadFromHopper
    <2>5. d = hopper[k]
      OBVIOUS
    <2> HIDE DEF n, d
    <2>6. \A i \in 1 .. n - 1 : \E j \in 1 .. n : /\ j = (IF i < k THEN i ELSE i + 1) /\ j # k
                                               /\ hopper'[i] = hopper[j]
      <3> SUFFICES ASSUME NEW i \in 1 .. n - 1
                   PROVE  \E j \in 1 .. n : /\ j = (IF i < k THEN i ELSE i + 1) /\ j # k
                                            /\ hopper'[i] = hopper[j]
        OBVIOUS
      <3>1. CASE i < k
        BY <2>1, <3>1
      <3>2. CASE ~(i < k)
        BY <2>1, <3>2
      <3> QED BY <3>1, <3>2
    <2>7. HopperOK'
      <3>1. ASSUME NEW i \in 1 .. n - 1, NEW j \in 1 .. n - 1, hopper'[i] = hopper'[j]
            PROVE  i = j
        <4>1. (IF i < k THEN i ELSE i + 1) = (IF j < k THEN j ELSE j + 1)
          BY <2>2, <2>6, <3>1
        <4> QED BY <2>1, <4>1
      <3>2. ASSUME NEW i \in 1 .. n - 1 PROVE hopper'[i] \notin files'
        BY <2>1, <2>2, <2>4, <2>5, <2>6
      <3> QED BY <2>1, <3>1, <3>2 DEF HopperOK
    <2>8. Hoppered' = Hoppered \ {d}
      <3>1. \A x : x \in Hoppered' <=> \E i \in 1 .. n - 1 : x = hopper'[i]
        BY <2>1 DEF Hoppered
      <3>2. ASSUME NEW j \in 1 .. n, j # k
            PROVE  \E i \in 1 .. n - 1 : hopper[j] = hopper'[i]
        <4>1. CASE j < k
          BY <2>1, <4>1
        <4>2. CASE ~(j < k)
          <5>1. j - 1 \in 1 .. n - 1 /\ ~(j - 1 < k) /\ j - 1 + 1 = j
            BY <2>1, <3>2, <4>2
          <5> QED BY <2>1, <5>1
        <4> QED BY <4>1, <4>2
      <3>3. ASSUME NEW x \in Hoppered' PROVE x \in Hoppered /\ x # d
        <4>1. PICK i \in 1 .. n - 1 : x = hopper'[i]
          BY <3>1
        <4>2. PICK j \in 1 .. n : j # k /\ x = hopper[j]
          BY <2>6, <4>1
        <4> QED BY <2>1, <2>2, <2>3, <2>5, <4>2
      <3>4. ASSUME NEW x \in Hoppered, x # d PROVE x \in Hoppered'
        <4>1. PICK j \in 1 .. n : x = hopper[j]
          BY <2>3
        <4>2. j # k
          BY <2>5, <3>4, <4>1
        <4> QED BY <3>1, <3>2, <4>1, <4>2
      <3> QED BY <3>3, <3>4
    <2>9. CASE ~TrayFull
      BY <2>1, <2>4, <2>7, <2>8, <2>9, LoadIsLoad
    <2>10. CASE TrayFull
      <3>1. CardOK' /\ UNCHANGED <<Tray, lastCard>>
        BY <2>1, <2>4, <2>10, LoadCardsImplements
      <3>2. Len(Tray) = MaxDecks - 1
        BY <2>10, FullTray
      <3>3. d \in Hoppered /\ opActive /\ opCmdFunction = "load"
        BY <1>4, <2>1, <2>3, <2>5, <2>10
      <3> QED BY <2>7, <2>8, <3>1, <3>2, <3>3 DEF Queue!LoadInVain, Hoppered
    <2> QED BY <2>9, <2>10
  <1>5. CASE opCmdFunction = "load" /\ Load
    BY <1>2, <1>3, <1>4, <1>5 DEF Load
  <1>6. CASE LoadNext
    <2>1. hopper # <<>> => Len(hopper) \in 1 .. Len(hopper)
      BY <1>1
    <2> QED BY <1>2, <1>4, <1>6, <2>1 DEF LoadNext
  <1> QED BY <1>5, <1>6

\* Every step of the reader is a step of the queue, or changes nothing it shows.
LEMMA NextImplements ==
  ASSUME QInv, [Next]_vars
  PROVE  QInv' /\ [Queue!Next]_(Queue!queueVars)
  <1>1. IInv'
    BY NextStep DEF QInv
  <1>0. (opActive /\ opCmdFunction = "load")' \in BOOLEAN
    OBVIOUS
  <1>2. CASE Arrive
    <2>1. HopperOK' /\ Queue!Arrive /\ CardOK'
      BY <1>2, ArriveImplements, StationKeeps DEF Arrive
    <2> QED BY <1>0, <1>1, <2>1 DEF QInv, Queue!Next
  <1>3. CASE Io
    <2>1. HopperOK'
      BY <1>3 DEF Io, QInv, HopperOK
    <2>2. UNCHANGED hopper
      BY <1>3 DEF Io
    <2>3. /\ CardOK'
          /\ (Queue!ReadCard \/ Queue!ReadEoi) \/ UNCHANGED <<Tray, lastCard, hopper>>
      BY <1>3, IoImplements
    <2> QED BY <1>0, <1>1, <2>1, <2>3 DEF QInv, Queue!Next
  <1>4. CASE OpRequest /\ ExecuteLoad
    <2>1. /\ (opCmdFunction = "load" /\ Load) \/ (opCmdFunction = "loadNext" /\ LoadNext)
          /\ opActive /\ lastCard' = lastCard
      BY <1>4 DEF OpRequest, ExecuteLoad
    <2>2. /\ CardOK' /\ HopperOK'
          /\ Queue!Load \/ Queue!LoadInVain \/ UNCHANGED <<Hoppered, Tray, lastCard>>
      BY <2>1, LoadImplements
    <2> QED BY <1>0, <1>1, <2>2 DEF QInv, Queue!Next, Hoppered
  <1>5. CASE UNCHANGED readerVars
    <2>1. CardOK' /\ UNCHANGED <<Tray, lastCard>>
      BY <1>5, StationKeeps DEF readerVars
    <2>2. HopperOK' /\ UNCHANGED Hoppered
      BY <1>5 DEF readerVars, QInv, HopperOK, Hoppered
    <2> QED BY <1>0, <1>1, <2>1, <2>2 DEF QInv, Queue!Next, Hoppered
  <1>6. OpReadLine \/ OpRequestCommand \/ Resume \/ UNCHANGED vars => UNCHANGED readerVars
    BY DEF OpReadLine, OpRequestCommand, Resume, vars
  <1>7. OpRequest => ExecuteLoad \/ UNCHANGED readerVars
    BY DEF OpRequest, Pause
  <1> QED BY <1>2, <1>3, <1>4, <1>5, <1>6, <1>7 DEF Next

LEMMA InitImplements == Init => QInv /\ Queue!Init
  <1> SUFFICES ASSUME Init PROVE QInv /\ Queue!Init
    OBVIOUS
  <1>1. IInv
    BY InitIInv
  <1>2. hopper = <<>> /\ CardOK /\ HopperOK
    BY DEF Init, CardOK, HopperOK, NoFile
  <1>3. Tray = <<>>
    <2>1. inDeck = outDeck /\ outDeck \in Slots /\ Slot(inDeck - outDeck) = 0
      BY <1>1, SlotDifference DEF Init, IInv, TypeOK
    <2>2. decks \in Rings /\ inDeck \in Slots
      BY <1>1 DEF IInv, TypeOK, Rings, Contents
    <2>3. outDeck \in Slots
      BY <2>1
    <2>4. /\ Queued(decks, outDeck, inDeck) \in Seq(Contents)
          /\ Len(Queued(decks, outDeck, inDeck)) = Slot(inDeck - outDeck)
      BY <2>2, <2>3, QueuedType
    <2>5. Tray \in Seq(Contents) /\ Len(Tray) = 0
      BY <2>1, <2>4 DEF Tray
    <2> QED BY <2>5
  <1>4. {hopper[i] : i \in 1 .. Len(hopper)} = {}
    BY <1>2
  <1> QED BY <1>1, <1>2, <1>3, <1>4 DEF QInv, Queue!Init, Init

\* The reader is a queue of decks, each read from its first card to its last: none is
\* doubled or passed over, however often the ring has wrapped around (cr405LoadCards,
\* cr405NextCard, cr405StartNextDeck), and none is lost between hopper and tray, except
\* one that load_cards names while the tray is full (cr405PostProcess).
THEOREM ReaderIsAQueue == Spec => TraySpec
  <1>1. Init => QInv /\ Queue!Init
    BY InitImplements
  <1>2. QInv /\ [Next]_vars => QInv' /\ [Queue!Next]_(Queue!queueVars)
    BY NextImplements
  <1> QED BY <1>1, <1>2, PTL DEF Spec, TraySpec, Queue!Spec

=============================================================================
