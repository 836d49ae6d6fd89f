------------------------ MODULE PpConservationProofs -------------------------
(***************************************************************************)
(* Proofs about PpChannel: no word of a transfer is lost, doubled or       *)
(* overwritten, nor by the end of the transfer or of the deadstart load,   *)
(* for any number of PPs, channels and words and any delays.               *)
(***************************************************************************)
EXTENDS PpChannelProofs

\* Where the word in slot s of channel c can come from.
Origin(c, s, t) ==
    /\ s.data = "tape" => c = TapeChannel
    /\ s.data = "panel" => c = 0
    /\ s.ioDevice = "tape" /\ t.fcode = "write" /\ s.full => s.data = "pp"

\* The slot, the tape and the panel account for in words owed and out words offered.
InAccount(c, s, t, d, in) ==
    /\ s.ioDevice = "tape" /\ t.fcode \in InputFunctions
         => in = t.recordLength + One(s.full /\ s.data = "tape")
    /\ s.ioDevice = "panel" => in = PanelWords - d + One(s.full /\ s.data = "panel")
OutAccount(s, t, out) ==
    out = (IF s.ioDevice = "tape" /\ t.fcode = "write" THEN t.recordLength ELSE 0)
            + One(s.full /\ s.data = "pp")

Balanced(c, s, t, d, in, out) ==
    Origin(c, s, t) /\ InAccount(c, s, t, d, in) /\ OutAccount(s, t, out)

Accounts == /\ owed \in [Channels -> Int] /\ offered \in [Channels -> Int]
            /\ \A c \in Channels :
                   Balanced(c, channel[c], tape, dsSequence, owed[c], offered[c])

LInv == IInv /\ Accounts

\* What an account depends on.
SameWord(s, u) == u.full = s.full /\ u.data = s.data /\ u.ioDevice = s.ioDevice

LEMMA SameBalanced ==
    ASSUME NEW c, NEW s, NEW u, SameWord(s, u), NEW t, NEW d, NEW in, NEW out,
           Balanced(c, s, t, d, in, out)
    PROVE  Balanced(c, u, t, d, in, out)
  BY DEF SameWord, Balanced, Origin, InAccount, OutAccount

-----------------------------------------------------------------------------
(* The devices.                                                            *)

\* What an input or output with the tape may do to the word and the record.
TapeMoves(s, r) ==
    /\ r.dsSequence = dsSequence /\ r.slot.ioDevice = s.ioDevice
    /\ \/ SameWord(s, r.slot) /\ r.tape = tape
       \/ /\ tape.fcode \in InputFunctions /\ ~s.full
          /\ r.slot.full /\ r.slot.data = "tape"
          /\ r.tape.recordLength = tape.recordLength - 1
          /\ r.tape.fcode \in {tape.fcode, "none"}
       \/ /\ tape.fcode = "write" /\ s.full
          /\ ~r.slot.full /\ r.slot.data = "none"
          /\ r.tape.recordLength = tape.recordLength + 1 /\ r.tape.fcode = "write"

LEMMA TapeIoMoves ==
    ASSUME NEW s \in Slot, tape \in TapeState
    PROVE  TapeMoves(s, TapeIo(s))
<1>1. ASSUME NEW u \in Slot, SameWord(s, u) PROVE TapeMoves(s, Only(u))
  BY <1>1 DEF TapeMoves, Only, Result, SameWord
<1> DEFINE t == [s EXCEPT !.delayStatus = StatusDelay]
<1>2. t \in Slot /\ SameWord(s, t)
  BY Constants DEF Slot, SameWord
<1>3. CASE s.delayStatus # 0 \/ tape.fcode = "none"
  <2>1. TapeIo(s) = Only(s) \/ TapeIo(s) = Only(t)
    BY <1>3 DEF TapeIo, InputFunctions
  <2> QED BY <1>1, <1>2, <2>1 DEF SameWord
<1> HIDE DEF t
<1>4. ASSUME NEW u \in Slot, SameWord(t, u) PROVE TapeMoves(s, Only(u))
  BY <1>1, <1>2, <1>4 DEF SameWord
\* The next word is in the slot, whatever happens to the disconnects.
<1>5. ASSUME NEW u, ~t.full, tape.fcode \in InputFunctions,
             u.full, u.data = "tape", u.ioDevice = t.ioDevice,
             NEW w, w.recordLength = tape.recordLength - 1,
             w.fcode \in {tape.fcode, "none"}
      PROVE  TapeMoves(s, Result(u, w))
  BY <1>2, <1>5 DEF TapeMoves, Result, SameWord
<1>6. ASSUME tape.recordLength > 0
      PROVE  /\ Shorter \in TapeState /\ Shorter.fcode = tape.fcode
             /\ Shorter.recordLength = tape.recordLength - 1
  <2>1. /\ tape \in [fcode : InputFunctions \cup {"write", "none"},
                       recordLength : 0 .. RecordWords \cup 0 .. MaxPpBuf]
        /\ Shorter = [tape EXCEPT !.recordLength = @ - 1]
    BY DEF TapeState, Shorter
  <2>2. Shorter.recordLength = tape.recordLength - 1
    BY <2>1
  <2> QED BY <1>6, <2>2, ShorterType
<1>7. CASE s.delayStatus = 0 /\ tape.fcode = "read"
  <2>1. TapeIo(s) = ReadFwd(t)
    BY <1>7 DEF TapeIo, t
  <2>2. CASE t.full
    BY <1>2, <1>4, <2>1, <2>2 DEF ReadFwd, SameWord
  <2>3. CASE ~t.full /\ tape.recordLength = 0
    <3> DEFINE u == [t EXCEPT !.active = FALSE, !.delayDisconnect = 0]
    <3>0. 0 \in 0 .. DisconnectDelay
      BY Constants
    <3>1. u \in Slot /\ SameWord(t, u)
      BY <1>2, <3>0 DEF Slot, SameWord
    <3>2. ReadFwd(t) = Only(u)
      BY <2>3 DEF ReadFwd
    <3> QED BY <1>4, <2>1, <3>1, <3>2
  <2>4. CASE ~t.full /\ tape.recordLength > 0
    <3> DEFINE u == [Fill(t, "tape") EXCEPT !.delayDisconnect =
                         IF Last THEN DisconnectDelay ELSE @]
    <3>1. u.full /\ u.data = "tape" /\ u.ioDevice = t.ioDevice
      BY <1>2 DEF Slot, Fill
    <3>2. ReadFwd(t) = Result(u, Shorter)
      BY <2>4 DEF ReadFwd
    <3> HIDE DEF u
    <3> QED BY <1>5, <1>6, <1>7, <2>1, <2>4, <3>1, <3>2 DEF InputFunctions
  <2> QED BY <2>2, <2>3, <2>4, Constants DEF TapeState
<1>8. CASE s.delayStatus = 0 /\ tape.fcode = "readBkw"
  <2>1. TapeIo(s) = ReadBkw(t)
    BY <1>8 DEF TapeIo, t
  <2>2. CASE t.full
    BY <1>2, <1>4, <2>1, <2>2 DEF ReadBkw, SameWord
  <2>3. CASE ~t.full /\ tape.recordLength = 0
    <3> DEFINE u == [t EXCEPT !.active = FALSE]
    <3>1. u \in Slot /\ SameWord(t, u)
      BY <1>2 DEF Slot, SameWord
    <3>2. ReadBkw(t) = Only(u)
      BY <2>3 DEF ReadBkw
    <3> QED BY <1>4, <2>1, <3>1, <3>2
  <2>4. CASE ~t.full /\ tape.recordLength > 0
    <3> DEFINE u == [Fill(t, "tape") EXCEPT !.discAfterInput = @ \/ Last]
    <3>1. u.full /\ u.data = "tape" /\ u.ioDevice = t.ioDevice
      BY <1>2 DEF Slot, Fill
    <3>2. ReadBkw(t) = Result(u, Shorter)
      BY <2>4 DEF ReadBkw
    <3> HIDE DEF u
    <3> QED BY <1>5, <1>6, <1>8, <2>1, <2>4, <3>1, <3>2 DEF InputFunctions
  <2> QED BY <2>2, <2>3, <2>4, Constants DEF TapeState
<1>9. CASE s.delayStatus = 0 /\ tape.fcode = "status"
  <2>1. TapeIo(s) = GeneralStatus(t)
    BY <1>9 DEF TapeIo, t
  <2>2. CASE t.full \/ tape.recordLength = 0
    BY <1>2, <1>4, <2>1, <2>2 DEF GeneralStatus, SameWord
  <2>3. CASE ~(t.full \/ tape.recordLength = 0)
    <3> DEFINE u == [Fill(t, "tape") EXCEPT !.discAfterInput = @ \/ Last]
               w == [Shorter EXCEPT !.fcode = IF Last THEN "none" ELSE @]
    <3>1. u.full /\ u.data = "tape" /\ u.ioDevice = t.ioDevice
      BY <1>2 DEF Slot, Fill
    <3>2. w.recordLength = tape.recordLength - 1 /\ w.fcode \in {tape.fcode, "none"}
      <4>0. tape.recordLength \in 0 .. RecordWords \cup 0 .. MaxPpBuf
        BY DEF TapeState
      <4>1. tape.recordLength > 0
        BY <2>3, <4>0, Constants
      <4>2. /\ w.recordLength = Shorter.recordLength
            /\ w.fcode = IF Last THEN "none" ELSE Shorter.fcode
        BY <1>6, <4>1 DEF TapeState
      <4> QED BY <1>6, <4>1, <4>2
    <3>3. GeneralStatus(t) = Result(u, w)
      BY <2>3 DEF GeneralStatus
    <3> HIDE DEF u, w
    <3> QED BY <1>5, <1>9, <2>1, <2>3, <3>1, <3>2, <3>3 DEF InputFunctions
  <2> QED BY <2>2, <2>3
<1>10. CASE s.delayStatus = 0 /\ tape.fcode = "write"
  <2>1. TapeIo(s) = Write(t)
    BY <1>10 DEF TapeIo, t
  <2>2. CASE ~(t.full /\ tape.recordLength < MaxPpBuf)
    BY <1>2, <1>4, <2>1, <2>2 DEF Write, SameWord
  <2>3. CASE t.full /\ tape.recordLength < MaxPpBuf
    <3> DEFINE w == [tape EXCEPT !.recordLength = @ + 1]
    <3>0. w.recordLength = tape.recordLength + 1 /\ w.fcode = tape.fcode
      BY DEF TapeState
    <3>1. Write(t) = Result(Empty(t), w)
      BY <2>3 DEF Write
    <3>2. ~Empty(t).full /\ Empty(t).data = "none" /\ Empty(t).ioDevice = t.ioDevice
      BY <1>2 DEF Slot, Empty
    <3> DEFINE r == Result(Empty(t), w)
    <3>3. /\ r.dsSequence = dsSequence /\ r.slot.ioDevice = s.ioDevice
          /\ ~r.slot.full /\ r.slot.data = "none" /\ r.tape = w
      BY <1>2, <3>2 DEF Result, SameWord
    <3> HIDE DEF w, r
    <3>4. s.full
      BY <1>2, <2>3 DEF SameWord
    <3>5. TapeMoves(s, r)
      BY <1>10, <3>0, <3>3, <3>4 DEF TapeMoves
    <3> QED BY <2>1, <3>1, <3>5 DEF r
  <2> QED BY <2>2, <2>3
<1> QED BY <1>3, <1>7, <1>8, <1>9, <1>10 DEF TapeState, InputFunctions

\* A device that has done its part, or nothing, leaves the accounts balanced and
\* those of other channels alone.
KeepsBalance(c, s, r) ==
    /\ \A in, out \in Int :
           Balanced(c, s, tape, dsSequence, in, out)
             => Balanced(c, r.slot, r.tape, r.dsSequence, in, out)
    /\ c # TapeChannel => r.tape = tape
    /\ c # 0 => r.dsSequence = dsSequence

LEMMA OnlyKeepsBalance ==
    ASSUME NEW c, NEW s, NEW u, SameWord(s, u)
    PROVE  KeepsBalance(c, s, Only(u))
<1>1. Only(u).slot = u /\ Only(u).tape = tape /\ Only(u).dsSequence = dsSequence
  BY DEF Only, Result
<1> QED BY <1>1, SameBalanced DEF KeepsBalance

LEMMA MovesKeepBalance ==
    ASSUME NEW s, Fits(TapeChannel, s), s.ioDevice = "tape", tape \in TapeState,
           NEW r, TapeMoves(s, r)
    PROVE  KeepsBalance(TapeChannel, s, r)
<1>1. SUFFICES ASSUME NEW in \in Int, NEW out \in Int,
                      Balanced(TapeChannel, s, tape, dsSequence, in, out)
               PROVE  Balanced(TapeChannel, r.slot, r.tape, r.dsSequence, in, out)
  BY Constants DEF KeepsBalance, TapeMoves
<1>2. CASE SameWord(s, r.slot) /\ r.tape = tape
  BY <1>1, <1>2, SameBalanced DEF TapeMoves
<1>3. tape.recordLength \in Int
  BY Constants DEF TapeState
<1>4. CASE /\ tape.fcode \in InputFunctions /\ ~s.full
           /\ r.slot.full /\ r.slot.data = "tape"
           /\ r.tape.recordLength = tape.recordLength - 1
           /\ r.tape.fcode \in {tape.fcode, "none"}
  BY <1>1, <1>3, <1>4
  DEF TapeMoves, Balanced, Origin, InAccount, OutAccount, One, InputFunctions
<1>5. CASE /\ tape.fcode = "write" /\ s.full /\ ~r.slot.full /\ r.slot.data = "none"
           /\ r.tape.recordLength = tape.recordLength + 1 /\ r.tape.fcode = "write"
  BY <1>1, <1>3, <1>5
  DEF TapeMoves, Balanced, Origin, InAccount, OutAccount, One, InputFunctions
<1> QED BY <1>2, <1>4, <1>5 DEF TapeMoves

LEMMA PanelKeepsBalance ==
    ASSUME NEW s, Fits(0, s), s.ioDevice = "panel", dsSequence \in 0 .. PanelWords
    PROVE  KeepsBalance(0, s, PanelIo(s))
<1>1. CASE s.full
  BY <1>1, OnlyKeepsBalance DEF PanelIo, SameWord
<1>2. CASE ~s.full /\ dsSequence >= PanelWords
  <2>1. SameWord(s, [s EXCEPT !.active = FALSE])
    BY DEF Fits, Slot, SameWord
  <2>2. PanelIo(s) = Only([s EXCEPT !.active = FALSE])
    BY <1>2, Constants DEF PanelIo
  <2> QED BY <2>1, <2>2, OnlyKeepsBalance
<1>3. CASE ~s.full /\ dsSequence < PanelWords
  <2> DEFINE u == Fill(s, "panel")
  <2>1. PanelIo(s) = [slot |-> u, tape |-> tape, dsSequence |-> dsSequence + 1]
    BY <1>3 DEF PanelIo
  <2>2. u.full /\ u.data = "panel" /\ u.ioDevice = "panel"
    BY DEF Fits, Slot, Fill
  <2>3. ASSUME NEW in \in Int, NEW out \in Int,
               Balanced(0, s, tape, dsSequence, in, out)
        PROVE  Balanced(0, u, tape, dsSequence + 1, in, out)
    BY <1>3, <2>2, <2>3, Constants
    DEF Balanced, Origin, InAccount, OutAccount, One, Fits
  <2> QED BY <2>1, <2>3 DEF KeepsBalance
<1> QED BY <1>1, <1>2, <1>3, Constants

LEMMA IoKeepsBalance ==
    ASSUME NEW c \in Channels, NEW s, Fits(c, s),
           tape \in TapeState, dsSequence \in 0 .. PanelWords
    PROVE  KeepsBalance(c, s, ChannelIo(s)) /\ KeepsBalance(c, s, Polled(s))
<1>0. s \in Slot
  BY DEF Fits
<1>1. KeepsBalance(c, s, Only(s))
  BY OnlyKeepsBalance DEF SameWord
<1>2. CASE ~s.active \/ s.ioDevice = "none"
  <2>1. ChannelIo(s) = Only(s)
    BY <1>2 DEF ChannelIo
  <2> QED BY <1>1, <2>1 DEF Polled
<1>3. CASE s.active /\ s.ioDevice = "panel"
  <2>1. ChannelIo(s) = PanelIo(s) /\ c = 0
    BY <1>3 DEF ChannelIo, Fits
  <2> QED BY <1>1, <1>3, <2>1, PanelKeepsBalance DEF Polled
<1>4. CASE s.active /\ s.ioDevice = "tape"
  <2>1. ChannelIo(s) = TapeIo(s) /\ c = TapeChannel
    BY <1>4 DEF ChannelIo, Fits
  <2> QED BY <1>0, <1>1, <1>4, <2>1, TapeIoMoves, MovesKeepBalance DEF Polled
<1> QED BY <1>0, <1>2, <1>3, <1>4 DEF Slot

-----------------------------------------------------------------------------
(* The instructions.                                                       *)

\* What an instruction does to a word itself, and to the accounts.
LEMMA WordsBalance ==
    ASSUME NEW c, NEW s, Fits(c, s), NEW t \in TapeState, NEW d \in 0 .. PanelWords,
           NEW in \in Int, NEW out \in Int, Balanced(c, s, t, d, in, out)
    PROVE  /\ s.full => Balanced(c, Taken(s), t, d,
                                 in - One(s.data \in {"tape", "panel"}),
                                 IF s.discAfterInput THEN 0
                                 ELSE out - One(s.data = "pp"))
           /\ ~s.full => Balanced(c, Fill(s, "pp"), t, d, in, out + 1)
           /\ Balanced(c, Dropped(s), t, d, 0, 0)
           /\ Balanced(c, Disconnect(s), t, d, in,
                       IF s.ioDevice = "none" THEN 0 ELSE out)
<1>1. s \in Slot /\ t.recordLength \in Int /\ PanelWords \in Int
  BY Constants DEF Fits, TapeState
<1>2. ASSUME s.full
      PROVE  Balanced(c, Taken(s), t, d, in - One(s.data \in {"tape", "panel"}),
                      IF s.discAfterInput THEN 0 ELSE out - One(s.data = "pp"))
  <2> DEFINE u == Taken(s)
  <2>1. CASE s.discAfterInput
    <3>1. ~u.full /\ u.data = "none" /\ u.ioDevice = "none"
      BY <1>1, <2>1 DEF Slot, Taken, Empty
    <3> HIDE DEF u
    <3>2. Balanced(c, u, t, d, in - One(s.data \in {"tape", "panel"}), 0)
      BY <3>1 DEF Balanced, Origin, InAccount, OutAccount, One
    <3> QED BY <2>1, <3>2 DEF u
  <2>2. CASE ~s.discAfterInput
    <3>1. ~u.full /\ u.data = "none" /\ u.ioDevice = s.ioDevice
      BY <1>1, <2>2 DEF Slot, Taken, Empty
    <3> HIDE DEF u
    <3>2. Balanced(c, u, t, d, in - One(s.data \in {"tape", "panel"}),
                   out - One(s.data = "pp"))
      BY <1>1, <1>2, <3>1, Constants
      DEF Fits, Balanced, Origin, InAccount, OutAccount, One
    <3> QED BY <2>2, <3>2 DEF u
  <2> QED BY <2>1, <2>2
<1>3. ASSUME ~s.full PROVE Balanced(c, Fill(s, "pp"), t, d, in, out + 1)
  <2>1. Fill(s, "pp").full /\ Fill(s, "pp").data = "pp" /\ Fill(s, "pp").ioDevice = s.ioDevice
    BY <1>1 DEF Slot, Fill
  <2> QED BY <1>1, <1>3, <2>1 DEF Balanced, Origin, InAccount, OutAccount, One
<1>4. Balanced(c, Dropped(s), t, d, 0, 0)
  <2>1. ~Dropped(s).full /\ Dropped(s).data = "none" /\ Dropped(s).ioDevice = "none"
    BY <1>1 DEF Slot, Dropped, Empty
  <2> QED BY <2>1 DEF Balanced, Origin, InAccount, OutAccount, One
<1>5. Balanced(c, Disconnect(s), t, d, in, IF s.ioDevice = "none" THEN 0 ELSE out)
  <2>1. CASE s.ioDevice = "tape" \/ s.ioDevice = "panel"
    <3>1. SameWord(s, Disconnect(s))
      BY <1>1, <2>1 DEF Slot, Disconnect, SameWord
    <3> QED BY <2>1, <3>1, SameBalanced
  <2>2. CASE s.ioDevice = "none"
    <3> DEFINE u == Disconnect(s)
    <3>1. ~u.full /\ u.data = "none" /\ u.ioDevice = "none"
      BY <1>1, <2>2 DEF Slot, Disconnect, Empty
    <3> HIDE DEF u
    <3>2. Balanced(c, u, t, d, in, 0)
      BY <3>1 DEF Balanced, Origin, InAccount, OutAccount, One
    <3> QED BY <2>2, <3>2 DEF u
  <2> QED BY <1>1, <2>1, <2>2 DEF Slot
<1> QED BY <1>2, <1>3, <1>4, <1>5

\* A step on one channel; a device may change only what is its own.
LEMMA OneAccount ==
    ASSUME NEW c \in Channels, NEW slots \in [Channels -> Slot],
           \A d \in Channels : Fits(d, slots[d]),
           \A d \in Channels :
               Balanced(d, slots[d], tape, dsSequence, owed[d], offered[d]),
           owed \in [Channels -> Int], offered \in [Channels -> Int],
           NEW x, NEW in \in Int, NEW out \in Int,
           Balanced(c, x, tape', dsSequence', in, out),
           channel' = [slots EXCEPT ![c] = x],
           owed' = [owed EXCEPT ![c] = in], offered' = [offered EXCEPT ![c] = out],
           c # TapeChannel => tape' = tape, c # 0 => dsSequence' = dsSequence
    PROVE  Accounts'
<1>1. ASSUME NEW d \in Channels
      PROVE  Balanced(d, channel'[d], tape', dsSequence', owed'[d], offered'[d])
  <2>1. CASE d = c
    BY <2>1
  <2>2. CASE d # c
    <3>1. /\ channel'[d] = slots[d] /\ owed'[d] = owed[d] /\ offered'[d] = offered[d]
          /\ slots[d].ioDevice = "tape" => tape' = tape
          /\ slots[d].ioDevice = "panel" => dsSequence' = dsSequence
      BY <2>2 DEF Fits
    <3>2. Balanced(d, slots[d], tape, dsSequence, owed[d], offered[d])
      OBVIOUS
    <3>3. Origin(d, slots[d], tape')
      BY <3>1, <3>2 DEF Balanced, Origin
    <3>4. InAccount(d, slots[d], tape', dsSequence', owed[d])
      BY <3>1, <3>2 DEF Balanced, InAccount
    <3>5. OutAccount(slots[d], tape', offered[d])
      BY <3>1, <3>2 DEF Balanced, OutAccount
    <3> QED BY <3>1, <3>3, <3>4, <3>5 DEF Balanced
  <2> QED BY <2>1, <2>2
<1>2. owed' \in [Channels -> Int] /\ offered' \in [Channels -> Int]
  OBVIOUS
<1> QED BY <1>1, <1>2 DEF Accounts

\* The same when a device took part, and nothing was put or taken.
LEMMA OneIoAccount ==
    ASSUME LInv, NEW c \in Channels, NEW slots \in [Channels -> Slot],
           \A d \in Channels : Fits(d, slots[d]),
           \A d \in Channels :
               Balanced(d, slots[d], tape, dsSequence, owed[d], offered[d]),
           NEW r, KeepsBalance(c, slots[c], r), Set(slots, c, r), UNCHANGED history
    PROVE  Accounts'
<1>1. owed[c] \in Int /\ offered[c] \in Int
  BY DEF LInv, Accounts
<1>2. owed' = [owed EXCEPT ![c] = owed[c]] /\ offered' = [offered EXCEPT ![c] = offered[c]]
  BY DEF LInv, Accounts, history
<1>3. /\ channel' = [slots EXCEPT ![c] = r.slot]
      /\ tape' = r.tape /\ dsSequence' = r.dsSequence
  BY DEF Set
<1>4. Balanced(c, r.slot, tape', dsSequence', owed[c], offered[c])
  BY <1>1, <1>3 DEF KeepsBalance
<1>5. (c # TapeChannel => tape' = tape) /\ (c # 0 => dsSequence' = dsSequence)
  BY <1>3 DEF KeepsBalance
<1> QED BY <1>1, <1>2, <1>3, <1>4, <1>5, OneAccount DEF LInv, Accounts

\* An input that takes a word.
LEMMA TookAccount ==
    ASSUME LInv, NEW c \in Channels, NEW slots \in [Channels -> Slot],
           \A d \in Channels : Fits(d, slots[d]),
           \A d \in Channels :
               Balanced(d, slots[d], tape, dsSequence, owed[d], offered[d]),
           NEW s, Fits(c, s), Balanced(c, s, tape, dsSequence, owed[c], offered[c]),
           NEW r, r = Polled(s), r.slot.full,
           Set(slots, c, Took(r)), TookFrom(c, r.slot)
    PROVE  Accounts'
<1> DEFINE in == owed[c] - One(r.slot.data \in {"tape", "panel"})
           out == IF r.slot.discAfterInput THEN 0
                  ELSE offered[c] - One(r.slot.data = "pp")
<1>1. owed[c] \in Int /\ offered[c] \in Int
  BY DEF LInv, Accounts
<1>2. in \in Int /\ out \in Int
  BY <1>1 DEF One
<1>3. owed' = [owed EXCEPT ![c] = in] /\ offered' = [offered EXCEPT ![c] = out]
  BY DEF TookFrom
<1>4. /\ channel' = [slots EXCEPT ![c] = Taken(r.slot)]
      /\ tape' = r.tape /\ dsSequence' = r.dsSequence
  BY DEF Set, Took
<1>5. tape \in TapeState /\ dsSequence \in 0 .. PanelWords
  BY DEF LInv, IInv, ChannelsInv
<1>6. KeepsBalance(c, s, r)
  BY <1>5, IoKeepsBalance
<1>7. Balanced(c, r.slot, r.tape, r.dsSequence, owed[c], offered[c])
  BY <1>1, <1>6 DEF KeepsBalance
<1>8. Fits(c, r.slot) /\ r.tape \in TapeState /\ r.dsSequence \in 0 .. PanelWords
  BY <1>5, PolledKeeps DEF Kept, World
<1>9. Balanced(c, Taken(r.slot), tape', dsSequence', in, out)
  BY <1>1, <1>4, <1>7, <1>8, WordsBalance
<1>10. (c # TapeChannel => tape' = tape) /\ (c # 0 => dsSequence' = dsSequence)
  BY <1>4, <1>6 DEF KeepsBalance
<1> HIDE DEF in, out
<1> QED BY <1>2, <1>3, <1>4, <1>9, <1>10, OneAccount DEF LInv, Accounts

\* An output of word slot u, which s became, to the device.
LEMMA PutAccount ==
    ASSUME LInv, NEW c \in Channels, NEW slots \in [Channels -> Slot],
           \A d \in Channels : Fits(d, slots[d]),
           \A d \in Channels :
               Balanced(d, slots[d], tape, dsSequence, owed[d], offered[d]),
           NEW s, Fits(c, s), Balanced(c, s, tape, dsSequence, owed[c], offered[c]),
           ~s.full, NEW u, Fits(c, u), SameWord(Fill(s, "pp"), u),
           Set(slots, c, ChannelIo(u)), PutOn(c, 1)
    PROVE  Accounts'
<1> DEFINE r == ChannelIo(u)
<1>1. owed[c] \in Int /\ offered[c] \in Int /\ offered[c] + 1 \in Int
  BY DEF LInv, Accounts
<1>2. /\ owed' = [owed EXCEPT ![c] = owed[c]]
      /\ offered' = [offered EXCEPT ![c] = offered[c] + 1]
  BY DEF PutOn, LInv, Accounts
<1>3. /\ channel' = [slots EXCEPT ![c] = r.slot]
      /\ tape' = r.tape /\ dsSequence' = r.dsSequence
  BY DEF Set
<1>4. tape \in TapeState /\ dsSequence \in 0 .. PanelWords
  BY DEF LInv, IInv, ChannelsInv
<1>5. Balanced(c, Fill(s, "pp"), tape, dsSequence, owed[c], offered[c] + 1)
  BY <1>1, <1>4, WordsBalance
<1>6. Balanced(c, u, tape, dsSequence, owed[c], offered[c] + 1)
  BY <1>5, SameBalanced
<1>7. KeepsBalance(c, u, r)
  BY <1>4, IoKeepsBalance
<1>8. Balanced(c, r.slot, tape', dsSequence', owed[c], offered[c] + 1)
  BY <1>1, <1>3, <1>6, <1>7 DEF KeepsBalance
<1>9. (c # TapeChannel => tape' = tape) /\ (c # 0 => dsSequence' = dsSequence)
  BY <1>3, <1>7 DEF KeepsBalance
<1> HIDE DEF r
<1> QED BY <1>1, <1>2, <1>3, <1>8, <1>9, OneAccount DEF LInv, Accounts

\* A step that changes only one slot and its accounts.
LEMMA SlotAccount ==
    ASSUME LInv, NEW c \in Channels, NEW x, NEW in \in Int, NEW out \in Int,
           Balanced(c, x, tape, dsSequence, in, out),
           channel' = [channel EXCEPT ![c] = x], UNCHANGED devices,
           owed' = [owed EXCEPT ![c] = in], offered' = [offered EXCEPT ![c] = out]
    PROVE  Accounts'
<1>1. /\ channel \in [Channels -> Slot] /\ tape' = tape /\ dsSequence' = dsSequence
      /\ \A d \in Channels : Fits(d, channel[d])
  BY DEF LInv, IInv, ChannelsInv, SlotsInv, devices
<1> QED BY <1>1, OneAccount DEF LInv, Accounts

\* A block transfer that finds its channel inactive.
LEMMA DroppedAccount ==
    ASSUME LInv, NEW c \in Channels, NEW s, Fits(c, s),
           Balanced(c, s, tape, dsSequence, owed[c], offered[c]),
           Forgotten(c), Set(channel, c, Only(Dropped(s)))
    PROVE  Accounts'
<1>1. owed[c] \in Int /\ offered[c] \in Int
  BY DEF LInv, Accounts
<1>2. tape \in TapeState /\ dsSequence \in 0 .. PanelWords
  BY DEF LInv, IInv, ChannelsInv
<1>3. Balanced(c, Dropped(s), tape, dsSequence, 0, 0)
  BY <1>1, <1>2, WordsBalance
<1>4. channel' = [channel EXCEPT ![c] = Dropped(s)] /\ UNCHANGED devices
  BY DEF Set, Only, Result, devices
<1>5. owed' = [owed EXCEPT ![c] = 0] /\ offered' = [offered EXCEPT ![c] = 0]
  BY DEF Forgotten
<1> QED BY <1>3, <1>4, <1>5, 0 \in Int, SlotAccount

LEMMA StartAccounts ==
    ASSUME LInv, NEW p \in Pps
    PROVE  /\ \A d \in Channels : Balanced(d, WordSlots(p)[d], tape, dsSequence,
                                           owed[d], offered[d])
           /\ \A c \in Channels : Balanced(c, BlockSlot(p, c), tape, dsSequence,
                                           owed[c], offered[c])
<1>1. \A c \in Channels : SameWord(channel[c], [channel[c] EXCEPT !.delayStatus = 0])
  BY DEF LInv, IInv, ChannelsInv, Slot, SameWord
<1>2. \A c \in Channels : /\ SameWord(channel[c], WordSlots(p)[c])
                          /\ SameWord(channel[c], BlockSlot(p, c))
  BY <1>1 DEF WordSlots, BlockSlot, SameWord, LInv, IInv, ChannelsInv
<1> QED BY <1>2, SameBalanced DEF LInv, Accounts

LEMMA IANBalances == ASSUME LInv, NEW p \in Pps, IAN(p) PROVE Accounts'
<1> PICK i \in Executes(p, "IAN") : IAN(p)!(i)
  BY DEF IAN
<1> DEFINE slots == WordSlots(p)
           c == i.opD
           s == slots[c]
           r == Polled(s)
<1>0. IInv /\ tape \in TapeState /\ dsSequence \in 0 .. PanelWords
  BY DEF LInv, IInv, ChannelsInv
<1>1. c \in Channels
  BY <1>0, TurnType DEF BlockOps, WordOps, DoneOrBusy
<1>2. /\ slots \in [Channels -> Slot] /\ \A d \in Channels : Fits(d, slots[d])
      /\ \A d \in Channels :
             Balanced(d, slots[d], tape, dsSequence, owed[d], offered[d])
  BY <1>0, StartType, StartAccounts
<1>3. CASE channel' = slots /\ UNCHANGED <<devices, history>>
  BY <1>2, <1>3 DEF devices, history, LInv, Accounts
<1>4. CASE Set(slots, c, r) /\ UNCHANGED history
  <2>1. KeepsBalance(c, slots[c], r)
    BY <1>0, <1>1, <1>2, IoKeepsBalance
  <2> QED BY <1>1, <1>2, <1>4, <2>1, OneIoAccount
<1>5. CASE r.slot.full /\ Set(slots, c, Took(r)) /\ TookFrom(c, r.slot)
  BY <1>1, <1>2, <1>5, TookAccount
<1> QED BY <1>3, <1>4, <1>5

LEMMA IAMBalances == ASSUME LInv, NEW p \in Pps, IAM(p) PROVE Accounts'
<1> PICK i \in Executes(p, "IAM") : IAM(p)!(i)
  BY DEF IAM
<1> DEFINE c == i.opD
           s == BlockSlot(p, c)
           r == Polled(s)
<1>0. IInv /\ tape \in TapeState /\ dsSequence \in 0 .. PanelWords
  BY DEF LInv, IInv, ChannelsInv
<1>1. c \in Channels
  BY <1>0, TurnType DEF BlockOps, WordOps
<1>2. Fits(c, s) /\ Balanced(c, s, tape, dsSequence, owed[c], offered[c])
  BY <1>0, <1>1, StartType, StartAccounts
<1>3. /\ channel \in [Channels -> Slot] /\ \A d \in Channels : Fits(d, channel[d])
      /\ \A d \in Channels :
             Balanced(d, channel[d], tape, dsSequence, owed[d], offered[d])
  BY DEF LInv, IInv, ChannelsInv, SlotsInv, Accounts
<1>4. CASE Forgotten(c) /\ Set(channel, c, Only(Dropped(s)))
  BY <1>1, <1>2, <1>4, DroppedAccount
<1>5. CASE Set(channel, c, r) /\ UNCHANGED history
  <2>1. KeepsBalance(c, s, r)
    BY <1>0, <1>1, <1>2, IoKeepsBalance
  <2>2. SameWord(s, channel[c])
    BY <1>1, <1>3 DEF BlockSlot, SameWord, Slot
  <2>3. KeepsBalance(c, channel[c], r)
    BY <2>1, <2>2 DEF KeepsBalance, SameWord, Balanced, Origin, InAccount, OutAccount
  <2> QED BY <1>1, <1>3, <1>5, <2>3, OneIoAccount
<1>6. CASE r.slot.full /\ Set(channel, c, Took(r)) /\ TookFrom(c, r.slot)
  BY <1>1, <1>2, <1>3, <1>6, TookAccount
<1> QED BY <1>4, <1>5, <1>6

LEMMA OANBalances == ASSUME LInv, NEW p \in Pps, OAN(p) PROVE Accounts'
<1> PICK i \in Executes(p, "OAN") : OAN(p)!(i)
  BY DEF OAN
<1> DEFINE slots == WordSlots(p)
           c == i.opD
           s == slots[c]
<1>0. IInv /\ tape \in TapeState /\ dsSequence \in 0 .. PanelWords
  BY DEF LInv, IInv, ChannelsInv
<1>1. c \in Channels
  BY <1>0, TurnType DEF BlockOps, WordOps, DoneOrBusy
<1>2. /\ slots \in [Channels -> Slot] /\ \A d \in Channels : Fits(d, slots[d])
      /\ \A d \in Channels :
             Balanced(d, slots[d], tape, dsSequence, owed[d], offered[d])
  BY <1>0, StartType, StartAccounts
<1>3. CASE channel' = slots /\ UNCHANGED <<devices, history>>
  BY <1>2, <1>3 DEF devices, history, LInv, Accounts
<1>4. CASE Set(slots, c, ChannelIo(s)) /\ UNCHANGED history
  <2>1. KeepsBalance(c, slots[c], ChannelIo(s))
    BY <1>0, <1>1, <1>2, IoKeepsBalance
  <2> QED BY <1>1, <1>2, <1>4, <2>1, OneIoAccount
<1>5. CASE ~s.full /\ Set(slots, c, ChannelIo(Fill(s, "pp"))) /\ PutOn(c, 1)
  <2>1. Fits(c, Fill(s, "pp")) /\ SameWord(Fill(s, "pp"), Fill(s, "pp"))
    BY <1>1, <1>2, 0 \in Nat, SlotChanges DEF SameWord
  <2> QED BY <1>1, <1>2, <1>5, <2>1, PutAccount
<1> QED BY <1>3, <1>4, <1>5

LEMMA OAMBalances == ASSUME LInv, NEW p \in Pps, OAM(p) PROVE Accounts'
<1> PICK i \in Executes(p, "OAM") : OAM(p)!(i)
  BY DEF OAM
<1> DEFINE c == i.opD
           s == BlockSlot(p, c)
<1>0. IInv /\ tape \in TapeState /\ dsSequence \in 0 .. PanelWords
  BY DEF LInv, IInv, ChannelsInv
<1>1. c \in Channels
  BY <1>0, TurnType DEF BlockOps, WordOps
<1>2. Fits(c, s) /\ Balanced(c, s, tape, dsSequence, owed[c], offered[c])
  BY <1>0, <1>1, StartType, StartAccounts
<1>3. /\ channel \in [Channels -> Slot] /\ \A d \in Channels : Fits(d, channel[d])
      /\ \A d \in Channels :
             Balanced(d, channel[d], tape, dsSequence, owed[d], offered[d])
  BY DEF LInv, IInv, ChannelsInv, SlotsInv, Accounts
<1>4. CASE Forgotten(c) /\ Set(channel, c, Only(Dropped(s)))
  BY <1>1, <1>2, <1>4, DroppedAccount
<1>5. CASE Set(channel, c, ChannelIo(s)) /\ UNCHANGED history
  <2>1. KeepsBalance(c, s, ChannelIo(s))
    BY <1>0, <1>1, <1>2, IoKeepsBalance
  <2>2. SameWord(s, channel[c])
    BY <1>1, <1>3 DEF BlockSlot, SameWord, Slot
  <2>3. KeepsBalance(c, channel[c], ChannelIo(s))
    BY <2>1, <2>2 DEF KeepsBalance, SameWord, Balanced, Origin, InAccount, OutAccount
  <2> QED BY <1>1, <1>3, <1>5, <2>3, OneIoAccount
<1>6. CASE ~s.full /\ Set(channel, c, ChannelIo(WordPut(s, i))) /\ PutOn(c, 1)
  <2> DEFINE f == Fill(s, "pp")
             n == IF i.regA = 1 THEN 0 ELSE f.delayStatus
             u == WordPut(s, i)
  <2>1. Fits(c, f)
    BY <1>1, <1>2, 0 \in Nat, SlotChanges
  <2>2. n \in Nat /\ u = [f EXCEPT !.delayStatus = n]
    BY <2>1 DEF Fits, Slot, WordPut
  <2>3. SameWord(f, [f EXCEPT !.delayStatus = n])
    BY <2>1 DEF Fits, Slot, SameWord
  <2> HIDE DEF f, n, u
  <2>4. Fits(c, u) /\ SameWord(f, u)
    BY <1>1, <2>1, <2>2, <2>3, SlotChanges
  <2> QED BY <1>1, <1>2, <1>3, <1>6, <2>4, PutAccount DEF f, u
<1> QED BY <1>4, <1>5, <1>6

LEMMA ACNBalances == ASSUME LInv, NEW p \in Pps, ACN(p) PROVE Accounts'
<1> PICK i \in Executes(p, "ACN") : ACN(p)!(i)
  BY DEF ACN
<1> DEFINE c == i.opD
<1>1. UNCHANGED <<devices, history>>
  OBVIOUS
<1>2. ASSUME NEW d \in Channels PROVE SameWord(channel[d], channel'[d])
  BY DEF SameWord, LInv, IInv, ChannelsInv, Slot
<1> QED BY <1>1, <1>2, SameBalanced DEF devices, history, LInv, Accounts

LEMMA DCNBalances == ASSUME LInv, NEW p \in Pps, DCN(p) PROVE Accounts'
<1> PICK i \in Executes(p, "DCN") : DCN(p)!(i)
  BY DEF DCN
<1> DEFINE c == i.opD
           s == channel[c]
           out == IF s.ioDevice = "none" THEN 0 ELSE offered[c]
<1>0. IInv /\ tape \in TapeState /\ dsSequence \in 0 .. PanelWords
  BY DEF LInv, IInv, ChannelsInv
<1>1. c \in Channels
  BY <1>0, TurnType DEF BlockOps, WordOps, DoneOrBusy
<1>2. UNCHANGED <<devices, owed>>
  OBVIOUS
<1>3. CASE UNCHANGED <<channel, offered>>
  BY <1>2, <1>3 DEF devices, LInv, Accounts
<1>4. CASE /\ channel' = [channel EXCEPT ![c] = Disconnect(s)]
           /\ offered' = [offered EXCEPT ![c] = out]
  <2>1. /\ owed[c] \in Int /\ offered[c] \in Int /\ out \in Int
        /\ owed' = [owed EXCEPT ![c] = owed[c]]
        /\ Fits(c, s) /\ Balanced(c, s, tape, dsSequence, owed[c], offered[c])
    BY <1>0, <1>1, <1>2 DEF LInv, Accounts, IInv, ChannelsInv, SlotsInv
  <2>2. Balanced(c, Disconnect(s), tape, dsSequence, owed[c], out)
    BY <1>0, <2>1, WordsBalance
  <2>3. UNCHANGED devices
    BY <1>2
  <2> HIDE DEF out
  <2> QED BY <1>1, <1>4, <2>1, <2>2, <2>3, SlotAccount
<1> QED BY <1>3, <1>4

LEMMA FNCBalances == ASSUME LInv, NEW p \in Pps, FNC(p) PROVE Accounts'
<1> PICK i \in Executes(p, "FNC") : FNC(p)!(i)
  BY DEF FNC
<1> DEFINE c == i.opD
           s == Empty(channel[c])
<1>0. IInv /\ tape \in TapeState /\ dsSequence' = dsSequence
  BY DEF LInv, IInv, ChannelsInv
<1>1. c \in Channels
  BY <1>0, TurnType DEF BlockOps, WordOps, DoneOrBusy
<1>2. /\ channel \in [Channels -> Slot] /\ \A d \in Channels : Fits(d, channel[d])
      /\ \A d \in Channels :
             Balanced(d, channel[d], tape, dsSequence, owed[d], offered[d])
      /\ owed \in [Channels -> Int] /\ offered \in [Channels -> Int]
  BY DEF LInv, IInv, ChannelsInv, SlotsInv, Accounts
<1>3. ~s.full /\ s.data = "none"
  BY <1>1, <1>2 DEF Slot, Empty
<1>4. CASE UNCHANGED <<channel, tape, history>>
  BY <1>0, <1>4 DEF history, LInv, Accounts
<1>5. CASE /\ tape' \in IF c = TapeChannel THEN Accepted ELSE {}
           /\ channel' = [channel EXCEPT ![c] = [s EXCEPT !.ioDevice = "tape"]]
           /\ owed' = [owed EXCEPT ![c] = tape'.recordLength]
           /\ offered' = [offered EXCEPT ![c] = 0]
  <2> DEFINE x == [s EXCEPT !.ioDevice = "tape"]
  <2>1. c = TapeChannel /\ tape' \in Accepted
    BY <1>5
  <2>2. /\ tape'.recordLength \in Int
        /\ tape'.fcode = "write" => tape'.recordLength = 0
    BY <2>1, Constants DEF Accepted
  <2>3. ~x.full /\ x.data = "none" /\ x.ioDevice = "tape"
    BY <1>1, <1>2, <1>3 DEF Slot, Empty
  <2> HIDE DEF x
  <2>4. Balanced(c, x, tape', dsSequence', tape'.recordLength, 0)
    BY <2>2, <2>3 DEF Balanced, Origin, InAccount, OutAccount, One
  <2>5. channel' = [channel EXCEPT ![c] = x]
    BY <1>5 DEF x
  <2> QED BY <1>0, <1>1, <1>2, <1>5, <2>1, <2>2, <2>4, <2>5, 0 \in Int, OneAccount
\* A slot without a device that no PP has put a word in.
<1>6. ASSUME NEW x, x.ioDevice = "none", x.data \in {"none", "stale"},
             channel' = [channel EXCEPT ![c] = x], Forgotten(c),
             c # TapeChannel => tape' = tape
      PROVE  Accounts'
  <2>1. Balanced(c, x, tape', dsSequence', 0, 0)
    BY <1>6 DEF Balanced, Origin, InAccount, OutAccount, One
  <2>2. owed' = [owed EXCEPT ![c] = 0] /\ offered' = [offered EXCEPT ![c] = 0]
    BY <1>6 DEF Forgotten
  <2> QED BY <1>0, <1>1, <1>2, <1>6, <2>1, <2>2, 0 \in Int, OneAccount
<1>7. CASE /\ c = TapeChannel /\ Forgotten(c)
           /\ channel' = [channel EXCEPT ![c] = [s EXCEPT !.ioDevice = "none"]]
  <2>1. LET x == [s EXCEPT !.ioDevice = "none"] IN x.ioDevice = "none" /\ x.data = "none"
    BY <1>1, <1>2 DEF Slot, Empty
  <2> QED BY <1>6, <1>7, <2>1
<1>8. CASE /\ tape' = IF c = TapeChannel THEN NoFunction ELSE tape
           /\ Forgotten(c) /\ channel' = [channel EXCEPT ![c] = DeclinedSlot(s)]
  <2>1. DeclinedSlot(s).ioDevice = "none" /\ DeclinedSlot(s).data = "stale"
    BY <1>1, <1>2 DEF Slot, Empty, DeclinedSlot
  <2> QED BY <1>6, <1>8, <2>1
<1> QED BY <1>4, <1>5, <1>7, <1>8

LEMMA LookingBalances ==
    ASSUME LInv, NEW p \in Pps, Probe(p) \/ Test(p) \/ Compute(p) PROVE Accounts'
<1>1. CASE Probe(p)
  <2>1. PICK c \in Channels : Set(channel, c, ChannelIo(channel[c])) /\ UNCHANGED history
    BY <1>1 DEF Probe
  <2>2. /\ channel \in [Channels -> Slot] /\ \A d \in Channels : Fits(d, channel[d])
        /\ \A d \in Channels :
               Balanced(d, channel[d], tape, dsSequence, owed[d], offered[d])
        /\ tape \in TapeState /\ dsSequence \in 0 .. PanelWords
    BY DEF LInv, IInv, ChannelsInv, SlotsInv, Accounts
  <2>3. KeepsBalance(c, channel[c], ChannelIo(channel[c]))
    BY <2>2, IoKeepsBalance
  <2> QED BY <2>1, <2>2, <2>3, OneIoAccount
<1>2. CASE Test(p) \/ Compute(p)
  BY <1>2 DEF Test, Compute, devices, history, LInv, Accounts
<1> QED BY <1>1, <1>2

LEMMA ChannelStepBalances == ASSUME LInv, ChannelStep PROVE Accounts'
<1>1. ASSUME NEW d \in Channels PROVE SameWord(channel[d], channel'[d])
  BY DEF ChannelStep, Elapsed, SameWord, LInv, IInv, ChannelsInv, Slot
<1> QED BY <1>1, SameBalanced DEF ChannelStep, devices, history, LInv, Accounts

LEMMA StartBalances ==
    ASSUME NEW c \in Channels, NEW s \in Slot, NEW t
    PROVE  Balanced(c, DeadstartSlot(s, c), t, 0, FirstOwed[c], 0)
<1>1. CASE c = 0
  BY <1>1, Constants
  DEF DeadstartSlot, Fill, Slot, Balanced, Origin, InAccount, OutAccount, One, FirstOwed
<1>2. CASE c # 0
  BY <1>2
  DEF DeadstartSlot, Empty, Slot, Balanced, Origin, InAccount, OutAccount, One, FirstOwed
<1> QED BY <1>1, <1>2

LEMMA StartTypes ==
    /\ FirstOwed \in [Channels -> Int]
    /\ [c \in Channels |-> 0] \in [Channels -> Int]
  BY Constants DEF FirstOwed

LEMMA DeadstartBalances == ASSUME LInv, Deadstart PROVE Accounts'
<1>1. /\ \A c \in Channels : channel[c] \in Slot
      /\ channel' = [c \in Channels |-> DeadstartSlot(channel[c], c)]
      /\ owed' = FirstOwed /\ offered' = [c \in Channels |-> 0]
      /\ dsSequence' = 0
  BY DEF LInv, IInv, ChannelsInv, Deadstart
<1> QED BY <1>1, StartBalances, StartTypes DEF Accounts

LEMMA InitLInv == Init => LInv
<1>1. NewSlot \in Slot
  BY Constants DEF NewSlot, Slot
<1>2. Init => Accounts
  BY <1>1, StartBalances, StartTypes DEF Init, Accounts
<1> QED BY <1>2, InitIInv DEF LInv

LEMMA LInductive == LInv /\ [Next]_vars => LInv'
<1> SUFFICES ASSUME LInv, [Next]_vars PROVE Accounts'
  BY Inductive DEF LInv
<1>1. CASE Deadstart
  BY <1>1, DeadstartBalances
<1>2. CASE ChannelStep
  BY <1>2, ChannelStepBalances
<1>3. ASSUME NEW p \in Pps, IAN(p) \/ IAM(p) \/ OAN(p) \/ OAM(p) PROVE Accounts'
  BY <1>3, IANBalances, IAMBalances, OANBalances, OAMBalances
<1>4. ASSUME NEW p \in Pps, ACN(p) \/ DCN(p) \/ FNC(p) PROVE Accounts'
  BY <1>4, ACNBalances, DCNBalances, FNCBalances
<1>5. ASSUME NEW p \in Pps, Probe(p) \/ Test(p) \/ Compute(p) PROVE Accounts'
  BY <1>5, LookingBalances
<1>6. CASE UNCHANGED vars
  BY <1>6 DEF vars, devices, history, LInv, Accounts
<1> QED BY <1>1, <1>2, <1>3, <1>4, <1>5, <1>6 DEF Next

-----------------------------------------------------------------------------
(* The theorems.                                                           *)

\* The accounts of every channel balance in every reachable state.
THEOREM AccountsBalance == Spec => []LInv
  BY InitLInv, LInductive, PTL DEF Spec

\* Every word of a record, of a status and of the deadstart panel is in exactly
\* one place, however many PPs share the transfer (mt679.c:1544, deadstart.c:227).
THEOREM InputIsConserved == Spec => []InputConserved
<1>1. LInv => InputConserved
  <2> SUFFICES ASSUME LInv PROVE InputConserved
    OBVIOUS
  <2>1. /\ Balanced(TapeChannel, channel[TapeChannel], tape, dsSequence,
                    owed[TapeChannel], offered[TapeChannel])
        /\ Balanced(0, channel[0], tape, dsSequence, owed[0], offered[0])
    BY Constants DEF LInv, Accounts
  <2> QED BY <2>1 DEF Balanced, InAccount, InputConserved, InChannel
<1> QED BY <1>1, AccountsBalance, PTL

\* No PP overwrites a word in a channel, and the tape takes each word once
\* (pp.c:2066-2178, mt679.c:1778).
THEOREM OutputIsConserved == Spec => []OutputConserved
<1>1. LInv => OutputConserved
  BY DEF LInv, Accounts, Balanced, OutAccount, OutputConserved, Written, InChannel
<1> QED BY <1>1, AccountsBalance, PTL

\* A block output leaves no word in a channel that the tape could have taken: the last
\* one is put with the status delay off, so that the tape takes it at once (pp.c:2171).
THEOREM LastWordsReachTape == Spec => LastWordReachesTape
<1>1. ASSUME IInv, NEW p \in Pps, OAM(p), activeChannel' = TapeChannel, ppu'[p] = Idle,
             channel[TapeChannel].active, channel[TapeChannel].ioDevice = "tape",
             tape.fcode = "write", tape.recordLength < MaxPpBuf
      PROVE  ~channel'[TapeChannel].full
  <2> PICK i \in Executes(p, "OAM") : OAM(p)!(i)
    BY <1>1 DEF OAM
  <2> DEFINE c == i.opD
             s == BlockSlot(p, c)
             u == WordPut(s, i)
  <2>1. i \in Instruction /\ i.opF = "OAM" /\ c = TapeChannel /\ TapeChannel \in Channels
    <3>1. i.opF = "OAM"
      BY DEF Executes, Program, BlockOps
    <3> QED BY <1>1, <3>1, TurnType, Constants DEF BlockOps, WordOps
  <2>2. /\ s \in Slot /\ s.active /\ s.ioDevice = "tape"
    BY <1>1, <2>1, StartType DEF Fits, BlockSlot, IInv, ChannelsInv, Slot
  <2>3. ~Busy(p, i) /\ ~Busy(p, [i EXCEPT !.regA = @ - 1])
    BY <1>1, <2>1 DEF Busy, Idle, Instruction, IInv
  <2>4. /\ ~s.full /\ Set(channel, c, ChannelIo(u)) /\ i.regA = 1
    BY <2>2, <2>3
  <2>5. /\ u.active /\ u.full /\ u.ioDevice = "tape" /\ u.delayStatus = 0 /\ u \in Slot
    BY <2>2, <2>4 DEF WordPut, Fill, Slot
  <2> HIDE DEF u
  <2>6. ChannelIo(u).slot = Empty([u EXCEPT !.delayStatus = StatusDelay])
    BY <1>1, <2>5 DEF ChannelIo, TapeIo, Write, Result, Slot
  <2> QED BY <1>1, <2>1, <2>4, <2>5, <2>6 DEF Set, Empty, Slot, IInv, ChannelsInv
<1>2. IInv /\ [Next]_vars =>
        [\A p \in Pps :
          (/\ OAM(p) /\ activeChannel' = TapeChannel /\ ppu'[p] = Idle
           /\ channel[TapeChannel].active /\ channel[TapeChannel].ioDevice = "tape"
           /\ tape.fcode = "write" /\ tape.recordLength < MaxPpBuf)
          => ~channel'[TapeChannel].full]_vars
  BY <1>1
<1> QED BY <1>2, Invariance, PTL DEF Spec, LastWordReachesTape

-----------------------------------------------------------------------------
(* The delayed disconnect.                                                 *)

\* A disconnect is pending only when the record is exhausted.
Exhausted(s, t) == s.delayDisconnect > 0 => t.recordLength = 0

HoldsInput(s) == s.full /\ s.data = "tape"
WaitsForTape(p) == ppu[p].opF = "IAM" /\ ppu[p].opD = TapeChannel

\* A word beside a pending disconnect that a PP still waits for after its turn has come
\* since, in this round, so that the whole delay is yet to run.
LastWordInv ==
    TapeChannel \notin leftover =>
        LET s == channel[TapeChannel]
        IN  /\ Exhausted(s, tape)
            /\ \A p \in Pps : /\ p < turn /\ WaitsForTape(p)
                              /\ HoldsInput(s) /\ s.delayDisconnect > 0
                              => s.delayDisconnect = DisconnectDelay

WInv == IInv /\ LastWordInv

\* A word that comes with a pending disconnect is the one that asked for it.
Moved(s, u, t) ==
    /\ Exhausted(u, t)
    /\ HoldsInput(u) /\ u.delayDisconnect > 0 =>
          \/ u.delayDisconnect = DisconnectDelay
          \/ HoldsInput(s) /\ s.delayDisconnect = u.delayDisconnect

LEMMA MovedAgain ==
    ASSUME NEW s, NEW u, NEW v, NEW t1, NEW t2, Moved(s, u, t1), Moved(u, v, t2)
    PROVE  Moved(s, v, t2)
  BY DEF Moved

\* The tape's part.
LEMMA TapeIoMoved ==
    ASSUME NEW s \in Slot, tape \in TapeState, Exhausted(s, tape), Safe(s, tape)
    PROVE  Moved(s, TapeIo(s).slot, TapeIo(s).tape)
<1>0. tape.recordLength \in Nat /\ s.delayDisconnect \in Nat
  BY Constants DEF TapeState, Slot
<1>1. ASSUME NEW u \in Slot, u.full = s.full, u.data = s.data,
             u.delayDisconnect = s.delayDisconnect
      PROVE  Moved(s, Only(u).slot, Only(u).tape)
  BY <1>1 DEF Moved, Only, Result, HoldsInput, Exhausted
<1> DEFINE t == [s EXCEPT !.delayStatus = StatusDelay]
<1>2. /\ t \in Slot /\ t.full = s.full /\ t.data = s.data
      /\ t.delayDisconnect = s.delayDisconnect /\ t.discAfterInput = s.discAfterInput
  BY Constants DEF Slot
<1> HIDE DEF t
<1>3. CASE TapeIo(s) = Only(s) \/ TapeIo(s) = Only(t)
  BY <1>1, <1>2, <1>3
<1>4. CASE tape.fcode = "read" /\ TapeIo(s) = ReadFwd(t)
  <2>1. CASE t.full
    BY <1>3, <1>4, <2>1 DEF ReadFwd
  <2>2. CASE ~t.full /\ tape.recordLength = 0
    <3> DEFINE u == [t EXCEPT !.active = FALSE, !.delayDisconnect = 0]
    <3>1. u.delayDisconnect = 0 /\ TapeIo(s) = Only(u)
      BY <1>2, <1>4, <2>2 DEF ReadFwd, Slot
    <3> HIDE DEF u
    <3> QED BY <3>1 DEF Only, Result, Moved, Exhausted
  <2>3. CASE ~t.full /\ tape.recordLength > 0
    <3> DEFINE u == [Fill(t, "tape") EXCEPT !.delayDisconnect =
                         IF Last THEN DisconnectDelay ELSE @]
    <3>1. TapeIo(s) = Result(u, Shorter)
      BY <1>2, <1>4, <2>3 DEF ReadFwd
    <3>2. u.delayDisconnect = IF Last THEN DisconnectDelay ELSE s.delayDisconnect
      BY <1>2 DEF Fill, Slot
    <3>3. s.delayDisconnect = 0
      BY <1>0, <2>3 DEF Exhausted
    <3>4. Last => Shorter.recordLength = 0
      BY DEF Last, Shorter, TapeState
    <3> HIDE DEF u
    <3> QED BY <3>1, <3>2, <3>3, <3>4 DEF Result, Moved, Exhausted
  <2> QED BY <1>0, <2>1, <2>2, <2>3
<1>5. CASE tape.fcode = "readBkw" /\ TapeIo(s) = ReadBkw(t)
  <2>1. CASE t.full
    BY <1>3, <1>5, <2>1 DEF ReadBkw
  <2>2. CASE ~t.full /\ tape.recordLength = 0
    <3> DEFINE u == [t EXCEPT !.active = FALSE]
    <3>1. /\ u \in Slot /\ u.full = s.full /\ u.data = s.data
          /\ u.delayDisconnect = s.delayDisconnect
      BY <1>2 DEF Slot
    <3>2. TapeIo(s) = Only(u)
      BY <1>5, <2>2 DEF ReadBkw
    <3> HIDE DEF u
    <3> QED BY <1>1, <3>1, <3>2
  <2>3. CASE ~t.full /\ tape.recordLength > 0
    <3> DEFINE u == [Fill(t, "tape") EXCEPT !.discAfterInput = @ \/ Last]
    <3>1. TapeIo(s) = Result(u, Shorter)
      BY <1>2, <1>5, <2>3 DEF ReadBkw
    <3>2. u.delayDisconnect = s.delayDisconnect
      BY <1>2 DEF Fill, Slot
    <3>3. s.delayDisconnect = 0
      BY <1>0, <2>3 DEF Exhausted
    <3> HIDE DEF u
    <3> QED BY <3>1, <3>2, <3>3 DEF Result, Moved, Exhausted
  <2> QED BY <1>0, <2>1, <2>2, <2>3
<1>6. CASE tape.fcode = "status" /\ TapeIo(s) = GeneralStatus(t)
  <2>1. CASE t.full \/ tape.recordLength = 0
    BY <1>3, <1>6, <2>1 DEF GeneralStatus
  <2>2. CASE ~t.full /\ tape.recordLength > 0
    <3> DEFINE u == [Fill(t, "tape") EXCEPT !.discAfterInput = @ \/ Last]
    <3>1. TapeIo(s).slot = u
      BY <1>2, <1>6, <2>2 DEF GeneralStatus, Result
    <3>2. u.delayDisconnect = s.delayDisconnect
      BY <1>2 DEF Fill, Slot
    <3>3. s.delayDisconnect = 0
      BY <1>0, <2>2 DEF Exhausted
    <3> HIDE DEF u
    <3> QED BY <3>1, <3>2, <3>3 DEF Moved, Exhausted
  <2> QED BY <1>0, <2>1, <2>2
<1>7. CASE tape.fcode = "write" /\ TapeIo(s) = Write(t)
  <2>1. CASE ~(t.full /\ tape.recordLength < MaxPpBuf)
    <3>1. TapeIo(s) = Only(t)
      BY <1>7, <2>1, Zenon DEF Write
    <3> QED BY <1>3, <3>1
  <2>2. CASE t.full /\ tape.recordLength < MaxPpBuf
    <3>1. TapeIo(s).slot = Empty(t) /\ TapeIo(s).tape = [tape EXCEPT !.recordLength = @ + 1]
      BY <1>7, <2>2 DEF Write, Result
    <3>2. t.delayDisconnect = 0 /\ TapeIo(s).slot.delayDisconnect = 0
      BY <1>0, <1>2, <1>7, <3>1 DEF Safe, Empty, Slot
    <3> QED BY <3>2 DEF Moved, Exhausted
  <2> QED BY <2>1, <2>2
<1> QED BY <1>3, <1>4, <1>5, <1>6, <1>7 DEF TapeIo, t, TapeState, InputFunctions

\* An input or output with any device, on the slot of any channel.
LEMMA IoMoved ==
    ASSUME NEW c \in Channels, NEW s, Fits(c, s), tape \in TapeState,
           dsSequence \in 0 .. PanelWords, Exhausted(s, tape), Safe(s, tape)
    PROVE  /\ Moved(s, ChannelIo(s).slot, ChannelIo(s).tape)
           /\ Moved(s, Polled(s).slot, Polled(s).tape)
<1>0. s \in Slot
  BY DEF Fits
<1>1. Only(s).slot = s /\ Only(s).tape = tape /\ Moved(s, s, tape)
  BY DEF Only, Result, Moved
<1>2. CASE ~s.active \/ s.ioDevice = "none"
  <2>1. ChannelIo(s) = Only(s)
    BY <1>2 DEF ChannelIo
  <2> QED BY <1>1, <2>1 DEF Polled
<1>3. CASE s.active /\ s.ioDevice = "panel"
  <2>1. ChannelIo(s) = PanelIo(s) /\ ~(s.delayDisconnect > 0)
    BY <1>3 DEF ChannelIo, Safe
  <2>2. PanelIo(s).tape = tape /\ PanelIo(s).slot.delayDisconnect = s.delayDisconnect
    <3>1. CASE s.full
      BY <3>1 DEF PanelIo, Only, Result
    <3>2. CASE ~s.full /\ dsSequence >= PanelWords
      <4>1. PanelIo(s) = Only([s EXCEPT !.active = FALSE])
        BY <3>2, Constants DEF PanelIo
      <4> QED BY <1>0, <4>1 DEF Only, Result, Slot
    <3>3. CASE ~s.full /\ dsSequence < PanelWords
      <4>1. PanelIo(s).slot = Fill(s, "panel") /\ PanelIo(s).tape = tape
        BY <3>3, Constants DEF PanelIo
      <4> QED BY <1>0, <4>1 DEF Fill, Slot
    <3> QED BY <3>1, <3>2, <3>3, Constants
  <2> QED BY <1>1, <2>1, <2>2 DEF Polled, Moved, Exhausted
<1>4. CASE s.active /\ s.ioDevice = "tape"
  <2>1. ChannelIo(s) = TapeIo(s)
    BY <1>4 DEF ChannelIo
  <2> QED BY <1>0, <1>1, <2>1, TapeIoMoved DEF Polled
<1> QED BY <1>0, <1>2, <1>3, <1>4 DEF Slot

\* What the instructions do themselves.
LEMMA ChangesMoved ==
    ASSUME NEW c \in Channels, NEW s, Fits(c, s), NEW t, Exhausted(s, t), Safe(s, t),
           NEW n
    PROVE  /\ Moved(s, Taken(s), t) /\ ~Taken(s).full
           /\ Moved(s, Dropped(s), t) /\ ~Dropped(s).full
           /\ Moved(s, Fill(s, "pp"), t)
           /\ Moved(s, Disconnect(s), t)
           /\ Moved(s, [s EXCEPT !.delayStatus = n], t)
<1>0. s \in Slot
  BY DEF Fits
<1>1. /\ Moved(s, Taken(s), t) /\ ~Taken(s).full
      /\ Moved(s, Dropped(s), t) /\ ~Dropped(s).full
      /\ Moved(s, Fill(s, "pp"), t)
      /\ Moved(s, [s EXCEPT !.delayStatus = n], t)
  BY <1>0 DEF Taken, Dropped, Fill, Empty, Slot, Moved, Exhausted, HoldsInput
<1>2. Moved(s, Disconnect(s), t)
  BY <1>0 DEF Disconnect, Empty, Slot, Moved, Exhausted, HoldsInput, Safe
<1> QED BY <1>1, <1>2

\* The slots as an instruction finds them.
LEMMA StartMoved ==
    ASSUME WInv, TapeChannel \notin leftover, NEW p \in Pps
    PROVE  /\ LET s == channel[TapeChannel]
              IN  /\ Fits(TapeChannel, s) /\ Exhausted(s, tape) /\ Safe(s, tape)
                  /\ Moved(s, s, tape)
           /\ LET s == WordSlots(p)[TapeChannel]
              IN  /\ Fits(TapeChannel, s) /\ Exhausted(s, tape) /\ Safe(s, tape)
                  /\ Moved(channel[TapeChannel], s, tape)
           /\ LET s == BlockSlot(p, TapeChannel)
              IN  /\ Fits(TapeChannel, s) /\ Exhausted(s, tape) /\ Safe(s, tape)
                  /\ Moved(channel[TapeChannel], s, tape)
<1> DEFINE s == channel[TapeChannel]
           u == [s EXCEPT !.delayStatus = 0]
<1>1. Fits(TapeChannel, s) /\ Exhausted(s, tape) /\ Safe(s, tape) /\ Moved(s, s, tape)
  BY Constants DEF WInv, LastWordInv, IInv, ChannelsInv, SlotsInv, SafeInv, Moved
<1>2. Fits(TapeChannel, u) /\ Safe(u, tape) /\ Moved(s, u, tape)
  BY <1>1, Constants, 0 \in Nat, SlotChanges, ChangesMoved
<1>3. WordSlots(p)[TapeChannel] \in {s, u} /\ BlockSlot(p, TapeChannel) \in {s, u}
  BY Constants DEF WordSlots, BlockSlot, WInv, IInv, ChannelsInv
<1> HIDE DEF u
<1> QED BY <1>1, <1>2, <1>3 DEF Moved

\* A step that changes one slot, and the tape only from the tape's channel.
LEMMA OneMoved ==
    ASSUME NEW c \in Channels, NEW slots \in [Channels -> Slot],
           Moved(channel[TapeChannel], slots[TapeChannel], tape), NEW x,
           channel' = [slots EXCEPT ![c] = x], c # TapeChannel => tape' = tape,
           c = TapeChannel => Moved(channel[TapeChannel], x, tape')
    PROVE  Moved(channel[TapeChannel], channel'[TapeChannel], tape')
  BY Constants

\* A PP's turn: what has come before it stays what it was, and the PP itself does not
\* go on waiting beside a word.
LEMMA TurnKeepsWord ==
    ASSUME WInv, NEW q \in Pps, Turn(q), leftover' = leftover,
           \A p \in Pps \ {q} : ppu'[p] = ppu[p],
           TapeChannel \notin leftover =>
               /\ Moved(channel[TapeChannel], channel'[TapeChannel], tape')
               /\ WaitsForTape(q)' => ~channel'[TapeChannel].full
    PROVE  LastWordInv'
<1> SUFFICES ASSUME TapeChannel \notin leftover
             PROVE  LET s == channel'[TapeChannel]
                    IN  /\ Exhausted(s, tape')
                        /\ \A p \in Pps :
                              p < turn' /\ WaitsForTape(p)' /\ HoldsInput(s)
                                /\ s.delayDisconnect > 0
                              => s.delayDisconnect = DisconnectDelay
  BY DEF LastWordInv
<1> DEFINE s == channel'[TapeChannel]
<1>1. Exhausted(s, tape')
  BY DEF Moved
<1>2. ASSUME NEW p \in Pps, p < turn', WaitsForTape(p)', HoldsInput(s), s.delayDisconnect > 0
      PROVE  s.delayDisconnect = DisconnectDelay
  <2>1. p # q
    BY <1>2 DEF HoldsInput
  <2>2. p < turn /\ WaitsForTape(p)
    BY <1>2, <2>1, Constants DEF Turn, WaitsForTape, Pps
  <2> QED BY <1>2, <2>2 DEF Moved, WInv, LastWordInv
<1> QED BY <1>1, <1>2

LEMMA InputKeepsWord ==
    ASSUME WInv, IInv', NEW p \in Pps, IAN(p) \/ IAM(p) PROVE LastWordInv'
<1>0. /\ IInv /\ tape \in TapeState /\ dsSequence \in 0 .. PanelWords
      /\ channel \in [Channels -> Slot] /\ WordSlots(p) \in [Channels -> Slot]
  BY StartType DEF WInv, IInv, ChannelsInv
<1>1. CASE IAN(p)
  <2> PICK i \in Executes(p, "IAN") : IAN(p)!(i)
    BY <1>1 DEF IAN
  <2> DEFINE slots == WordSlots(p)
             c == i.opD
             r == Polled(slots[c])
  <2>1. c \in Channels /\ i.opF = "IAN"
    BY <1>0, TurnType DEF BlockOps, WordOps, DoneOrBusy, Executes, Program, Idle
  <2>2. /\ Turn(p) /\ leftover' = leftover /\ \A q \in Pps \ {p} : ppu'[q] = ppu[q]
        /\ ~WaitsForTape(p)'
    BY <1>0, <2>1 DEF restarts, DoneOrBusy, Done, Busy, IInv, WaitsForTape, Idle
  <2>3. ASSUME TapeChannel \notin leftover
        PROVE  Moved(channel[TapeChannel], channel'[TapeChannel], tape')
    <3>1. c = TapeChannel => /\ Moved(channel[TapeChannel], r.slot, r.tape)
                             /\ Moved(channel[TapeChannel], Took(r).slot, r.tape)
      <4> SUFFICES ASSUME c = TapeChannel
                   PROVE  /\ Moved(channel[TapeChannel], r.slot, r.tape)
                          /\ Moved(channel[TapeChannel], Took(r).slot, r.tape)
        OBVIOUS
      <4>1. /\ Fits(c, slots[c]) /\ Exhausted(slots[c], tape) /\ Safe(slots[c], tape)
            /\ Moved(channel[TapeChannel], slots[c], tape)
        BY <2>3, StartMoved
      <4>2. Moved(slots[c], r.slot, r.tape) /\ Kept(c, slots[c], r)
        BY <1>0, <2>1, <4>1, IoMoved, PolledKeeps
      <4>3. Moved(r.slot, Taken(r.slot), r.tape)
        BY <2>1, <4>1, <4>2, ChangesMoved DEF Kept, World, Moved
      <4> QED BY <4>1, <4>2, <4>3, MovedAgain DEF Took
    <3>2. c # TapeChannel => r.tape = tape
      BY <1>0, <2>1, StartType, PolledKeeps DEF Kept
    <3>3. Moved(channel[TapeChannel], slots[TapeChannel], tape)
      BY <2>3, StartMoved
    <3>4. CASE channel' = slots /\ UNCHANGED devices
      BY <3>3, <3>4 DEF devices
    <3>5. CASE Set(slots, c, r)
      BY <1>0, <2>1, <3>1, <3>2, <3>3, <3>5, OneMoved DEF Set
    <3>6. CASE Set(slots, c, Took(r))
      BY <1>0, <2>1, <3>1, <3>2, <3>3, <3>6, OneMoved DEF Set, Took
    <3> QED BY <3>4, <3>5, <3>6
  <2> QED BY <2>2, <2>3, TurnKeepsWord
<1>2. CASE IAM(p)
  <2> PICK i \in Executes(p, "IAM") : IAM(p)!(i)
    BY <1>2 DEF IAM
  <2> DEFINE c == i.opD
             s == BlockSlot(p, c)
             r == Polled(s)
  <2>1. c \in Channels /\ i \in Instruction /\ i.opF = "IAM"
    BY <1>0, TurnType DEF BlockOps, WordOps, Executes, Program
  <2>2. /\ Turn(p) /\ leftover' = leftover /\ \A q \in Pps \ {p} : ppu'[q] = ppu[q]
        /\ ppu'[p] = Idle \/ ppu'[p].opD = c
    <3>1. [i EXCEPT !.regA = @ - 1].opD = c
      BY <2>1 DEF Instruction
    <3> QED BY <1>0, <3>1 DEF restarts, Done, Busy, IInv
  <2>3. ASSUME TapeChannel \notin leftover
        PROVE  /\ Moved(channel[TapeChannel], channel'[TapeChannel], tape')
               /\ c = TapeChannel => ~channel'[TapeChannel].full
    <3>1. c = TapeChannel =>
            /\ Moved(channel[TapeChannel], r.slot, r.tape)
            /\ Moved(channel[TapeChannel], Took(r).slot, r.tape) /\ ~Took(r).slot.full
            /\ Moved(channel[TapeChannel], Dropped(s), tape) /\ ~Dropped(s).full
      <4> SUFFICES ASSUME c = TapeChannel
                   PROVE  /\ Moved(channel[TapeChannel], r.slot, r.tape)
                          /\ Moved(channel[TapeChannel], Took(r).slot, r.tape)
                          /\ ~Took(r).slot.full
                          /\ Moved(channel[TapeChannel], Dropped(s), tape)
                          /\ ~Dropped(s).full
        OBVIOUS
      <4>1. /\ Fits(c, s) /\ Exhausted(s, tape) /\ Safe(s, tape)
            /\ Moved(channel[TapeChannel], s, tape)
        BY <2>3, StartMoved
      <4>2. Moved(s, r.slot, r.tape) /\ Kept(c, s, r)
        BY <1>0, <2>1, <4>1, IoMoved, PolledKeeps
      <4>3. Moved(r.slot, Taken(r.slot), r.tape) /\ ~Taken(r.slot).full
        BY <2>1, <4>1, <4>2, ChangesMoved DEF Kept, World, Moved
      <4>4. Moved(s, Dropped(s), tape) /\ ~Dropped(s).full
        BY <2>1, <4>1, ChangesMoved
      <4> QED BY <4>1, <4>2, <4>3, <4>4, MovedAgain DEF Took
    <3>2. c # TapeChannel => r.tape = tape
      BY <1>0, <2>1, StartType, PolledKeeps DEF Kept
    <3>3. Moved(channel[TapeChannel], channel[TapeChannel], tape)
      BY <2>3, StartMoved
    <3>4. CASE Set(channel, c, Only(Dropped(s)))
      BY <1>0, <2>1, <3>1, <3>3, <3>4, OneMoved DEF Set, Only, Result
    <3>5. CASE ~r.slot.full /\ Set(channel, c, r)
      BY <1>0, <2>1, <3>1, <3>2, <3>3, <3>5, OneMoved DEF Set
    <3>6. CASE Set(channel, c, Took(r))
      BY <1>0, <2>1, <3>1, <3>2, <3>3, <3>6, OneMoved DEF Set, Took
    <3> QED BY <3>4, <3>5, <3>6
  <2>4. WaitsForTape(p)' => c = TapeChannel
    BY <2>2 DEF WaitsForTape, Idle
  <2> QED BY <2>2, <2>3, <2>4, TurnKeepsWord
<1> QED BY <1>1, <1>2

LEMMA OutputKeepsWord ==
    ASSUME WInv, IInv', NEW p \in Pps, OAN(p) \/ OAM(p) PROVE LastWordInv'
<1>0. /\ IInv /\ tape \in TapeState /\ dsSequence \in 0 .. PanelWords
      /\ channel \in [Channels -> Slot] /\ WordSlots(p) \in [Channels -> Slot]
  BY StartType DEF WInv, IInv, ChannelsInv
<1>1. ASSUME NEW c \in Channels, NEW s, Fits(c, s), Exhausted(s, tape), Safe(s, tape),
             Moved(channel[TapeChannel], s, tape), NEW n \in Nat
      PROVE  LET f == Fill(s, "pp")
                 u == [f EXCEPT !.delayStatus = n]
             IN  /\ Moved(channel[TapeChannel], ChannelIo(s).slot, ChannelIo(s).tape)
                 /\ Moved(channel[TapeChannel], ChannelIo(f).slot, ChannelIo(f).tape)
                 /\ Moved(channel[TapeChannel], ChannelIo(u).slot, ChannelIo(u).tape)
  <2> DEFINE f == Fill(s, "pp")
             u == [f EXCEPT !.delayStatus = n]
  <2>1. Fits(c, f) /\ Safe(f, tape) /\ Moved(s, f, tape)
    BY <1>1, SlotChanges, ChangesMoved
  <2> HIDE DEF f
  <2>2. Fits(c, u) /\ Safe(u, tape) /\ Moved(f, u, tape)
    BY <2>1, SlotChanges, ChangesMoved DEF Moved
  <2> HIDE DEF u
  <2>3. /\ Moved(s, ChannelIo(s).slot, ChannelIo(s).tape)
        /\ Moved(f, ChannelIo(f).slot, ChannelIo(f).tape)
        /\ Moved(u, ChannelIo(u).slot, ChannelIo(u).tape)
    BY <1>0, <1>1, <2>1, <2>2, IoMoved DEF Moved
  <2> QED BY <1>1, <2>1, <2>2, <2>3, MovedAgain DEF f, u
<1>2. ASSUME NEW c \in Channels \ {TapeChannel}, NEW s, Fits(c, s)
      PROVE  ChannelIo(s).tape = tape
  BY <1>0, <1>2, IoKeeps DEF Kept
<1>3. CASE OAN(p)
  <2> PICK i \in Executes(p, "OAN") : OAN(p)!(i)
    BY <1>3 DEF OAN
  <2> DEFINE slots == WordSlots(p)
             c == i.opD
             s == slots[c]
  <2>1. c \in Channels /\ i.opF = "OAN"
    BY <1>0, TurnType DEF BlockOps, WordOps, DoneOrBusy, Executes, Program, Idle
  <2>2. /\ Turn(p) /\ leftover' = leftover /\ \A q \in Pps \ {p} : ppu'[q] = ppu[q]
        /\ ~WaitsForTape(p)'
    BY <1>0, <2>1 DEF restarts, DoneOrBusy, Done, Busy, IInv, WaitsForTape, Idle
  <2>3. ASSUME TapeChannel \notin leftover
        PROVE  Moved(channel[TapeChannel], channel'[TapeChannel], tape')
    <3>1. /\ Moved(channel[TapeChannel], slots[TapeChannel], tape)
          /\ c = TapeChannel => Exhausted(s, tape) /\ Safe(s, tape)
          /\ Fits(c, s) /\ Fits(c, Fill(s, "pp"))
      <4>1. /\ Moved(channel[TapeChannel], slots[TapeChannel], tape)
            /\ Exhausted(slots[TapeChannel], tape) /\ Safe(slots[TapeChannel], tape)
        BY <2>3, StartMoved
      <4>2. Fits(c, s)
        BY <1>0, <2>1, StartType
      <4>3. ASSUME NEW v, Fits(c, v) PROVE Fits(c, Fill(v, "pp"))
        BY <2>1, <4>3, SlotChanges, 0 \in Nat
      <4>4. c = TapeChannel => Exhausted(s, tape) /\ Safe(s, tape)
        BY <4>1
      <4> QED BY <4>1, <4>2, <4>3, <4>4
    <3>2. CASE channel' = slots /\ UNCHANGED devices
      BY <3>1, <3>2 DEF devices
    <3>3. CASE Set(slots, c, ChannelIo(s))
      BY <1>0, <1>1, <1>2, <2>1, <3>1, <3>3, OneMoved, 0 \in Nat DEF Set
    <3>4. CASE Set(slots, c, ChannelIo(Fill(s, "pp")))
      BY <1>0, <1>1, <1>2, <2>1, <3>1, <3>4, OneMoved, 0 \in Nat DEF Set
    <3> QED BY <3>2, <3>3, <3>4
  <2> QED BY <2>2, <2>3, TurnKeepsWord
<1>4. CASE OAM(p)
  <2> PICK i \in Executes(p, "OAM") : OAM(p)!(i)
    BY <1>4 DEF OAM
  <2> DEFINE c == i.opD
             s == BlockSlot(p, c)
             f == Fill(s, "pp")
             n == IF i.regA = 1 THEN 0 ELSE f.delayStatus
  <2>1. c \in Channels /\ i \in Instruction /\ i.opF = "OAM"
    BY <1>0, TurnType DEF BlockOps, WordOps, Executes, Program
  <2>2. /\ Turn(p) /\ leftover' = leftover /\ \A q \in Pps \ {p} : ppu'[q] = ppu[q]
        /\ ~WaitsForTape(p)'
    <3>1. i.opF = "OAM" /\ [i EXCEPT !.regA = @ - 1].opF = "OAM"
      BY <2>1 DEF Instruction
    <3>2. Idle.opF = "idle"
      BY DEF Idle
    <3> QED BY <1>0, <3>1, <3>2 DEF restarts, Done, Busy, IInv, WaitsForTape
  <2>3. ASSUME TapeChannel \notin leftover
        PROVE  Moved(channel[TapeChannel], channel'[TapeChannel], tape')
    <3>1. /\ Moved(channel[TapeChannel], channel[TapeChannel], tape)
          /\ c = TapeChannel => /\ Exhausted(s, tape) /\ Safe(s, tape)
                                /\ Moved(channel[TapeChannel], s, tape)
          /\ Fits(c, s) /\ Fits(c, f)
      BY <1>0, <2>1, <2>3, StartMoved, StartType, SlotChanges, 0 \in Nat
    <3>2. n \in Nat /\ WordPut(s, i) = [f EXCEPT !.delayStatus = n]
      BY <3>1 DEF Fits, Slot, WordPut
    <3> HIDE DEF n
    <3>3. Fits(c, WordPut(s, i))
      BY <2>1, <3>1, <3>2, SlotChanges
    <3>4. CASE Set(channel, c, Only(Dropped(s)))
      <4>1. ASSUME c = TapeChannel PROVE Moved(channel[TapeChannel], Dropped(s), tape)
        <5>1. Moved(s, Dropped(s), tape)
          BY <2>1, <3>1, <4>1, ChangesMoved
        <5> QED BY <3>1, <4>1, <5>1, MovedAgain
      <4> QED BY <1>0, <2>1, <3>1, <3>4, <4>1, OneMoved DEF Set, Only, Result
    <3>5. CASE Set(channel, c, ChannelIo(s))
      BY <1>0, <1>1, <1>2, <2>1, <3>1, <3>5, OneMoved, 0 \in Nat DEF Set
    <3>6. CASE Set(channel, c, ChannelIo(WordPut(s, i)))
      BY <1>0, <1>1, <1>2, <2>1, <3>1, <3>2, <3>3, <3>6, OneMoved DEF Set
    <3> QED BY <3>4, <3>5, <3>6
  <2> QED BY <2>2, <2>3, TurnKeepsWord
<1> QED BY <1>3, <1>4


LEMMA OthersKeepWord ==
    ASSUME WInv, NEW p \in Pps, ACN(p) \/ DCN(p) \/ FNC(p) PROVE LastWordInv'
<1> DEFINE t == channel[TapeChannel]
<1>0. IInv /\ channel \in [Channels -> Slot] /\ t \in Slot
  BY Constants DEF WInv, IInv, ChannelsInv
<1>1. ASSUME NEW op \in {"ACN", "DCN", "FNC"}, NEW i \in Executes(p, op),
             \/ op = "ACN" /\ ACN(p)!(i)
             \/ op = "DCN" /\ DCN(p)!(i)
             \/ op = "FNC" /\ FNC(p)!(i)
      PROVE  LastWordInv'
  <2> DEFINE c == i.opD
             s == channel[c]
  <2>2. c \in Channels /\ i.opF = op
    BY <1>0, <1>1, TurnType DEF BlockOps, WordOps, DoneOrBusy, Executes, Program, Idle
  <2>3. /\ Turn(p) /\ leftover' = leftover /\ \A q \in Pps \ {p} : ppu'[q] = ppu[q]
        /\ ~WaitsForTape(p)'
    BY <1>0, <1>1, <2>2 DEF restarts, DoneOrBusy, Done, Busy, IInv, WaitsForTape, Idle
  <2>4. ASSUME TapeChannel \notin leftover
        PROVE  Moved(t, channel'[TapeChannel], tape')
    <3>1. Fits(TapeChannel, t) /\ Exhausted(t, tape) /\ Safe(t, tape) /\ Moved(t, t, tape)
      BY <2>4, StartMoved
    <3>2. CASE channel' = channel /\ tape' = tape
      BY <3>1, <3>2
    \* A slot whose word and delay are what they were.
    <3>3. ASSUME tape' = tape, channel' = [channel EXCEPT ![c] = channel'[c]],
                 c = TapeChannel => Moved(t, channel'[c], tape)
          PROVE  Moved(t, channel'[TapeChannel], tape')
      BY <1>0, <2>2, <3>1, <3>3, Constants
    <3>4. CASE op = "ACN"
      <4>1. ASSUME ~UNCHANGED channel
            PROVE  /\ tape' = tape /\ channel' = [channel EXCEPT ![c] = channel'[c]]
                   /\ channel'[c].full = s.full /\ channel'[c].data = s.data
                   /\ channel'[c].delayDisconnect = s.delayDisconnect
        BY <1>0, <1>1, <2>2, <3>4, <4>1 DEF devices, Slot
      <4>2. ASSUME ~UNCHANGED channel, c = TapeChannel PROVE Moved(t, channel'[c], tape)
        BY <3>1, <4>1, <4>2 DEF Moved, Exhausted, HoldsInput
      <4> QED BY <1>1, <3>2, <3>3, <3>4, <4>1, <4>2 DEF devices
    <3>5. CASE op = "DCN"
      <4>1. tape' = tape
        BY <1>1, <3>5 DEF devices
      <4>2. CASE channel' = [channel EXCEPT ![c] = Disconnect(s)]
        <5>1. channel'[c] = Disconnect(s) /\ (c = TapeChannel => Moved(t, Disconnect(s), tape))
          BY <1>0, <2>2, <3>1, <4>2, ChangesMoved
        <5> QED BY <3>3, <4>1, <4>2, <5>1
      <4> QED BY <1>1, <3>2, <3>5, <4>1, <4>2
    <3>6. CASE op = "FNC"
      <4>1. CASE c # TapeChannel
        BY <1>0, <1>1, <2>2, <3>1, <3>6, <4>1, Constants
      <4>2. CASE c = TapeChannel /\ ~s.active
        <5>1. ASSUME NEW x, channel' = [channel EXCEPT ![c] = x],
                     x.delayDisconnect = s.delayDisconnect
              PROVE  Moved(t, channel'[TapeChannel], tape')
          <6>1. x.delayDisconnect = 0
            BY <1>0, <3>1, <4>2, <5>1 DEF Safe, Slot
          <6> QED BY <1>0, <2>2, <4>2, <5>1, <6>1 DEF Moved, Exhausted
        <5>2. /\ [Empty(s) EXCEPT !.ioDevice = "tape"].delayDisconnect = s.delayDisconnect
              /\ [Empty(s) EXCEPT !.ioDevice = "none"].delayDisconnect = s.delayDisconnect
              /\ DeclinedSlot(Empty(s)).delayDisconnect = s.delayDisconnect
          BY <1>0, <2>2 DEF Empty, DeclinedSlot, Slot
        <5> QED BY <1>1, <3>6, <4>2, <5>1, <5>2
      <4> QED BY <1>1, <3>2, <3>6, <4>1, <4>2
    <3> QED BY <3>4, <3>5, <3>6
  <2> QED BY <2>3, <2>4, TurnKeepsWord
<1>2. CASE ACN(p)
  <2> PICK i \in Executes(p, "ACN") : ACN(p)!(i)
    BY <1>2 DEF ACN
  <2> QED BY <1>1
<1>3. CASE DCN(p)
  <2> PICK i \in Executes(p, "DCN") : DCN(p)!(i)
    BY <1>3 DEF DCN
  <2> QED BY <1>1
<1>4. CASE FNC(p)
  <2> PICK i \in Executes(p, "FNC") : FNC(p)!(i)
    BY <1>4 DEF FNC
  <2> QED BY <1>1
<1> QED BY <1>2, <1>3, <1>4

LEMMA LookingKeepsWord ==
    ASSUME WInv, NEW p \in Pps, Probe(p) \/ Test(p) \/ Compute(p) PROVE LastWordInv'
<1>0. /\ IInv /\ tape \in TapeState /\ dsSequence \in 0 .. PanelWords
      /\ channel \in [Channels -> Slot] /\ TapeChannel \in Channels
  BY Constants DEF WInv, IInv, ChannelsInv
<1>1. Turn(p) /\ leftover' = leftover /\ ppu' = ppu /\ ppu[p] = Idle
  BY DEF Probe, Test, Compute, restarts
<1>2. ~WaitsForTape(p)'
  BY <1>1 DEF WaitsForTape, Idle
<1>3. ASSUME TapeChannel \notin leftover
      PROVE  Moved(channel[TapeChannel], channel'[TapeChannel], tape')
  <2> DEFINE s == channel[TapeChannel]
  <2>1. Fits(TapeChannel, s) /\ Exhausted(s, tape) /\ Safe(s, tape) /\ Moved(s, s, tape)
    BY <1>3, StartMoved
  <2>2. CASE Probe(p)
    <3>1. PICK c \in Channels : Set(channel, c, ChannelIo(channel[c]))
      BY <2>2 DEF Probe
    <3>2. c # TapeChannel => ChannelIo(channel[c]).tape = tape
      BY <1>0, IoKeeps DEF Kept, IInv, ChannelsInv, SlotsInv
    <3>3. Moved(s, ChannelIo(s).slot, ChannelIo(s).tape)
      BY <1>0, <2>1, IoMoved
    <3> QED BY <1>0, <2>1, <3>1, <3>2, <3>3, OneMoved DEF Set
  <2>3. CASE Test(p) \/ Compute(p)
    BY <2>1, <2>3 DEF Test, Compute, devices
  <2> QED BY <2>2, <2>3
<1> QED BY <1>1, <1>2, <1>3, TurnKeepsWord

\* After the channels' step nobody has had a turn.
LEMMA ChannelStepKeepsWord == ASSUME WInv, ChannelStep PROVE LastWordInv'
<1>1. /\ leftover' = leftover /\ turn' = 0 /\ tape' = tape
      /\ channel'[TapeChannel] = Elapsed(channel[TapeChannel])
      /\ channel[TapeChannel] \in Slot
  BY Constants DEF ChannelStep, restarts, devices, WInv, IInv, ChannelsInv
<1>2. channel'[TapeChannel].delayDisconnect > 0 => channel[TapeChannel].delayDisconnect > 0
  BY <1>1, Constants DEF Elapsed, Slot
<1>3. \A p \in Pps : ~(p < turn')
  BY <1>1 DEF Pps
<1> QED BY <1>1, <1>2, <1>3 DEF WInv, LastWordInv, Exhausted

LEMMA DeadstartKeepsWord == ASSUME WInv, Deadstart PROVE LastWordInv'
<1>1. /\ leftover \subseteq leftover' /\ turn' = 0 /\ tape' = tape
      /\ channel'[TapeChannel] = DeadstartSlot(channel[TapeChannel], TapeChannel)
      /\ channel[TapeChannel] \in Slot
  BY Constants DEF Deadstart, WInv, IInv, ChannelsInv
<1>2. channel'[TapeChannel].delayDisconnect = channel[TapeChannel].delayDisconnect
  BY <1>1, Constants, DeadstartFits
<1>3. \A p \in Pps : ~(p < turn')
  BY <1>1 DEF Pps
<1> QED BY <1>1, <1>2, <1>3 DEF WInv, LastWordInv, Exhausted

LEMMA InitWInv == Init => WInv
<1> SUFFICES ASSUME Init PROVE LastWordInv
  BY InitIInv DEF WInv
<1>1. channel[TapeChannel] = DeadstartSlot(NewSlot, TapeChannel) /\ NewSlot \in Slot
  BY Constants DEF Init, NewSlot, Slot
<1>2. channel[TapeChannel].delayDisconnect = 0
  BY <1>1, Constants, DeadstartFits DEF NewSlot
<1> QED BY <1>2 DEF LastWordInv, Exhausted

LEMMA WInductive == WInv /\ [Next]_vars => WInv'
<1> SUFFICES ASSUME WInv, [Next]_vars, IInv' PROVE LastWordInv'
  BY Inductive DEF WInv
<1>1. CASE Deadstart
  BY <1>1, DeadstartKeepsWord
<1>2. CASE ChannelStep
  BY <1>2, ChannelStepKeepsWord
<1>3. ASSUME NEW p \in Pps, IAN(p) \/ IAM(p) \/ OAN(p) \/ OAM(p) PROVE LastWordInv'
  BY <1>3, InputKeepsWord, OutputKeepsWord
<1>4. ASSUME NEW p \in Pps, ACN(p) \/ DCN(p) \/ FNC(p) PROVE LastWordInv'
  BY <1>4, OthersKeepWord
<1>5. ASSUME NEW p \in Pps, Probe(p) \/ Test(p) \/ Compute(p) PROVE LastWordInv'
  BY <1>5, LookingKeepsWord
<1>6. CASE UNCHANGED vars
  BY <1>6
  DEF vars, devices, restarts, WInv, LastWordInv, Exhausted, HoldsInput, WaitsForTape
<1> QED BY <1>1, <1>2, <1>3, <1>4, <1>5, <1>6 DEF Next

\* A delayed disconnect leaves every PP that waits in a block input a turn in which to
\* take the last word, when another PP had the tape put it there too
\* (mt679.c:1717-1723): the word was there before the PP's turn of some round, or it
\* came in this one and the delay has just begun.
THEOREM NoWordLostByDisconnect == Spec => NoInputLostByDisconnect
<1>1. ASSUME WInv, [Next]_vars, NEW c \in Channels \ leftover, turn = PpuCount,
             channel[c].active, ~channel'[c].active, InChannel(c, "tape") = 1,
             NEW p \in Pps, ppu[p].opF = "IAM", ppu[p].opD = c
      PROVE  FALSE
  <2>1. turn # 0 /\ ~Turn(p) /\ \A q \in Pps : ~Turn(q)
    BY <1>1, Constants DEF Turn, Pps
  <2>2. ChannelStep
    BY <1>1, <2>1
    DEF Next, vars, Deadstart, IAN, IAM, OAN, OAM, ACN, DCN, FNC, Probe, Test, Compute
  <2>3. channel[c] \in Slot /\ channel'[c] = Elapsed(channel[c]) /\ Safe(channel[c], tape)
        /\ Fits(c, channel[c])
    BY <1>1, <2>2 DEF ChannelStep, WInv, IInv, ChannelsInv, SafeInv, SlotsInv
  <2>4. channel[c].delayDisconnect = 1
    BY <1>1, <2>3 DEF Elapsed, Slot
  <2>5. c = TapeChannel /\ HoldsInput(channel[c])
    BY <1>1, <2>3, <2>4 DEF Safe, Fits, InChannel, One, HoldsInput
  <2>6. p < turn
    BY <1>1, Constants DEF Pps
  <2>7. channel[c].delayDisconnect = DisconnectDelay
    BY <1>1, <2>4, <2>5, <2>6 DEF WInv, LastWordInv, WaitsForTape
  <2> QED BY <2>4, <2>7, DelayAssumption
<1>2. WInv /\ [Next]_vars =>
        [\A c \in Channels \ leftover :
          (turn = PpuCount /\ channel[c].active /\ ~channel'[c].active
             /\ InChannel(c, "tape") = 1)
          => \A p \in Pps : ~(ppu[p].opF = "IAM" /\ ppu[p].opD = c)]_vars
  BY <1>1
<1> QED BY <1>2, InitWInv, WInductive, PTL DEF Spec, NoInputLostByDisconnect

-----------------------------------------------------------------------------
(* The deadstart load.                                                     *)

\* While the panel is on channel 0 nothing but the loads goes on: PP 0 has as many
\* words to come as the panel and the channel owe it, and the others wait in vain.
PanelGoesOn == leftover = {} /\ channel[0].ioDevice = "panel"
Surplus == LoadWords - PanelWords - 1

InLoad(i, n) == i.opF = "IAM" /\ i.opD = 0 /\ i.regA = n + Surplus
WaitsForLoad(p) == /\ ppu[p] = Load(p)
                   /\ channel[p].active /\ ~channel[p].full
                   /\ channel[p].ioDevice = "none"

LoadInv == PanelGoesOn =>
    /\ \A p \in Pps \ {0} : WaitsForLoad(p)
    /\ InLoad(ppu[0], owed[0])
    /\ channel[0].active \/ owed[0] = 0
    /\ channel[0].full => channel[0].data = "panel"

PInv == LInv /\ LoadInv

LEMMA Owed ==
    ASSUME PInv, PanelGoesOn
    PROVE  /\ channel \in [Channels -> Slot] /\ dsSequence \in 0 .. PanelWords
           /\ owed \in [Channels -> Int]
           /\ ~channel[0].discAfterInput
           /\ owed[0] = PanelWords - dsSequence + One(channel[0].full)
           /\ \A p \in Pps \ {0} : WaitsForLoad(p)
           /\ InLoad(ppu[0], owed[0])
           /\ ppu[0].opF = "IAM" /\ ppu[0].opD = 0 /\ ppu[0].regA = owed[0] + Surplus
           /\ channel[0].active \/ owed[0] = 0
           /\ channel[0].full => channel[0].data = "panel"
           /\ \A p \in Pps : ppu[p].opF = "IAM" /\ ppu[p].opD = p /\ ppu[p] # Idle
<1>1. /\ channel \in [Channels -> Slot] /\ dsSequence \in 0 .. PanelWords
      /\ owed \in [Channels -> Int] /\ Safe(channel[0], tape)
      /\ InAccount(0, channel[0], tape, dsSequence, owed[0])
      /\ channel[0].ioDevice = "panel" /\ 0 \in Pps
  BY Constants
  DEF PInv, LInv, IInv, ChannelsInv, SafeInv, Accounts, Balanced, PanelGoesOn, Pps
<1>2. /\ \A p \in Pps \ {0} : WaitsForLoad(p)
      /\ InLoad(ppu[0], owed[0])
      /\ channel[0].active \/ owed[0] = 0
      /\ channel[0].full => channel[0].data = "panel"
  BY DEF PInv, LoadInv
<1>3. ~channel[0].discAfterInput
  BY <1>1 DEF Safe
<1>4. owed[0] = PanelWords - dsSequence + One(channel[0].full)
  BY <1>1, <1>2 DEF InAccount, One
<1>5. ppu[0].opF = "IAM" /\ ppu[0].opD = 0 /\ ppu[0].regA = owed[0] + Surplus
  BY <1>2 DEF InLoad
<1>6. ASSUME NEW p \in Pps PROVE ppu[p].opF = "IAM" /\ ppu[p].opD = p
  <2>1. CASE p = 0
    BY <1>5, <2>1
  <2>2. CASE p # 0
    <3>1. ppu[p] = Load(p)
      BY <1>2, <2>2 DEF WaitsForLoad
    <3> QED BY <3>1 DEF Load
  <2> QED BY <2>1, <2>2
<1>7. Idle.opF # "IAM"
  BY DEF Idle
<1> QED BY <1>1, <1>2, <1>3, <1>4, <1>5, <1>6, <1>7

\* No PP but one that goes on with its load can have a turn.
LEMMA OnlyLoads ==
    ASSUME PInv, PanelGoesOn, NEW p \in Pps
    PROVE  /\ ~OAN(p) /\ ~OAM(p) /\ ~IAN(p) /\ ~ACN(p) /\ ~DCN(p) /\ ~FNC(p)
           /\ ~Probe(p) /\ ~Test(p) /\ ~Compute(p)
           /\ Executes(p, "IAM") = {ppu[p]}
<1>1. ppu[p].opF = "IAM" /\ ppu[p] # Idle
  BY Owed
<1> QED BY <1>1 DEF OAN, OAM, IAN, ACN, DCN, FNC, Probe, Test, Compute, Executes

\* A PP other than PP 0 finds its channel empty.
LEMMA OtherLoads ==
    ASSUME PInv, PanelGoesOn, NEW p \in Pps \ {0}, IAM(p)
    PROVE  channel' = channel /\ ppu' = ppu /\ owed' = owed
<1>1. IAM(p)!(ppu[p])
  BY OnlyLoads DEF IAM
<1>2. /\ channel[p].active /\ ~channel[p].full /\ channel[p].ioDevice = "none"
      /\ ppu[p].opD = p /\ BlockSlot(p, p) = channel[p] /\ p \in Channels
      /\ channel \in [Channels -> Slot] /\ ppu[p] \in Instruction
  BY Owed, Constants DEF WaitsForLoad, BlockSlot, PInv, LInv, IInv
<1>3. Polled(channel[p]) = Only(channel[p])
  BY <1>2 DEF Polled, ChannelIo
<1>4. ~Polled(channel[p]).slot.full /\ Polled(channel[p]).slot = channel[p]
  BY <1>2, <1>3 DEF Only, Result
<1> QED BY <1>1, <1>2, <1>4 DEF Set, Busy, history, PInv, LInv, IInv

\* PP 0 takes a word of the panel, or finds the channel inactive after the last one.
LEMMA FirstLoads ==
    ASSUME PInv, PanelGoesOn, IAM(0)
    PROVE  /\ LoadInv'
           /\ ppu'[0] = Idle => owed[0] = 0
<1> DEFINE s == channel[0]
           i == ppu[0]
           r == Polled(s)
<1>0. 0 \in Pps /\ 0 \in Channels /\ s \in Slot /\ PanelWords \in Nat
      /\ Surplus \in Nat /\ Surplus > 0 /\ LoadWords \in Nat
  BY Owed, Constants, BoundAssumption DEF Pps, Surplus
<1>1. IAM(0)!(i) /\ i.opD = 0 /\ BlockSlot(0, 0) = s
  BY <1>0, OnlyLoads, Owed DEF IAM, BlockSlot
<1>2. /\ s.ioDevice = "panel" /\ ~s.discAfterInput /\ i.regA = owed[0] + Surplus
      /\ owed[0] = PanelWords - dsSequence + One(s.full) /\ dsSequence \in 0 .. PanelWords
      /\ s.full => s.data = "panel"
      /\ s.active \/ owed[0] = 0
      /\ InLoad(i, owed[0]) /\ i # Idle
      /\ ppu \in [Pps -> {Idle} \cup Instruction] /\ channel \in [Channels -> Slot]
      /\ owed \in [Channels -> Int]
  BY <1>0, Owed DEF PanelGoesOn, PInv, LInv, IInv
<1>3. \A p \in Pps \ {0} : WaitsForLoad(p)
  BY Owed
\* What is left of the load when PP 0 goes on with it.
<1>4. ASSUME NEW j, NEW x \in Slot, channel' = [channel EXCEPT ![0] = x],
             ppu' = [ppu EXCEPT ![0] = j],
             InLoad(j, owed'[0]),
             x.active \/ owed'[0] = 0, x.full => x.data = "panel"
      PROVE  LoadInv'
  <2>1. ppu'[0] = j /\ channel'[0] = x
    BY <1>0, <1>2, <1>4
  <2>2. ASSUME NEW p \in Pps \ {0} PROVE WaitsForLoad(p)'
    BY <1>2, <1>3, <1>4, <2>2, Constants DEF WaitsForLoad
  <2> QED BY <1>4, <2>1, <2>2 DEF LoadInv, PanelGoesOn, InLoad, Surplus
<1>5. CASE ~s.active /\ Set(channel, 0, Only(Dropped(s)))
  <2>1. channel'[0] = Dropped(s)
    BY <1>0, <1>2, <1>5 DEF Set, Only, Result
  <2>2. channel'[0].ioDevice = "none"
    BY <1>0, <2>1 DEF Dropped, Empty, Slot
  <2> QED BY <1>2, <1>5, <2>2 DEF LoadInv, PanelGoesOn
<1>6. CASE s.active /\ ~r.slot.full /\ Busy(0, i) /\ Set(channel, 0, r) /\ UNCHANGED history
  <2>1. ~s.full /\ r = PanelIo(s)
    <3>1. ~s.full
      BY <1>6 DEF Polled, Only, Result
    <3> QED BY <1>2, <1>6, <3>1 DEF Polled, ChannelIo
  <2>2. dsSequence >= PanelWords
    <3>1. Fill(s, "panel").full
      BY <1>0 DEF Fill, Slot
    <3> QED BY <1>0, <1>2, <1>6, <2>1, <3>1 DEF PanelIo
  <2>3. owed[0] = 0 /\ owed' = owed
    BY <1>0, <1>2, <1>6, <2>1, <2>2 DEF One, history
  <2> DEFINE x == [s EXCEPT !.active = FALSE]
  <2>4. r.slot = x /\ x \in Slot /\ ~x.full
    <3>1. r = Only(x)
      BY <1>0, <1>2, <2>1, <2>2 DEF PanelIo
    <3>2. x \in Slot /\ ~x.full
      BY <1>0, <2>1 DEF Slot
    <3> QED BY <3>1, <3>2 DEF Only, Result
  <2> HIDE DEF x
  <2>5. ppu' = [ppu EXCEPT ![0] = i] /\ channel' = [channel EXCEPT ![0] = x]
    BY <1>6, <2>4 DEF Busy, Set
  <2>6. ppu'[0] # Idle
    BY <1>0, <1>2, <2>5
  <2> QED BY <1>2, <1>4, <2>3, <2>4, <2>5, <2>6
<1>7. CASE /\ s.active /\ r.slot.full
           /\ Set(channel, 0, Took(r)) /\ TookFrom(0, r.slot)
           /\ IF i.regA = 1 \/ r.slot.discAfterInput
              THEN Done(0) ELSE Busy(0, [i EXCEPT !.regA = @ - 1])
  <2>1. /\ r.slot \in Slot /\ r.slot.data = "panel" /\ ~r.slot.discAfterInput
        /\ r.slot.active /\ owed[0] > 0
    <3>1. CASE s.full
      BY <1>0, <1>2, <1>7, <3>1 DEF Polled, Only, Result, One
    <3>2. CASE ~s.full
      <4>1. r = PanelIo(s)
        BY <1>2, <1>7, <3>2 DEF Polled, ChannelIo
      <4>2. dsSequence < PanelWords
        <5>1. ASSUME dsSequence >= PanelWords PROVE FALSE
          <6>1. r.slot = [s EXCEPT !.active = FALSE]
            BY <1>0, <1>2, <3>2, <4>1, <5>1 DEF PanelIo, Only, Result
          <6> QED BY <1>0, <1>7, <3>2, <6>1 DEF Slot
        <5> QED BY <1>0, <1>2, <5>1
      <4>3. r.slot = Fill(s, "panel")
        BY <1>0, <1>2, <3>2, <4>1, <4>2 DEF PanelIo
      <4>4. /\ r.slot \in Slot /\ r.slot.data = "panel" /\ r.slot.active = s.active
            /\ r.slot.discAfterInput = s.discAfterInput
        BY <1>0, <4>3 DEF Fill, Slot
      <4>5. owed[0] > 0
        BY <1>0, <1>2, <3>2, <4>2 DEF One
      <4> QED BY <1>2, <1>7, <4>4, <4>5
    <3> QED BY <3>1, <3>2
  <2> DEFINE x == Taken(r.slot)
             j == [i EXCEPT !.regA = @ - 1]
  <2>2. x \in Slot /\ x.active /\ ~x.full
    BY <2>1 DEF Taken, Empty, Slot
  <2>3. owed'[0] = owed[0] - 1
    BY <1>0, <1>2, <1>7, <2>1 DEF TookFrom, One
  <2>4. i.regA # 1
    BY <1>0, <1>2, <2>1
  <2>5. ppu' = [ppu EXCEPT ![0] = j]
    BY <1>7, <2>1, <2>4 DEF Busy
  <2>6. channel' = [channel EXCEPT ![0] = x]
    BY <1>7 DEF Set, Took
  <2>7. InLoad(j, owed'[0]) /\ j # Idle
    <3>1. i \in Instruction
      BY <1>0, <1>2
    <3>2. j.opF = i.opF /\ j.opD = i.opD /\ j.regA = i.regA - 1
      BY <3>1 DEF Instruction
    <3>3. Idle.opF # "IAM"
      BY DEF Idle
    <3> HIDE DEF j
    <3> QED BY <1>0, <1>2, <2>3, <3>2, <3>3 DEF InLoad
  <2> HIDE DEF x, j
  <2>8. ppu'[0] # Idle
    BY <1>0, <1>2, <2>5, <2>7
  <2> QED BY <1>4, <2>2, <2>5, <2>6, <2>7, <2>8
<1> QED BY <1>1, <1>5, <1>6, <1>7

\* Only a deadstart brings the panel.
LEMMA IoKeepsDevice ==
    ASSUME NEW s \in Slot, tape \in TapeState, dsSequence \in 0 .. PanelWords
    PROVE  ChannelIo(s).slot.ioDevice = s.ioDevice /\ Polled(s).slot.ioDevice = s.ioDevice
<1>1. Only(s).slot.ioDevice = s.ioDevice
  BY DEF Only, Result
<1>2. CASE ~s.active \/ s.ioDevice = "none"
  BY <1>1, <1>2 DEF ChannelIo, Polled
<1>3. CASE s.active /\ s.ioDevice = "panel"
  <2>1. PanelIo(s).slot.ioDevice = s.ioDevice
    <3>1. CASE s.full
      BY <1>1, <3>1 DEF PanelIo
    <3>2. CASE ~s.full /\ dsSequence >= PanelWords
      <4>1. PanelIo(s) = Only([s EXCEPT !.active = FALSE])
        BY <3>2, Constants DEF PanelIo
      <4> QED BY <4>1 DEF Only, Result, Slot
    <3>3. CASE ~s.full /\ dsSequence < PanelWords
      <4>1. PanelIo(s).slot = Fill(s, "panel")
        BY <3>3, Constants DEF PanelIo
      <4> QED BY <4>1 DEF Fill, Slot
    <3> QED BY <3>1, <3>2, <3>3, Constants
  <2>2. ChannelIo(s) = PanelIo(s)
    BY <1>3 DEF ChannelIo
  <2> QED BY <1>1, <2>1, <2>2 DEF Polled
<1>4. CASE s.active /\ s.ioDevice = "tape"
  <2>1. ChannelIo(s) = TapeIo(s)
    BY <1>4 DEF ChannelIo
  <2> QED BY <1>1, <2>1, TapeIoMoves DEF TapeMoves, Polled
<1> QED BY <1>2, <1>3, <1>4 DEF Slot

\* What the instructions do themselves.
LEMMA ChangesKeepDevice ==
    ASSUME NEW s \in Slot, NEW n
    PROVE  /\ Taken(s).ioDevice \in {s.ioDevice, "none"}
           /\ Dropped(s).ioDevice = "none"
           /\ Fill(s, "pp").ioDevice = s.ioDevice
           /\ Disconnect(s).ioDevice = s.ioDevice
           /\ [s EXCEPT !.delayStatus = n].ioDevice = s.ioDevice
           /\ Elapsed(s).ioDevice = s.ioDevice
           /\ DeclinedSlot(Empty(s)).ioDevice = "none"
  BY DEF Taken, Dropped, Fill, Disconnect, Elapsed, Empty, DeclinedSlot, Slot

\* The slots as an instruction finds them.
LEMMA StartKeepsDevice ==
    ASSUME IInv, NEW p \in Pps, NEW c \in Channels
    PROVE  /\ WordSlots(p)[c] \in Slot /\ WordSlots(p)[c].ioDevice = channel[c].ioDevice
           /\ BlockSlot(p, c) \in Slot /\ BlockSlot(p, c).ioDevice = channel[c].ioDevice
<1>1. channel[c] \in Slot /\ channel \in [Channels -> Slot]
  BY DEF IInv, ChannelsInv
<1>2. WordSlots(p)[c] \in Slot /\ BlockSlot(p, c) \in Slot
  BY StartType DEF Fits
<1>3. [channel[c] EXCEPT !.delayStatus = 0].ioDevice = channel[c].ioDevice
  BY <1>1, ChangesKeepDevice
<1> QED BY <1>1, <1>2, <1>3 DEF WordSlots, BlockSlot

\* A turn brings no panel to channel 0.
LEMMA NoPanelComes ==
    ASSUME IInv, [Next]_vars, ~Deadstart, channel[0].ioDevice # "panel"
    PROVE  channel'[0].ioDevice # "panel"
<1>0. /\ 0 \in Channels /\ channel[0] \in Slot /\ channel \in [Channels -> Slot]
      /\ tape \in TapeState /\ dsSequence \in 0 .. PanelWords
  BY Constants DEF IInv, ChannelsInv
<1> DEFINE d == channel[0].ioDevice
\* The slot of channel 0 after an instruction on channel c.
<1>1. ASSUME NEW c, NEW slots \in [Channels -> Slot], slots[0].ioDevice = d,
             NEW x, channel' = [slots EXCEPT ![c] = x],
             c = 0 => x.ioDevice \in {d, "none", "tape"}
      PROVE  channel'[0].ioDevice # "panel"
  BY <1>0, <1>1
<1>2. ASSUME NEW p \in Pps, IAN(p) PROVE channel'[0].ioDevice # "panel"
  <2> PICK i \in Executes(p, "IAN") : IAN(p)!(i)
    BY <1>2 DEF IAN
  <2> DEFINE slots == WordSlots(p)
             c == i.opD
             r == Polled(slots[c])
  <2>1. slots \in [Channels -> Slot] /\ slots[0].ioDevice = d
    BY <1>0, StartType, StartKeepsDevice
  <2>2. ASSUME c = 0 PROVE r.slot.ioDevice = d /\ Took(r).slot.ioDevice \in {d, "none"}
    <3>1. slots[0] \in Slot
      BY <1>0, <2>1
    <3>2. r.slot.ioDevice = d /\ r.slot \in Slot
      BY <1>0, <2>1, <2>2, <3>1, IoKeepsDevice, StartType, PolledKeeps
      DEF Kept, World, Fits
    <3> QED BY <3>2, ChangesKeepDevice DEF Took
  <2>3. CASE channel' = slots
    BY <2>1, <2>3
  <2>4. CASE Set(slots, c, r)
    BY <1>1, <2>1, <2>2, <2>4 DEF Set
  <2>5. CASE Set(slots, c, Took(r))
    BY <1>1, <2>1, <2>2, <2>5 DEF Set
  <2> QED BY <2>3, <2>4, <2>5
<1>3. ASSUME NEW p \in Pps, IAM(p) PROVE channel'[0].ioDevice # "panel"
  <2> PICK i \in Executes(p, "IAM") : IAM(p)!(i)
    BY <1>3 DEF IAM
  <2> DEFINE c == i.opD
             s == BlockSlot(p, c)
             r == Polled(s)
  <2>1. ASSUME c = 0
        PROVE  /\ r.slot.ioDevice = d /\ Took(r).slot.ioDevice \in {d, "none"}
               /\ Only(Dropped(s)).slot.ioDevice = "none"
    <3>1. s \in Slot /\ s.ioDevice = d /\ Fits(0, s)
      BY <1>0, <2>1, StartType, StartKeepsDevice
    <3>2. r.slot.ioDevice = d /\ r.slot \in Slot
      BY <1>0, <2>1, <3>1, IoKeepsDevice, PolledKeeps DEF Kept, World, Fits
    <3> QED BY <3>1, <3>2, ChangesKeepDevice DEF Took, Only, Result
  <2>2. CASE Set(channel, c, Only(Dropped(s)))
    BY <1>0, <1>1, <2>1, <2>2 DEF Set
  <2>3. CASE Set(channel, c, r)
    BY <1>0, <1>1, <2>1, <2>3 DEF Set
  <2>4. CASE Set(channel, c, Took(r))
    BY <1>0, <1>1, <2>1, <2>4 DEF Set
  <2> QED BY <2>2, <2>3, <2>4
\* What an output puts on the device.
<1>4. ASSUME NEW s \in Slot, s.ioDevice = d, NEW n \in Nat
      PROVE  /\ ChannelIo(s).slot.ioDevice = d
             /\ ChannelIo(Fill(s, "pp")).slot.ioDevice = d
             /\ ChannelIo([Fill(s, "pp") EXCEPT !.delayStatus = n]).slot.ioDevice = d
  <2> DEFINE f == Fill(s, "pp")
             u == [f EXCEPT !.delayStatus = n]
  <2>1. f \in Slot /\ f.ioDevice = d
    BY <1>4 DEF Fill, Slot
  <2> HIDE DEF f
  <2>2. u \in Slot /\ u.ioDevice = d
    BY <1>4, <2>1 DEF Slot
  <2> HIDE DEF u
  <2> QED BY <1>0, <1>4, <2>1, <2>2, IoKeepsDevice DEF f, u
<1>5. ASSUME NEW p \in Pps, OAN(p) PROVE channel'[0].ioDevice # "panel"
  <2> PICK i \in Executes(p, "OAN") : OAN(p)!(i)
    BY <1>5 DEF OAN
  <2> DEFINE slots == WordSlots(p)
             c == i.opD
             s == slots[c]
  <2>1. slots \in [Channels -> Slot] /\ slots[0].ioDevice = d /\ slots[0] \in Slot
    BY <1>0, StartType, StartKeepsDevice
  <2>2. c = 0 => /\ ChannelIo(s).slot.ioDevice = d
                 /\ ChannelIo(Fill(s, "pp")).slot.ioDevice = d
    BY <1>4, <2>1, 0 \in Nat
  <2>3. CASE channel' = slots
    BY <2>1, <2>3
  <2>4. CASE Set(slots, c, ChannelIo(s))
    BY <1>1, <2>1, <2>2, <2>4 DEF Set
  <2>5. CASE Set(slots, c, ChannelIo(Fill(s, "pp")))
    BY <1>1, <2>1, <2>2, <2>5 DEF Set
  <2> QED BY <2>3, <2>4, <2>5
<1>6. ASSUME NEW p \in Pps, OAM(p) PROVE channel'[0].ioDevice # "panel"
  <2> PICK i \in Executes(p, "OAM") : OAM(p)!(i)
    BY <1>6 DEF OAM
  <2> DEFINE c == i.opD
             s == BlockSlot(p, c)
  <2>1. ASSUME c = 0
        PROVE  /\ ChannelIo(s).slot.ioDevice = d
               /\ ChannelIo(WordPut(s, i)).slot.ioDevice = d
               /\ Only(Dropped(s)).slot.ioDevice = "none"
    <3> DEFINE n == IF i.regA = 1 THEN 0 ELSE Fill(s, "pp").delayStatus
    <3>1. s \in Slot /\ s.ioDevice = d
      BY <1>0, <2>1, StartKeepsDevice
    <3>2. n \in Nat /\ WordPut(s, i) = [Fill(s, "pp") EXCEPT !.delayStatus = n]
      BY <3>1 DEF Fill, Slot, WordPut
    <3> HIDE DEF n
    <3> QED BY <1>4, <3>1, <3>2, ChangesKeepDevice DEF Only, Result
  <2>2. CASE Set(channel, c, Only(Dropped(s)))
    BY <1>0, <1>1, <2>1, <2>2 DEF Set
  <2>3. CASE Set(channel, c, ChannelIo(s))
    BY <1>0, <1>1, <2>1, <2>3 DEF Set
  <2>4. CASE Set(channel, c, ChannelIo(WordPut(s, i)))
    BY <1>0, <1>1, <2>1, <2>4 DEF Set
  <2> QED BY <2>2, <2>3, <2>4
<1>7. ASSUME NEW p \in Pps, ACN(p) \/ DCN(p) PROVE channel'[0].ioDevice # "panel"
  <2>1. CASE DCN(p)
    <3> PICK i \in Executes(p, "DCN") : DCN(p)!(i)
      BY <2>1 DEF DCN
    <3>1. i.opD = 0 => Disconnect(channel[i.opD]).ioDevice = d
      BY <1>0, ChangesKeepDevice
    <3> QED BY <1>0, <1>1, <3>1
  <2>2. CASE ACN(p)
    <3> PICK i \in Executes(p, "ACN") : ACN(p)!(i)
      BY <2>2 DEF ACN
    <3> QED BY <1>0 DEF Slot
  <2> QED BY <1>7, <2>1, <2>2
<1>8. ASSUME NEW p \in Pps, FNC(p) PROVE channel'[0].ioDevice # "panel"
  <2> PICK i \in Executes(p, "FNC") : FNC(p)!(i)
    BY <1>8 DEF FNC
  <2> DEFINE c == i.opD
             s == Empty(channel[c])
  <2>1. c = 0 => /\ [s EXCEPT !.ioDevice = "tape"].ioDevice = "tape"
                 /\ [s EXCEPT !.ioDevice = "none"].ioDevice = "none"
                 /\ DeclinedSlot(s).ioDevice = "none"
    BY <1>0 DEF DeclinedSlot, Empty, Slot
  <2>2. CASE channel' = channel
    BY <2>2
  <2>3. CASE channel' = [channel EXCEPT ![c] = [s EXCEPT !.ioDevice = "tape"]]
    BY <1>0, <1>1, <2>1, <2>3
  <2>4. CASE channel' = [channel EXCEPT ![c] = [s EXCEPT !.ioDevice = "none"]]
    BY <1>0, <1>1, <2>1, <2>4
  <2>5. CASE channel' = [channel EXCEPT ![c] = DeclinedSlot(s)]
    BY <1>0, <1>1, <2>1, <2>5
  <2> QED BY <2>2, <2>3, <2>4, <2>5
<1>9. ASSUME NEW p \in Pps, Probe(p) PROVE channel'[0].ioDevice # "panel"
  BY <1>0, <1>9, IoKeepsDevice DEF Probe, Set
<1>10. CASE ChannelStep
  BY <1>0, <1>10, ChangesKeepDevice DEF ChannelStep
<1>11. ASSUME UNCHANGED vars \/ \E p \in Pps : Test(p) \/ Compute(p)
       PROVE  channel'[0].ioDevice # "panel"
  BY <1>11 DEF vars, Test, Compute
<1> QED BY <1>2, <1>3, <1>5, <1>6, <1>7, <1>8, <1>9, <1>10, <1>11 DEF Next

\* What a deadstart makes of a slot.
LEMMA DeadstartSlots ==
    ASSUME NEW s \in Slot, NEW c
    PROVE  /\ DeadstartSlot(s, c).active
           /\ c = 0 => DeadstartSlot(s, c).data = "panel"
           /\ c # 0 => ~DeadstartSlot(s, c).full /\ DeadstartSlot(s, c).ioDevice = "none"
<1>1. CASE c = 0
  BY <1>1 DEF DeadstartSlot, Fill, Slot
<1>2. CASE c # 0
  BY <1>2 DEF DeadstartSlot, Empty, Slot
<1> QED BY <1>1, <1>2

LEMMA FirstLoad == InLoad(Load(0), FirstOwed[0])
<1>1. FirstOwed[0] + Surplus = LoadWords
  BY Constants DEF FirstOwed, Surplus
<1> QED BY <1>1 DEF InLoad, Load

LEMMA DeadstartLoads == ASSUME PInv, Deadstart PROVE LoadInv'
<1>0. 0 \in Pps /\ 0 \in Channels /\ Pps \subseteq Channels
  BY Constants DEF Pps
<1>1. /\ \A c \in Channels : channel[c] \in Slot
                              /\ channel'[c] = DeadstartSlot(channel[c], c)
      /\ \A p \in Pps : ppu'[p] = Load(p)
      /\ owed' = FirstOwed
  BY DEF Deadstart, PInv, LInv, IInv, ChannelsInv
<1>2. ASSUME NEW p \in Pps \ {0} PROVE WaitsForLoad(p)'
  BY <1>0, <1>1, DeadstartSlots DEF WaitsForLoad
<1>3. channel'[0].active /\ channel'[0].data = "panel"
  BY <1>0, <1>1, DeadstartSlots
<1>4. InLoad(ppu'[0], owed'[0])
  BY <1>0, <1>1, FirstLoad
<1> QED BY <1>2, <1>3, <1>4 DEF LoadInv, InLoad, Surplus

LEMMA InitPInv == Init => PInv
<1> SUFFICES ASSUME Init PROVE LoadInv
  BY InitLInv DEF PInv
<1>0. 0 \in Pps /\ 0 \in Channels /\ Pps \subseteq Channels /\ NewSlot \in Slot
  BY Constants DEF Pps, NewSlot, Slot
<1>1. /\ \A c \in Channels : channel[c] = DeadstartSlot(NewSlot, c)
      /\ \A p \in Pps : ppu[p] = Load(p)
      /\ owed = FirstOwed
  BY DEF Init
<1>2. ASSUME NEW p \in Pps \ {0} PROVE WaitsForLoad(p)
  BY <1>0, <1>1, DeadstartSlots DEF WaitsForLoad
<1>3. channel[0].active /\ channel[0].data = "panel"
  BY <1>0, <1>1, DeadstartSlots
<1>4. InLoad(ppu[0], owed[0])
  BY <1>0, <1>1, FirstLoad
<1> QED BY <1>2, <1>3, <1>4 DEF LoadInv

LEMMA PInductive == PInv /\ [Next]_vars => PInv'
<1> SUFFICES ASSUME PInv, [Next]_vars PROVE LoadInv'
  BY LInductive DEF PInv
<1>1. CASE Deadstart
  BY <1>1, DeadstartLoads
<1>2. CASE ~Deadstart /\ PanelGoesOn
  <2>1. ASSUME NEW p \in Pps, IAM(p) PROVE LoadInv'
    <3>1. CASE p = 0
      BY <1>2, <2>1, <3>1, FirstLoads
    <3>2. CASE p # 0
      <4>1. channel' = channel /\ ppu' = ppu /\ owed' = owed
        BY <1>2, <2>1, <3>2, OtherLoads
      <4> QED BY <1>2, <4>1 DEF PInv, LoadInv, PanelGoesOn, WaitsForLoad, InLoad, Surplus
    <3> QED BY <3>1, <3>2
  <2>2. CASE ChannelStep
    <3>1. ASSUME NEW c \in Channels, channel[c].delayDisconnect # 1
          PROVE  /\ channel'[c].active = channel[c].active
                 /\ channel'[c].full = channel[c].full
                 /\ channel'[c].data = channel[c].data
                 /\ channel'[c].ioDevice = channel[c].ioDevice
      BY <2>2, <3>1 DEF ChannelStep, Elapsed, Slot, PInv, LInv, IInv, ChannelsInv
    <3>2. ASSUME NEW c \in Channels, channel[c].ioDevice # "tape"
          PROVE  channel[c].delayDisconnect # 1
      <4>1. Safe(channel[c], tape) /\ channel[c] \in Slot
        BY <1>2 DEF PanelGoesOn, PInv, LInv, IInv, ChannelsInv, SafeInv
      <4> QED BY <3>2, <4>1 DEF Safe
    <3>3. ppu' = ppu /\ owed' = owed
      BY <2>2 DEF ChannelStep, history
    <3>4. ASSUME NEW p \in Pps \ {0} PROVE WaitsForLoad(p)'
      <4>1. WaitsForLoad(p) /\ p \in Channels
        BY <1>2, Owed, Constants
      <4>2. channel[p].delayDisconnect # 1
        BY <3>2, <4>1 DEF WaitsForLoad
      <4> QED BY <3>1, <3>3, <4>1, <4>2 DEF WaitsForLoad
    <3>5. channel[0].delayDisconnect # 1 /\ 0 \in Channels
      BY <1>2, <3>2, Constants DEF PanelGoesOn
    <3> QED BY <1>2, <3>1, <3>3, <3>4, <3>5, Owed DEF LoadInv, InLoad, Surplus
  <2>3. CASE UNCHANGED vars
    BY <1>2, <2>3 DEF vars, history, restarts, PInv, LoadInv, PanelGoesOn, WaitsForLoad, InLoad, Surplus
  <2> QED BY <1>2, <2>1, <2>2, <2>3, OnlyLoads DEF Next
<1>3. CASE ~Deadstart /\ ~PanelGoesOn
  <2>1. leftover' = leftover
    BY <1>3 DEF Next, vars, restarts, ChannelStep, IAN, IAM, OAN, OAM, ACN, DCN, FNC,
                Probe, Test, Compute
  <2>2. ~PanelGoesOn'
    BY <1>3, <2>1, NoPanelComes DEF PanelGoesOn, PInv, LInv
  <2> QED BY <2>2 DEF LoadInv
<1> QED BY <1>1, <1>2, <1>3

\* The load of PP 0 ends with the whole panel taken: its word count outlasts the panel,
\* and no other PP, each waiting for a word in its own load, can touch channel 0
\* (deadstart.c:143-199, 227).
THEOREM PanelIsLoaded == Spec => PanelLoaded
<1>1. ASSUME PInv, [Next]_vars, leftover = {}, ppu[0].opF = "IAM", ppu[0].opD = 0,
             channel[0].ioDevice = "panel", ppu'[0] = Idle
      PROVE  owed[0] = 0
  <2>1. PanelGoesOn /\ ppu[0] # Idle /\ 0 \in Pps
    BY <1>1, Constants DEF PanelGoesOn, Idle, Pps
  <2>2. ppu' # ppu
    BY <1>1, <2>1
  <2>3. CASE Deadstart
    <3>1. ppu'[0] = Load(0)
      BY <2>1, <2>3 DEF Deadstart
    <3> QED BY <1>1, <3>1 DEF Load, Idle
  <2>4. CASE \E p \in Pps : IAM(p)
    BY <1>1, <2>1, <2>2, <2>4, OtherLoads, FirstLoads
  <2>5. CASE ChannelStep \/ UNCHANGED vars
    BY <2>2, <2>5 DEF ChannelStep, vars
  <2> QED BY <1>1, <2>1, <2>3, <2>4, <2>5, OnlyLoads DEF Next
<1>2. PInv /\ [Next]_vars =>
        [(/\ leftover = {} /\ ppu[0].opF = "IAM" /\ ppu[0].opD = 0
          /\ channel[0].ioDevice = "panel" /\ ppu'[0] = Idle)
         => owed[0] = 0]_vars
  BY <1>1
<1> QED BY <1>2, InitPInv, PInductive, PTL DEF Spec, PanelLoaded
=============================================================================
