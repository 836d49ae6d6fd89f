-------------------------- MODULE PpChannelProofs ---------------------------
(***************************************************************************)
(* Proofs about PpChannel for any number of PPs, channels and words, and   *)
(* any delays: its types, and that no disconnect outlives its transfer.    *)
(***************************************************************************)
EXTENDS PpChannel, TLAPS

\* The tape is selected on its own channel only, and the panel on channel 0.
Fits(c, s) == /\ s \in Slot
              /\ s.full <=> s.data # "none"
              /\ s.ioDevice = "tape" => c = TapeChannel
              /\ s.ioDevice = "panel" => c = 0

\* A pending disconnect belongs to a device on an active channel, and to the
\* function that can have asked for it; one after input still has its word there.
Safe(s, t) ==
    /\ s.delayDisconnect > 0 \/ s.discAfterInput => s.active /\ s.ioDevice = "tape"
    /\ s.discAfterInput => s.full /\ t.fcode \in {"readBkw", "none"}
    /\ s.delayDisconnect > 0 => t.fcode = "read"

World(c, r) == /\ Fits(c, r.slot) /\ r.tape \in TapeState
               /\ r.dsSequence \in 0 .. PanelWords

SlotsInv == \A c \in Channels : Fits(c, channel[c])
SafeInv == \A c \in Channels \ leftover : Safe(channel[c], tape)
ChannelsInv == /\ channel \in [Channels -> Slot] /\ SlotsInv /\ SafeInv
               /\ tape \in TapeState /\ dsSequence \in 0 .. PanelWords

IInv == /\ turn \in 0 .. PpuCount /\ activeChannel \in Channels
        /\ ppu \in [Pps -> {Idle} \cup Instruction]
        /\ ChannelsInv

\* Facts about the constants.
LEMMA Constants == /\ DisconnectDelay \in Nat /\ DisconnectDelay > 0
                   /\ StatusDelay \in Nat /\ ActivateDelay \in Nat
                   /\ PanelWords \in Nat /\ RecordWords \in Nat /\ MaxPpBuf \in Nat
                   /\ LoadWords \in Nat \ {0} /\ MaxWords \in Nat \ {0}
                   /\ RecordWords > 0
                   /\ PpuCount \in Nat \ {0, 1} /\ ChannelCount \in Nat
                   /\ Pps \subseteq Channels /\ 0 \in Channels
                   /\ TapeChannel \in Channels /\ TapeChannel # 0
  BY SizeAssumption, BoundAssumption, DelayAssumption DEF Pps, Channels, TapeChannel

LEMMA ResultWorld ==
    ASSUME NEW c, NEW s, NEW t, Fits(c, s), t \in TapeState,
           dsSequence \in 0 .. PanelWords
    PROVE  World(c, Result(s, t)) /\ Result(s, t).slot = s /\ Result(s, t).tape = t
  BY DEF World, Result

\* A device's input or output keeps slot and device in order, leaves the device
\* selected, and asks for a disconnect only as Safe allows.
Kept(c, s, r) == /\ World(c, r)
                 /\ Safe(s, tape) => Safe(r.slot, r.tape)
                 /\ c # TapeChannel => r.tape = tape

LEMMA PanelKeeps ==
    ASSUME NEW c \in Channels, NEW s, Fits(c, s), s.active, s.ioDevice = "panel",
           tape \in TapeState, dsSequence \in 0 .. PanelWords
    PROVE  Kept(c, s, PanelIo(s))
<1>1. CASE s.full
  <2>1. PanelIo(s) = Result(s, tape)
    BY <1>1 DEF PanelIo, Only
  <2> QED BY <2>1, ResultWorld DEF Kept
<1>2. CASE ~s.full /\ dsSequence >= PanelWords
  <2> DEFINE u == [s EXCEPT !.active = FALSE]
  <2>1. PanelIo(s) = Result(u, tape)
    BY <1>2, Constants DEF PanelIo, Only
  <2>2. Fits(c, u) /\ (Safe(s, tape) => Safe(u, tape))
    BY <1>2 DEF Fits, Slot, Safe
  <2> QED BY <2>1, <2>2, ResultWorld DEF Kept
<1>3. CASE ~s.full /\ dsSequence < PanelWords
  <2> DEFINE u == Fill(s, "panel")
  <2>1. PanelIo(s) = [slot |-> u, tape |-> tape, dsSequence |-> dsSequence + 1]
    BY <1>3 DEF PanelIo
  <2>2. Fits(c, u) /\ (Safe(s, tape) => Safe(u, tape))
    BY <1>3 DEF Fits, Slot, Safe, Fill
  <2>3. dsSequence + 1 \in 0 .. PanelWords
    BY <1>3, Constants
  <2> QED BY <2>1, <2>2, <2>3 DEF Kept, World
<1> QED BY <1>1, <1>2, <1>3, Constants

\* A word the tape has put into a slot.
LEMMA PutKeeps ==
    ASSUME NEW s, Fits(TapeChannel, s), s.active, s.ioDevice = "tape",
           NEW t \in TapeState, dsSequence \in 0 .. PanelWords,
           NEW u \in Slot, u.active, u.full, u.data = "tape", u.ioDevice = "tape",
           Safe(s, tape) => /\ u.discAfterInput => t.fcode \in {"readBkw", "none"}
                            /\ u.delayDisconnect > 0 => t.fcode = "read"
    PROVE  Kept(TapeChannel, s, Result(u, t))
<1>1. Fits(TapeChannel, u) /\ (Safe(s, tape) => Safe(u, t))
  BY DEF Fits, Safe
<1> QED BY <1>1, ResultWorld DEF Kept

LEMMA ShorterType ==
    ASSUME tape \in TapeState, tape.recordLength > 0
    PROVE  /\ Shorter \in TapeState /\ Shorter.fcode = tape.fcode
           /\ [Shorter EXCEPT !.fcode = "none"] \in TapeState
           /\ [Shorter EXCEPT !.fcode = "none"].fcode = "none"
<1>1. tape.recordLength - 1 \in 0 .. RecordWords \cup 0 .. MaxPpBuf
  BY Constants DEF TapeState
<1>2. Shorter \in TapeState /\ Shorter.fcode = tape.fcode
  BY <1>1 DEF Shorter, TapeState
<1> QED BY <1>2 DEF TapeState

LEMMA TapeKeeps ==
    ASSUME NEW s, Fits(TapeChannel, s), s.active, s.ioDevice = "tape",
           tape \in TapeState, dsSequence \in 0 .. PanelWords
    PROVE  /\ tape.fcode = "read" => Kept(TapeChannel, s, ReadFwd(s))
           /\ tape.fcode = "readBkw" => Kept(TapeChannel, s, ReadBkw(s))
           /\ tape.fcode = "status" => Kept(TapeChannel, s, GeneralStatus(s))
           /\ tape.fcode = "write" => Kept(TapeChannel, s, Write(s))
<1>0. /\ s \in Slot /\ s.full \in BOOLEAN /\ s.discAfterInput \in BOOLEAN
      /\ s.delayDisconnect \in 0 .. DisconnectDelay /\ tape.recordLength \in Nat
  BY Constants DEF Fits, Slot, TapeState
<1>1. Kept(TapeChannel, s, Only(s))
  BY ResultWorld DEF Kept, Only
<1>2. CASE ~s.full /\ tape.recordLength = 0 /\ tape.fcode = "read"
  <2> DEFINE u == [s EXCEPT !.active = FALSE, !.delayDisconnect = 0]
  <2>0. 0 \in 0 .. DisconnectDelay
    BY Constants
  <2>1. u \in Slot
    BY <1>0, <2>0 DEF Slot
  <2>2. /\ u.full = s.full /\ u.data = s.data /\ u.ioDevice = s.ioDevice
        /\ u.delayDisconnect = 0 /\ u.discAfterInput = s.discAfterInput
    BY <1>0 DEF Slot
  <2>3. ReadFwd(s) = Result(u, tape)
    BY <1>0, <1>2 DEF ReadFwd, Only
  <2> HIDE DEF u
  <2>4. Fits(TapeChannel, u) /\ (Safe(s, tape) => Safe(u, tape))
    BY <1>2, <2>1, <2>2 DEF Fits, Safe
  <2> QED BY <1>2, <2>3, <2>4, ResultWorld DEF Kept
<1>3. CASE ~s.full /\ tape.recordLength = 0 /\ tape.fcode = "readBkw"
  <2> DEFINE u == [s EXCEPT !.active = FALSE]
  <2>1. u \in Slot
    BY <1>0 DEF Slot
  <2>2. /\ u.full = s.full /\ u.data = s.data /\ u.ioDevice = s.ioDevice
        /\ u.delayDisconnect = s.delayDisconnect /\ u.discAfterInput = s.discAfterInput
    BY <1>0 DEF Slot
  <2>3. ReadBkw(s) = Result(u, tape)
    BY <1>0, <1>3 DEF ReadBkw, Only
  <2> HIDE DEF u
  <2>4. Fits(TapeChannel, u) /\ (Safe(s, tape) => Safe(u, tape))
    BY <1>0, <1>3, <2>1, <2>2 DEF Fits, Safe
  <2> QED BY <1>3, <2>3, <2>4, ResultWorld DEF Kept
<1>4. CASE ~s.full /\ tape.recordLength > 0 /\ tape.fcode = "read"
  <2> DEFINE d == IF Last THEN DisconnectDelay ELSE s.delayDisconnect
             u == [Fill(s, "tape") EXCEPT !.delayDisconnect = d]
  <2>1. ReadFwd(s) = Result(u, Shorter)
    BY <1>0, <1>4 DEF ReadFwd, Fill
  <2>2. /\ d \in 0 .. DisconnectDelay /\ Shorter \in TapeState
        /\ Shorter.fcode = "read"
    BY <1>0, <1>4, ShorterType, Constants
  <2>3. Safe(s, tape) => ~s.discAfterInput
    BY <1>4 DEF Safe
  <2> HIDE DEF d
  <2>4. /\ u \in Slot /\ u.active /\ u.full /\ u.data = "tape" /\ u.ioDevice = "tape"
        /\ u.discAfterInput = s.discAfterInput
    BY <1>0, <2>2 DEF Slot, Fill
  <2> HIDE DEF u
  <2>5. Kept(TapeChannel, s, Result(u, Shorter))
    BY <2>2, <2>3, <2>4, PutKeeps
  <2> QED BY <1>4, <2>1, <2>5
<1>5. CASE ~s.full /\ tape.recordLength > 0 /\ tape.fcode = "readBkw"
  <2> DEFINE i == s.discAfterInput \/ Last
             u == [Fill(s, "tape") EXCEPT !.discAfterInput = i]
  <2>1. ReadBkw(s) = Result(u, Shorter)
    BY <1>0, <1>5 DEF ReadBkw, Fill
  <2>2. i \in BOOLEAN /\ Shorter \in TapeState /\ Shorter.fcode = "readBkw"
    BY <1>0, <1>5, ShorterType
  <2>3. Safe(s, tape) => ~(s.delayDisconnect > 0)
    BY <1>5 DEF Safe
  <2> HIDE DEF i
  <2>4. /\ u \in Slot /\ u.active /\ u.full /\ u.data = "tape" /\ u.ioDevice = "tape"
        /\ u.delayDisconnect = s.delayDisconnect
    BY <1>0, <2>2 DEF Slot, Fill
  <2> HIDE DEF u
  <2>5. Kept(TapeChannel, s, Result(u, Shorter))
    BY <2>2, <2>3, <2>4, PutKeeps
  <2> QED BY <1>5, <2>1, <2>5
<1>6. CASE ~s.full /\ tape.recordLength > 0 /\ tape.fcode = "status"
  <2> DEFINE i == s.discAfterInput \/ Last
             u == [Fill(s, "tape") EXCEPT !.discAfterInput = i]
             t == [Shorter EXCEPT !.fcode = IF Last THEN "none" ELSE @]
  <2>1. GeneralStatus(s) = Result(u, t)
    BY <1>0, <1>6 DEF GeneralStatus, Fill
  <2>2. t \in TapeState /\ (Last => t.fcode = "none")
    BY <1>6, ShorterType DEF TapeState
  <2>3. Safe(s, tape) => ~(s.delayDisconnect > 0) /\ ~s.discAfterInput
    BY <1>6 DEF Safe
  <2>4. i \in BOOLEAN /\ (Safe(s, tape) /\ i => Last)
    BY <1>0, <2>3
  <2> HIDE DEF i, t
  <2>5. /\ u \in Slot /\ u.active /\ u.full /\ u.data = "tape" /\ u.ioDevice = "tape"
        /\ u.delayDisconnect = s.delayDisconnect /\ u.discAfterInput = i
    BY <1>0, <2>4 DEF Slot, Fill
  <2> HIDE DEF u
  <2>6. Kept(TapeChannel, s, Result(u, t))
    BY <2>2, <2>3, <2>4, <2>5, PutKeeps
  <2> QED BY <1>6, <2>1, <2>6
<1>7. CASE s.full /\ tape.recordLength < MaxPpBuf /\ tape.fcode = "write"
  <2> DEFINE u == Empty(s)
             t == [tape EXCEPT !.recordLength = @ + 1]
  <2>1. u \in Slot
    BY <1>0 DEF Slot, Empty
  <2>2. /\ ~u.full /\ u.data = "none" /\ u.ioDevice = "tape" /\ u.active
        /\ u.delayDisconnect = s.delayDisconnect /\ u.discAfterInput = s.discAfterInput
    BY <1>0 DEF Slot, Empty
  <2>3. tape.recordLength + 1 \in 0 .. MaxPpBuf
    BY <1>0, <1>7, Constants
  <2>4. t \in TapeState
    BY <2>3 DEF TapeState
  <2>5. Write(s) = Result(u, t)
    BY <1>7 DEF Write
  <2> HIDE DEF u, t
  <2>6. Fits(TapeChannel, u) /\ (Safe(s, tape) => Safe(u, t))
    BY <1>0, <1>7, <2>1, <2>2 DEF Fits, Safe
  <2> QED BY <1>7, <2>4, <2>5, <2>6, ResultWorld DEF Kept
<1>8. tape.fcode = "read" => Kept(TapeChannel, s, ReadFwd(s))
  BY <1>0, <1>1, <1>2, <1>4 DEF ReadFwd
<1>9. tape.fcode = "readBkw" => Kept(TapeChannel, s, ReadBkw(s))
  BY <1>0, <1>1, <1>3, <1>5 DEF ReadBkw
<1>10. tape.fcode = "status" => Kept(TapeChannel, s, GeneralStatus(s))
  BY <1>0, <1>1, <1>6 DEF GeneralStatus
<1>11. tape.fcode = "write" => Kept(TapeChannel, s, Write(s))
  BY <1>1, <1>7 DEF Write
<1> QED BY <1>8, <1>9, <1>10, <1>11

LEMMA IoKeeps ==
    ASSUME NEW c \in Channels, NEW s, Fits(c, s),
           tape \in TapeState, dsSequence \in 0 .. PanelWords
    PROVE  Kept(c, s, ChannelIo(s))
<1>1. CASE ~s.active \/ s.ioDevice = "none"
  <2>1. ChannelIo(s) = Only(s)
    BY <1>1 DEF ChannelIo
  <2> QED BY <2>1, ResultWorld DEF Kept, Only
<1>2. CASE s.active /\ s.ioDevice = "panel"
  BY <1>2, PanelKeeps DEF ChannelIo
<1>3. CASE s.active /\ s.ioDevice = "tape"
  <2> DEFINE t == [s EXCEPT !.delayStatus = StatusDelay]
  <2>1. ChannelIo(s) = TapeIo(s) /\ c = TapeChannel
    BY <1>3 DEF ChannelIo, Fits
  <2>2. /\ Fits(c, t) /\ t.active /\ t.ioDevice = "tape"
        /\ Safe(s, tape) => Safe(t, tape)
    BY <1>3, Constants DEF Fits, Slot, Safe
  <2>3. CASE s.delayStatus # 0
    BY <2>1, <2>3, ResultWorld DEF TapeIo, Kept, Only
  <2> HIDE DEF t
  <2>4. CASE s.delayStatus = 0
    <3>1. ASSUME NEW r, Kept(c, t, r) PROVE Kept(c, s, r)
      BY <2>2, <3>1 DEF Kept
    <3>2. CASE tape.fcode = "read"
      BY <2>1, <2>2, <2>4, <3>1, <3>2, TapeKeeps DEF TapeIo, t
    <3>3. CASE tape.fcode = "readBkw"
      BY <2>1, <2>2, <2>4, <3>1, <3>3, TapeKeeps DEF TapeIo, t
    <3>4. CASE tape.fcode = "status"
      BY <2>1, <2>2, <2>4, <3>1, <3>4, TapeKeeps DEF TapeIo, t
    <3>5. CASE tape.fcode = "write"
      BY <2>1, <2>2, <2>4, <3>1, <3>5, TapeKeeps DEF TapeIo, t
    <3>6. CASE tape.fcode = "none"
      <4>1. ChannelIo(s) = Only(t)
        BY <2>1, <2>4, <3>6 DEF TapeIo, t
      <4> QED BY <2>2, <3>1, <4>1, ResultWorld DEF Kept, Only
    <3> QED BY <3>2, <3>3, <3>4, <3>5, <3>6 DEF TapeState, InputFunctions
  <2> QED BY <2>3, <2>4
<1> QED BY <1>1, <1>2, <1>3 DEF Fits, Slot

\* What the instructions do to a slot themselves.
LEMMA SlotChanges ==
    ASSUME NEW c \in Channels, NEW s, Fits(c, s), NEW t, NEW n \in Nat
    PROVE  /\ Fits(c, Taken(s)) /\ (Safe(s, t) => Safe(Taken(s), t))
           /\ Fits(c, Dropped(s)) /\ (~s.active /\ Safe(s, t) => Safe(Dropped(s), t))
           /\ Fits(c, Fill(s, "pp")) /\ (Safe(s, t) => Safe(Fill(s, "pp"), t))
           /\ Fits(c, Disconnect(s)) /\ (Safe(s, t) => Safe(Disconnect(s), t))
           /\ Fits(c, Elapsed(s)) /\ (Safe(s, t) => Safe(Elapsed(s), t))
           /\ /\ Fits(c, [s EXCEPT !.delayStatus = n])
              /\ Safe(s, t) => Safe([s EXCEPT !.delayStatus = n], t)
<1>0. 0 \in 0 .. DisconnectDelay /\ s \in Slot
  BY Constants DEF Fits
<1>1. Fits(c, Empty(s))
  BY <1>0 DEF Fits, Slot, Empty
<1>2. Fits(c, Taken(s)) /\ (Safe(s, t) => Safe(Taken(s), t))
  <2>1. CASE s.discAfterInput
    <3> DEFINE u == Taken(s)
    <3>1. /\ u \in Slot /\ ~u.full /\ u.data = "none" /\ u.ioDevice = "none"
          /\ ~u.discAfterInput /\ u.delayDisconnect = 0
      BY <1>0, <2>1 DEF Slot, Taken, Empty
    <3> HIDE DEF u
    <3>2. Fits(c, u) /\ Safe(u, t)
      BY <3>1 DEF Fits, Safe
    <3> QED BY <3>2 DEF u
  <2>2. CASE ~s.discAfterInput
    BY <1>0, <1>1, <2>2 DEF Slot, Safe, Taken, Empty
  <2> QED BY <2>1, <2>2
<1>3. Fits(c, Dropped(s)) /\ (~s.active /\ Safe(s, t) => Safe(Dropped(s), t))
  BY <1>0 DEF Fits, Slot, Safe, Dropped, Empty
<1>4. Fits(c, Fill(s, "pp")) /\ (Safe(s, t) => Safe(Fill(s, "pp"), t))
  BY <1>0 DEF Fits, Slot, Safe, Fill
<1>5. Fits(c, Disconnect(s)) /\ (Safe(s, t) => Safe(Disconnect(s), t))
  <2>1. CASE s.ioDevice = "tape"
    <3> DEFINE u == Disconnect(s)
    <3>1. /\ u \in Slot /\ u.full = s.full /\ u.data = s.data /\ u.ioDevice = "tape"
          /\ ~u.discAfterInput /\ u.delayDisconnect = 0
      BY <1>0, <2>1 DEF Slot, Disconnect
    <3> HIDE DEF u
    <3>2. Fits(c, u) /\ Safe(u, t)
      BY <2>1, <3>1 DEF Fits, Safe
    <3> QED BY <3>2 DEF u
  <2>2. CASE s.ioDevice = "panel"
    BY <1>0, <2>2 DEF Fits, Slot, Safe, Disconnect
  <2>3. CASE s.ioDevice = "none"
    BY <1>0, <2>3 DEF Fits, Slot, Safe, Disconnect, Empty
  <2> QED BY <1>0, <2>1, <2>2, <2>3 DEF Slot
<1>6. Fits(c, Elapsed(s)) /\ (Safe(s, t) => Safe(Elapsed(s), t))
  <2> DEFINE d == IF s.delayDisconnect = 0 THEN 0 ELSE s.delayDisconnect - 1
             m == IF s.delayStatus = 0 THEN 0 ELSE s.delayStatus - 1
             a == s.active /\ s.delayDisconnect # 1
             i == s.discAfterInput /\ s.delayDisconnect # 1
             u == Elapsed(s)
  <2>1. d \in 0 .. DisconnectDelay /\ m \in Nat /\ a \in BOOLEAN /\ i \in BOOLEAN
    BY <1>0, Constants DEF Slot
  <2>2. u = [s EXCEPT !.active = a, !.discAfterInput = i, !.delayDisconnect = d,
                      !.delayStatus = m]
    BY DEF Elapsed
  <2>3. d > 0 => s.delayDisconnect > 1
    BY <1>0, Constants DEF Slot
  <2> HIDE DEF d, m, a, i, u
  <2>4. /\ u \in Slot /\ u.full = s.full /\ u.data = s.data /\ u.ioDevice = s.ioDevice
        /\ u.active = a /\ u.discAfterInput = i /\ u.delayDisconnect = d
    BY <1>0, <2>1, <2>2 DEF Slot
  <2>5. Fits(c, u)
    BY <2>4 DEF Fits
  <2>6. Safe(s, t) => Safe(u, t)
    BY <1>0, <2>3, <2>4, Constants DEF Safe, a, i, Slot
  <2> QED BY <2>5, <2>6 DEF u
<1>7. /\ Fits(c, [s EXCEPT !.delayStatus = n])
      /\ Safe(s, t) => Safe([s EXCEPT !.delayStatus = n], t)
  BY <1>0 DEF Fits, Slot, Safe
<1> QED BY <1>2, <1>3, <1>4, <1>5, <1>6, <1>7

\* A step that changes one slot, and the tape only from the tape's channel.
LEMMA OneSlot ==
    ASSUME NEW c \in Channels, NEW slots \in [Channels -> Slot],
           \A d \in Channels : Fits(d, slots[d]),
           \A d \in Channels \ leftover : Safe(slots[d], tape),
           NEW x, channel' = [slots EXCEPT ![c] = x], Fits(c, x),
           Safe(slots[c], tape) => Safe(x, tape'),
           tape' \in TapeState, c # TapeChannel => tape' = tape,
           dsSequence' \in 0 .. PanelWords, leftover' = leftover
    PROVE  ChannelsInv'
<1>1. channel' \in [Channels -> Slot] /\ SlotsInv'
  BY DEF SlotsInv, Fits
<1>2. ASSUME NEW d \in Channels \ leftover PROVE Safe(channel'[d], tape')
  <2>1. CASE d = c
    BY <2>1
  <2>2. CASE d # c /\ tape' = tape
    BY <2>2
  <2>3. CASE d # c /\ c = TapeChannel
    <3>1. channel'[d] = slots[d] /\ slots[d].ioDevice # "tape" /\ slots[d] \in Slot
      BY <2>3 DEF Fits
    <3> QED BY <3>1 DEF Safe
  <2> QED BY <2>1, <2>2, <2>3
<1> QED BY <1>1, <1>2 DEF ChannelsInv, SafeInv

\* The same when a device took part.
LEMMA OneIo ==
    ASSUME NEW c \in Channels, NEW slots \in [Channels -> Slot],
           \A d \in Channels : Fits(d, slots[d]),
           \A d \in Channels \ leftover : Safe(slots[d], tape),
           NEW r, Kept(c, slots[c], r), Set(slots, c, r), leftover' = leftover
    PROVE  ChannelsInv'
  BY OneSlot DEF Kept, World, Set

-----------------------------------------------------------------------------
(* The actions.                                                            *)

\* A PP's turn leaves the counters and the barrel in order.
LEMMA TurnType ==
    ASSUME IInv, NEW p \in Pps, NEW op \in BlockOps \cup WordOps,
           NEW i \in Executes(p, op), Turn(p),
           Done(p) \/ Busy(p, i)
             \/ (op \in BlockOps /\ i.regA # 1 /\ Busy(p, [i EXCEPT !.regA = @ - 1]))
    PROVE  /\ i \in Instruction /\ i.opD \in Channels
           /\ turn' \in 0 .. PpuCount
           /\ ppu' \in [Pps -> {Idle} \cup Instruction]
<1>1. i \in Instruction /\ i.opF = op
  <2>1. Program(op) \subseteq Instruction
    BY Constants DEF Program, Instruction, BlockOps, WordOps
  <2>2. CASE ppu[p] = Idle
    BY <2>1, <2>2 DEF Executes, Program
  <2>3. CASE ppu[p] # Idle
    BY <2>3 DEF Executes, IInv
  <2> QED BY <2>2, <2>3
<1>2. i.opD \in Channels
  BY <1>1 DEF Instruction
<1>3. turn' \in 0 .. PpuCount
  BY Constants DEF Turn, Pps, IInv
<1>4. ASSUME op \in BlockOps, i.regA # 1
      PROVE  [i EXCEPT !.regA = @ - 1] \in Instruction
  <2>1. i \in [opF : BlockOps, opD : Channels, noHang : {FALSE},
               regA : 1 .. LoadWords \cup 1 .. MaxWords]
    BY <1>1, <1>4 DEF Instruction, BlockOps, WordOps
  <2>2. i.regA - 1 \in 1 .. LoadWords \cup 1 .. MaxWords
    BY <1>4, <2>1, Constants
  <2> QED BY <2>1, <2>2 DEF Instruction
<1> QED BY <1>1, <1>2, <1>3, <1>4 DEF Done, Busy, IInv

\* The slots as an instruction finds them.
LEMMA StartType ==
    ASSUME IInv, NEW p \in Pps
    PROVE  /\ WordSlots(p) \in [Channels -> Slot]
           /\ \A d \in Channels : Fits(d, WordSlots(p)[d])
           /\ \A d \in Channels \ leftover : Safe(WordSlots(p)[d], tape)
           /\ \A c \in Channels : Fits(c, BlockSlot(p, c))
           /\ \A c \in Channels : /\ Safe(channel[c], tape) => Safe(BlockSlot(p, c), tape)
                                  /\ BlockSlot(p, c).active = channel[c].active
<1>1. \A c \in Channels : LET u == [channel[c] EXCEPT !.delayStatus = 0]
                          IN /\ Fits(c, u) /\ u.active = channel[c].active
                             /\ Safe(channel[c], tape) => Safe(u, tape)
  <2> SUFFICES ASSUME NEW c \in Channels
               PROVE  LET u == [channel[c] EXCEPT !.delayStatus = 0]
                      IN /\ Fits(c, u) /\ u.active = channel[c].active
                         /\ Safe(channel[c], tape) => Safe(u, tape)
    OBVIOUS
  <2>1. Fits(c, channel[c]) /\ channel[c] \in Slot
    BY DEF IInv, ChannelsInv, SlotsInv
  <2>2. [channel[c] EXCEPT !.delayStatus = 0].active = channel[c].active
    BY <2>1 DEF Slot
  <2> QED BY <2>1, <2>2, SlotChanges
<1>2. \A d \in Channels : \/ WordSlots(p)[d] = channel[d]
                          \/ WordSlots(p)[d] = [channel[d] EXCEPT !.delayStatus = 0]
  BY DEF WordSlots, IInv, ChannelsInv
<1>3. WordSlots(p) \in [Channels -> Slot]
  <2>1. activeChannel \in Channels => [channel[activeChannel] EXCEPT !.delayStatus = 0] \in Slot
    BY <1>1 DEF Fits
  <2> QED BY <2>1 DEF WordSlots, IInv, ChannelsInv
<1>4. /\ \A d \in Channels : Fits(d, WordSlots(p)[d])
      /\ \A d \in Channels \ leftover : Safe(WordSlots(p)[d], tape)
  BY <1>1, <1>2 DEF IInv, ChannelsInv, SlotsInv, SafeInv
<1> QED BY <1>1, <1>3, <1>4 DEF BlockSlot, IInv, ChannelsInv, SlotsInv

LEMMA PolledKeeps ==
    ASSUME NEW c \in Channels, NEW s, Fits(c, s),
           tape \in TapeState, dsSequence \in 0 .. PanelWords
    PROVE  Kept(c, s, Polled(s))
  BY IoKeeps, ResultWorld DEF Polled, Kept, Only

\* What no instruction but a deadstart touches.
Typed == turn \in 0 .. PpuCount /\ activeChannel \in Channels
           /\ ppu \in [Pps -> {Idle} \cup Instruction]

LEMMA TookKeeps ==
    ASSUME NEW c \in Channels, NEW s, NEW r, Kept(c, s, r)
    PROVE  Kept(c, s, Took(r))
<1>1. Took(r).slot = Taken(r.slot) /\ Took(r).tape = r.tape
        /\ Took(r).dsSequence = r.dsSequence
  BY DEF Took
<1>2. Fits(c, r.slot)
  BY DEF Kept, World
<1>3. Fits(c, Taken(r.slot)) /\ (Safe(r.slot, r.tape) => Safe(Taken(r.slot), r.tape))
  BY <1>2, SlotChanges
<1> QED BY <1>1, <1>3 DEF Kept, World

LEMMA IANKeeps == ASSUME IInv, NEW p \in Pps, IAN(p) PROVE IInv'
<1> PICK i \in Executes(p, "IAN") : IAN(p)!(i)
  BY DEF IAN
<1> DEFINE slots == WordSlots(p)
           c == i.opD
           r == Polled(slots[c])
<1>1. Typed' /\ c \in Channels
  BY TurnType DEF BlockOps, WordOps, DoneOrBusy, Typed
<1>2. leftover' = leftover
  BY DEF restarts
<1>3. Kept(c, slots[c], r)
  BY <1>1, StartType, PolledKeeps DEF IInv, ChannelsInv
<1>4. CASE channel' = slots /\ UNCHANGED <<devices, history>>
  BY <1>1, <1>2, <1>4, StartType
  DEF devices, IInv, ChannelsInv, SlotsInv, SafeInv, Typed
<1>5. CASE Set(slots, c, r)
  BY <1>1, <1>2, <1>3, <1>5, StartType, OneIo DEF IInv, Typed
<1>6. CASE Set(slots, c, Took(r))
  <2>1. Kept(c, slots[c], Took(r))
    BY <1>1, <1>3, TookKeeps
  <2> QED BY <1>1, <1>2, <1>6, <2>1, StartType, OneIo DEF IInv, Typed
<1> QED BY <1>4, <1>5, <1>6

LEMMA IAMKeeps == ASSUME IInv, NEW p \in Pps, IAM(p) PROVE IInv'
<1> PICK i \in Executes(p, "IAM") : IAM(p)!(i)
  BY DEF IAM
<1> DEFINE c == i.opD
           s == BlockSlot(p, c)
           r == Polled(s)
<1>1. Typed' /\ c \in Channels
  BY TurnType DEF BlockOps, WordOps, Typed
<1>2. leftover' = leftover
  BY DEF restarts
<1>3. /\ Fits(c, s) /\ (Safe(channel[c], tape) => Safe(s, tape))
      /\ s.active = channel[c].active
  BY <1>1, StartType
<1>4. Kept(c, channel[c], r)
  <2>1. Kept(c, s, r)
    BY <1>1, <1>3, PolledKeeps DEF IInv, ChannelsInv
  <2> QED BY <1>3, <2>1 DEF Kept
<1>5. CASE Set(channel, c, r)
  BY <1>1, <1>2, <1>4, <1>5, OneIo DEF IInv, ChannelsInv, SlotsInv, SafeInv, Typed
<1>6. CASE Set(channel, c, Took(r))
  <2>1. Kept(c, channel[c], Took(r))
    BY <1>1, <1>4, TookKeeps
  <2> QED BY <1>1, <1>2, <1>6, <2>1, OneIo
          DEF IInv, ChannelsInv, SlotsInv, SafeInv, Typed
<1>7. CASE ~s.active /\ Set(channel, c, Only(Dropped(s)))
  <2>1. Fits(c, Dropped(s)) /\ (~s.active /\ Safe(s, tape) => Safe(Dropped(s), tape))
    BY <1>1, <1>3, SlotChanges
  <2>2. Kept(c, channel[c], Only(Dropped(s)))
    BY <1>3, <1>7, <2>1, ResultWorld DEF Kept, Only, IInv, ChannelsInv
  <2> QED BY <1>1, <1>2, <1>7, <2>2, OneIo
          DEF IInv, ChannelsInv, SlotsInv, SafeInv, Typed
<1> QED BY <1>5, <1>6, <1>7

LEMMA OANKeeps == ASSUME IInv, NEW p \in Pps, OAN(p) PROVE IInv'
<1> PICK i \in Executes(p, "OAN") : OAN(p)!(i)
  BY DEF OAN
<1> DEFINE slots == WordSlots(p)
           c == i.opD
           s == slots[c]
<1>1. Typed' /\ c \in Channels
  BY TurnType DEF BlockOps, WordOps, DoneOrBusy, Typed
<1>2. leftover' = leftover
  BY DEF restarts
<1>3. Fits(c, s)
  BY <1>1, StartType
<1>4. CASE channel' = slots /\ UNCHANGED <<devices, history>>
  BY <1>1, <1>2, <1>4, StartType
  DEF devices, IInv, ChannelsInv, SlotsInv, SafeInv, Typed
<1>5. CASE Set(slots, c, ChannelIo(s))
  <2>1. Kept(c, s, ChannelIo(s))
    BY <1>1, <1>3, IoKeeps DEF IInv, ChannelsInv
  <2> QED BY <1>1, <1>2, <1>5, <2>1, StartType, OneIo DEF IInv, Typed
<1>6. CASE Set(slots, c, ChannelIo(Fill(s, "pp")))
  <2>1. Fits(c, Fill(s, "pp")) /\ (Safe(s, tape) => Safe(Fill(s, "pp"), tape))
    BY <1>1, <1>3, SlotChanges
  <2>2. Kept(c, Fill(s, "pp"), ChannelIo(Fill(s, "pp")))
    BY <1>1, <2>1, IoKeeps DEF IInv, ChannelsInv
  <2>3. Kept(c, s, ChannelIo(Fill(s, "pp")))
    BY <2>1, <2>2 DEF Kept
  <2> QED BY <1>1, <1>2, <1>6, <2>3, StartType, OneIo DEF IInv, Typed
<1> QED BY <1>4, <1>5, <1>6

LEMMA OAMKeeps == ASSUME IInv, NEW p \in Pps, OAM(p) PROVE IInv'
<1> PICK i \in Executes(p, "OAM") : OAM(p)!(i)
  BY DEF OAM
<1> DEFINE c == i.opD
           s == BlockSlot(p, c)
<1>1. Typed' /\ c \in Channels
  BY TurnType DEF BlockOps, WordOps, Typed
<1>2. leftover' = leftover
  BY DEF restarts
<1>3. /\ Fits(c, s) /\ (Safe(channel[c], tape) => Safe(s, tape))
      /\ s.active = channel[c].active
  BY <1>1, StartType
<1>4. ASSUME NEW u, Fits(c, u), Safe(s, tape) => Safe(u, tape)
      PROVE  Kept(c, channel[c], ChannelIo(u))
  <2>1. Kept(c, u, ChannelIo(u))
    BY <1>1, <1>4, IoKeeps DEF IInv, ChannelsInv
  <2> QED BY <1>3, <1>4, <2>1 DEF Kept
<1>5. CASE Set(channel, c, ChannelIo(s))
  BY <1>1, <1>2, <1>3, <1>4, <1>5, OneIo
  DEF IInv, ChannelsInv, SlotsInv, SafeInv, Typed
<1>6. CASE Set(channel, c, ChannelIo(WordPut(s, i)))
  <2> DEFINE f == Fill(s, "pp")
             n == IF i.regA = 1 THEN 0 ELSE f.delayStatus
             u == WordPut(s, i)
  <2>1. Fits(c, f) /\ (Safe(s, tape) => Safe(f, tape))
    BY <1>1, <1>3, SlotChanges
  <2>2. n \in Nat /\ u = [f EXCEPT !.delayStatus = n]
    BY <2>1 DEF Fits, Slot, WordPut
  <2> HIDE DEF f, n, u
  <2>3. Fits(c, u) /\ (Safe(f, tape) => Safe(u, tape))
    BY <1>1, <2>1, <2>2, SlotChanges
  <2>4. Kept(c, channel[c], ChannelIo(u))
    BY <1>4, <2>1, <2>3
  <2> QED BY <1>1, <1>2, <1>6, <2>4, OneIo
          DEF IInv, ChannelsInv, SlotsInv, SafeInv, Typed, u
<1>7. CASE ~s.active /\ Set(channel, c, Only(Dropped(s)))
  <2>1. Fits(c, Dropped(s)) /\ (~s.active /\ Safe(s, tape) => Safe(Dropped(s), tape))
    BY <1>1, <1>3, SlotChanges
  <2>2. Kept(c, channel[c], Only(Dropped(s)))
    BY <1>3, <1>7, <2>1, ResultWorld DEF Kept, Only, IInv, ChannelsInv
  <2> QED BY <1>1, <1>2, <1>7, <2>2, OneIo
          DEF IInv, ChannelsInv, SlotsInv, SafeInv, Typed
<1> QED BY <1>5, <1>6, <1>7

\* An instruction that changes nothing but a slot.
LEMMA OnlySlot ==
    ASSUME IInv, Typed', NEW c \in Channels, NEW x, Fits(c, x),
           Safe(channel[c], tape) => Safe(x, tape),
           channel' = [channel EXCEPT ![c] = x], UNCHANGED <<devices, restarts>>
    PROVE  IInv'
<1>1. ChannelsInv'
  BY OneSlot DEF devices, restarts, IInv, ChannelsInv, SlotsInv, SafeInv
<1> QED BY <1>1 DEF IInv, Typed

LEMMA ACNKeeps == ASSUME IInv, NEW p \in Pps, ACN(p) PROVE IInv'
<1> PICK i \in Executes(p, "ACN") : ACN(p)!(i)
  BY DEF ACN
<1> DEFINE c == i.opD
           s == channel[c]
<1>1. Typed' /\ c \in Channels
  BY TurnType DEF BlockOps, WordOps, DoneOrBusy, Typed
<1>2. Fits(c, s) /\ s \in Slot
  BY <1>1 DEF IInv, ChannelsInv, SlotsInv
<1>3. CASE UNCHANGED channel
  BY <1>1, <1>3 DEF devices, restarts, IInv, ChannelsInv, SlotsInv, SafeInv, Typed
<1>4. CASE ~s.active /\ ~UNCHANGED channel
  <2> DEFINE n == IF s.ioDevice = "tape" THEN ActivateDelay ELSE s.delayStatus
             x == [s EXCEPT !.active = TRUE, !.delayStatus = n]
  <2>1. channel' = [channel EXCEPT ![c] = x]
    BY <1>1, <1>2, <1>4 DEF IInv, ChannelsInv
  <2>2. n \in Nat
    BY <1>2, Constants DEF Slot
  <2> HIDE DEF n
  <2>3. Fits(c, x) /\ (Safe(s, tape) => Safe(x, tape))
    BY <1>2, <1>4, <2>2 DEF Fits, Slot, Safe
  <2> QED BY <1>1, <2>1, <2>3, OnlySlot
<1> QED BY <1>3, <1>4

LEMMA DCNKeeps == ASSUME IInv, NEW p \in Pps, DCN(p) PROVE IInv'
<1> PICK i \in Executes(p, "DCN") : DCN(p)!(i)
  BY DEF DCN
<1> DEFINE c == i.opD
<1>1. Typed' /\ c \in Channels
  BY TurnType DEF BlockOps, WordOps, DoneOrBusy, Typed
<1>2. Fits(c, channel[c])
  BY <1>1 DEF IInv, ChannelsInv, SlotsInv
<1>3. CASE UNCHANGED channel
  BY <1>1, <1>3 DEF devices, restarts, IInv, ChannelsInv, SlotsInv, SafeInv, Typed
<1>4. CASE channel' = [channel EXCEPT ![c] = Disconnect(channel[c])]
  <2>1. /\ Fits(c, Disconnect(channel[c]))
        /\ Safe(channel[c], tape) => Safe(Disconnect(channel[c]), tape)
    BY <1>1, <1>2, 0 \in Nat, SlotChanges
  <2>2. UNCHANGED <<devices, restarts>>
    OBVIOUS
  <2> QED BY <1>1, <1>4, <2>1, <2>2, OnlySlot
<1> QED BY <1>3, <1>4

\* A function finds no disconnect pending, since its channel is inactive.
LEMMA FNCKeeps == ASSUME IInv, NEW p \in Pps, FNC(p) PROVE IInv'
<1> PICK i \in Executes(p, "FNC") : FNC(p)!(i)
  BY DEF FNC
<1> DEFINE c == i.opD
           s == Empty(channel[c])
<1>1. Typed' /\ c \in Channels
  BY TurnType DEF BlockOps, WordOps, DoneOrBusy, Typed
<1>2. leftover' = leftover /\ dsSequence' = dsSequence
  BY DEF restarts
<1>3. Fits(c, channel[c]) /\ channel[c] \in Slot
  BY <1>1 DEF IInv, ChannelsInv, SlotsInv
<1>4. NoFunction \in TapeState /\ [NoFunction EXCEPT !.recordLength = 0] \in TapeState
  <2>1. tape \in TapeState
    BY DEF IInv, ChannelsInv
  <2>2. 0 \in 0 .. RecordWords
    BY Constants
  <2>3. NoFunction \in TapeState
    BY <2>1 DEF NoFunction, TapeState
  <2> QED BY <2>2, <2>3 DEF TapeState
<1>5. Accepted \subseteq TapeState
  BY Constants DEF Accepted, TapeState, InputFunctions
<1>6. ASSUME NEW d \in {"tape", "none"}, d = "tape" => c = TapeChannel, ~channel[c].active,
             channel' = [channel EXCEPT ![c] = [s EXCEPT !.ioDevice = d]],
             tape' \in TapeState, c # TapeChannel => tape' = tape
      PROVE  IInv'
  <2> DEFINE x == [s EXCEPT !.ioDevice = d]
  <2>1. /\ x \in Slot /\ ~x.full /\ x.data = "none" /\ x.ioDevice = d
        /\ x.delayDisconnect = channel[c].delayDisconnect
        /\ x.discAfterInput = channel[c].discAfterInput
    BY <1>3, <1>6 DEF Slot, Empty
  <2>2. channel' = [channel EXCEPT ![c] = x]
    BY <1>6
  <2> HIDE DEF x
  <2>3. Fits(c, x) /\ (Safe(channel[c], tape) => Safe(x, tape'))
    BY <1>6, <2>1 DEF Fits, Safe
  <2>4. ChannelsInv'
    BY <1>1, <1>2, <1>6, <2>2, <2>3, OneSlot
    DEF IInv, ChannelsInv, SlotsInv, SafeInv
  <2> QED BY <1>1, <2>4 DEF IInv, Typed
<1>7. CASE UNCHANGED <<channel, tape, history>>
  BY <1>1, <1>2, <1>7 DEF IInv, ChannelsInv, SlotsInv, SafeInv, Typed
<1>8. CASE /\ ~channel[c].active
           /\ tape' \in IF c = TapeChannel THEN Accepted ELSE {}
           /\ channel' = [channel EXCEPT ![c] = [s EXCEPT !.ioDevice = "tape"]]
  BY <1>5, <1>6, <1>8
<1>9. CASE /\ ~channel[c].active /\ c = TapeChannel /\ tape' \in Processed
           /\ channel' = [channel EXCEPT ![c] = [s EXCEPT !.ioDevice = "none"]]
  BY <1>4, <1>6, <1>9 DEF Processed
<1>10. CASE /\ ~channel[c].active
            /\ tape' = IF c = TapeChannel THEN NoFunction ELSE tape
            /\ channel' = [channel EXCEPT ![c] = DeclinedSlot(s)]
  <2> DEFINE x == DeclinedSlot(s)
  <2>1. /\ x \in Slot /\ x.full /\ x.data = "stale" /\ x.ioDevice = "none"
        /\ x.delayDisconnect = channel[c].delayDisconnect
        /\ x.discAfterInput = channel[c].discAfterInput
    BY <1>3 DEF Slot, Empty, DeclinedSlot
  <2>2. channel' = [channel EXCEPT ![c] = x]
    BY <1>10
  <2> HIDE DEF x
  <2>3. Fits(c, x) /\ (Safe(channel[c], tape) => Safe(x, tape'))
    BY <1>10, <2>1 DEF Fits, Safe
  <2>4. tape' \in TapeState /\ (c # TapeChannel => tape' = tape)
    BY <1>4, <1>10 DEF IInv, ChannelsInv
  <2>5. ChannelsInv'
    BY <1>1, <1>2, <2>2, <2>3, <2>4, OneSlot
    DEF IInv, ChannelsInv, SlotsInv, SafeInv
  <2> QED BY <1>1, <2>5 DEF IInv, Typed
<1> QED BY <1>7, <1>8, <1>9, <1>10

LEMMA LookingKeeps ==
    ASSUME IInv, NEW p \in Pps, Probe(p) \/ Test(p) \/ Compute(p) PROVE IInv'
<1>1. turn' \in 0 .. PpuCount
  BY Constants DEF Turn, Pps, Probe, Test, Compute
<1>2. CASE Probe(p)
  <2>1. PICK c \in Channels : /\ activeChannel' = c /\ Set(channel, c, ChannelIo(channel[c]))
                              /\ UNCHANGED <<ppu, restarts>>
    BY <1>2 DEF Probe
  <2>2. Kept(c, channel[c], ChannelIo(channel[c]))
    BY IoKeeps DEF IInv, ChannelsInv, SlotsInv
  <2>3. leftover' = leftover
    BY <2>1 DEF restarts
  <2>4. ChannelsInv'
    BY <2>1, <2>2, <2>3, OneIo DEF IInv, ChannelsInv, SlotsInv, SafeInv
  <2> QED BY <1>1, <2>1, <2>4 DEF IInv
<1>3. CASE Test(p) \/ Compute(p)
  BY <1>1, <1>3
  DEF Test, Compute, devices, restarts, IInv, ChannelsInv, SlotsInv, SafeInv
<1> QED BY <1>2, <1>3

LEMMA ChannelStepKeeps == ASSUME IInv, ChannelStep PROVE IInv'
<1>1. leftover' = leftover /\ tape' = tape /\ dsSequence' = dsSequence
  BY DEF ChannelStep, devices, restarts
<1>2. ASSUME NEW c \in Channels
      PROVE  Fits(c, Elapsed(channel[c]))
               /\ (Safe(channel[c], tape) => Safe(Elapsed(channel[c]), tape))
  BY 0 \in Nat, SlotChanges DEF IInv, ChannelsInv, SlotsInv
<1>3. \A c \in Channels : channel'[c] = Elapsed(channel[c])
  BY DEF ChannelStep
<1>4. channel' \in [Channels -> Slot]
  BY <1>2 DEF ChannelStep, Fits
<1>5. ChannelsInv'
  BY <1>1, <1>2, <1>3, <1>4 DEF IInv, ChannelsInv, SlotsInv, SafeInv
<1>6. turn' \in 0 .. PpuCount /\ UNCHANGED <<ppu, activeChannel>>
  BY Constants DEF ChannelStep
<1> QED BY <1>5, <1>6 DEF IInv

\* Deadstart keeps the type of a slot, and makes nothing pending.
LEMMA DeadstartFits ==
    ASSUME NEW c \in Channels, NEW s \in Slot
    PROVE  /\ Fits(c, DeadstartSlot(s, c))
           /\ DeadstartSlot(s, c).delayDisconnect = s.delayDisconnect
           /\ DeadstartSlot(s, c).discAfterInput = s.discAfterInput
<1>1. CASE c = 0
  BY <1>1 DEF Fits, Slot, DeadstartSlot, Fill, TapeChannel
<1>2. CASE c # 0
  BY <1>2 DEF Fits, Slot, DeadstartSlot, Empty
<1> QED BY <1>1, <1>2

LEMMA LoadsTyped == [p \in Pps |-> Load(p)] \in [Pps -> {Idle} \cup Instruction]
<1>1. ASSUME NEW p \in Pps PROVE Load(p) \in Instruction
  BY Constants DEF Load, Instruction, BlockOps
<1> QED BY <1>1

LEMMA DeadstartKeeps == ASSUME IInv, Deadstart PROVE IInv'
<1>1. /\ \A c \in Channels : channel[c] \in Slot
      /\ channel' = [c \in Channels |-> DeadstartSlot(channel[c], c)]
      /\ leftover' = leftover \cup {c \in Channels : Pending(c)}
      /\ tape' = tape /\ dsSequence' = 0 /\ activeChannel' = 0 /\ turn' = turn
  BY DEF IInv, ChannelsInv, Deadstart
<1>2. channel' \in [Channels -> Slot] /\ SlotsInv'
  BY <1>1, DeadstartFits DEF SlotsInv, Fits
<1>3. ASSUME NEW c \in Channels \ leftover' PROVE Safe(channel'[c], tape')
  <2>1. /\ channel'[c].delayDisconnect = channel[c].delayDisconnect
        /\ channel'[c].discAfterInput = channel[c].discAfterInput
    BY <1>1, DeadstartFits
  <2>2. ~(channel[c].delayDisconnect > 0) /\ ~channel[c].discAfterInput
    BY <1>1 DEF Pending
  <2> QED BY <2>1, <2>2 DEF Safe
<1>4. ChannelsInv'
  BY <1>1, <1>2, <1>3, Constants DEF ChannelsInv, SafeInv, IInv
<1>5. ppu' \in [Pps -> {Idle} \cup Instruction]
  BY LoadsTyped DEF Deadstart
<1> QED BY <1>1, <1>4, <1>5, Constants DEF IInv

LEMMA InitIInv == Init => IInv
<1> SUFFICES ASSUME Init PROVE IInv
  OBVIOUS
<1>1. NewSlot \in Slot
  BY Constants DEF NewSlot, Slot
<1>2. ASSUME NEW c \in Channels PROVE Fits(c, channel[c]) /\ Safe(channel[c], tape)
  <2>1. channel[c] = DeadstartSlot(NewSlot, c)
    BY DEF Init
  <2>2. channel[c].delayDisconnect = 0 /\ ~channel[c].discAfterInput
    BY <1>1, <2>1, DeadstartFits DEF NewSlot
  <2> QED BY <1>1, <2>1, <2>2, DeadstartFits DEF Safe
<1>3. channel \in [Channels -> Slot]
  BY <1>1, DeadstartFits DEF Init, Fits
<1>4. tape \in TapeState /\ dsSequence \in 0 .. PanelWords
  BY Constants DEF Init, TapeState
<1>5. ppu \in [Pps -> {Idle} \cup Instruction]
  BY LoadsTyped DEF Init
<1>6. turn \in 0 .. PpuCount /\ activeChannel \in Channels
  BY Constants DEF Init
<1> QED BY <1>2, <1>3, <1>4, <1>5, <1>6 DEF IInv, ChannelsInv, SlotsInv, SafeInv

LEMMA Inductive == IInv /\ [Next]_vars => IInv'
<1> SUFFICES ASSUME IInv, [Next]_vars PROVE IInv'
  OBVIOUS
<1>1. CASE Deadstart
  BY <1>1, DeadstartKeeps
<1>2. CASE ChannelStep
  BY <1>2, ChannelStepKeeps
<1>3. ASSUME NEW p \in Pps, IAN(p) \/ IAM(p) \/ OAN(p) \/ OAM(p) PROVE IInv'
  BY <1>3, IANKeeps, IAMKeeps, OANKeeps, OAMKeeps
<1>4. ASSUME NEW p \in Pps, ACN(p) \/ DCN(p) \/ FNC(p) PROVE IInv'
  BY <1>4, ACNKeeps, DCNKeeps, FNCKeeps
<1>5. ASSUME NEW p \in Pps, Probe(p) \/ Test(p) \/ Compute(p) PROVE IInv'
  BY <1>5, LookingKeeps
<1>6. CASE UNCHANGED vars
  BY <1>6 DEF vars, devices, restarts, IInv, ChannelsInv, SlotsInv, SafeInv
<1> QED BY <1>1, <1>2, <1>3, <1>4, <1>5, <1>6 DEF Next

-----------------------------------------------------------------------------
(* The theorems.                                                           *)

\* The inductive invariant holds in every reachable state: the devices are where
\* they belong, and every pending disconnect was asked for by the function the
\* tape is still busy with.
THEOREM Invariance == Spec => []IInv
  BY InitIInv, Inductive, PTL DEF Spec

\* For any number of PPs, channels, words and rounds of delay the state has its
\* types: a delay never counts past zero and a word is in a channel exactly when
\* it is full (channel.c, pp.c 1848..2299).
THEOREM TypeCorrect == Spec => []TypeOK
<1>1. IInv => TypeOK
  BY DEF IInv, ChannelsInv, SlotsInv, Fits, TypeOK
<1> QED BY <1>1, Invariance, PTL

\* Until a deadstart leaves one behind, a pending disconnect is always that of the
\* transfer its channel is active for, however the PPs interleave (channel.c,
\* pp.c, mt679.c).
THEOREM DisconnectsHaveOwners == Spec => []PendingDisconnectHasOwner
<1>1. IInv => PendingDisconnectHasOwner
  BY DEF IInv, ChannelsInv, SafeInv, Safe, PendingDisconnectHasOwner, Pending
<1> QED BY <1>1, Invariance, PTL
=============================================================================
