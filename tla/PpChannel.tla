----------------------------- MODULE PpChannel ------------------------------
(***************************************************************************)
(* Data channels and the peripheral processors that use them: the channel  *)
(* instructions of pp.c (064..077), channel.c, the deadstart of            *)
(* deadstart.c, and as the device the tape controller of mt679.c, whose    *)
(* transfers two PPs may watch and share.                                  *)
(*                                                                         *)
(* One thread runs everything: PP by PP, one step of an instruction each,  *)
(* then channelStep; `turn` says who is next.  What a PP's program asks    *)
(* for is arbitrary.  A channel word counts by its origin only.  Channels  *)
(* are normal ones: no clock, interlock, status, maintenance or PCI.       *)
(***************************************************************************)
EXTENDS Integers

CONSTANTS PpuCount, ChannelCount,
          RecordWords,       \* longest tape record and status, in words
          MaxPpBuf,          \* words the tape's write buffer holds
          MaxWords,          \* longest transfer that a PP's program asks for
          StatusDelay,       \* mt679Io: 3 rounds between changes of full
          ActivateDelay,     \* mt679Activate: 5 rounds
          DisconnectDelay,   \* mt679Io: 10 rounds from the last word to inactive
          PanelWords,        \* deadstartCount
          LoadWords,         \* word count of a deadstart load: 010000
          MaxDeadstarts      \* bound: deadstarts after the first

ASSUME SizeAssumption == /\ PpuCount \in Nat \ {0, 1} /\ ChannelCount \in Nat
                         /\ PpuCount <= ChannelCount
ASSUME BoundAssumption == /\ {RecordWords, MaxPpBuf, MaxWords} \subseteq Nat \ {0}
                          /\ {PanelWords, LoadWords, MaxDeadstarts} \subseteq Nat
                          /\ LoadWords > PanelWords + 1
ASSUME DelayAssumption == /\ {StatusDelay, ActivateDelay} \subseteq Nat \ {0}
                          /\ DisconnectDelay \in Nat \ {0, 1}

VARIABLES turn,           \* whose step it is: a PP, or PpuCount for channelStep
          ppu,            \* the channel instruction each PP is busy with
          activeChannel,  \* the global variable: the channel used last
          channel,        \* the channel slots
          tape,           \* the tape controller
          dsSequence,     \* the deadstart panel's next word
          owed,           \* history: words a device has still to give the PPs
          offered,        \* history: words PPs have put and not taken back
          deadstarts, leftover  \* history: channels deadstarted with a
                                \* disconnect pending

history == <<owed, offered>>
devices == <<tape, dsSequence>>
restarts == <<deadstarts, leftover>>
vars == <<turn, ppu, activeChannel, channel, devices, history, restarts>>

Pps == 0 .. PpuCount - 1
Channels == 0 .. ChannelCount - 1
TapeChannel == 1

BlockOps == {"IAM", "OAM"}
WordOps == {"IAN", "OAN", "ACN", "DCN", "FNC"}
InputFunctions == {"read", "readBkw", "status"}

Slot == [active : BOOLEAN, full : BOOLEAN, ioDevice : {"none", "tape", "panel"},
         data : {"none", "pp", "tape", "panel", "stale"},  \* "none" when empty
         discAfterInput : BOOLEAN, delayDisconnect : 0 .. DisconnectDelay,
         delayStatus : Nat]

TapeState == [fcode : InputFunctions \cup {"write", "none"},
              recordLength : 0 .. RecordWords \cup 0 .. MaxPpBuf]

\* regA is the word count of a block transfer and 0 otherwise.
Idle == [opF |-> "idle", opD |-> 0, noHang |-> FALSE, regA |-> 0]
Program(op) ==
    IF op \in BlockOps
    THEN [opF : {op}, opD : Channels, noHang : {FALSE}, regA : 1 .. MaxWords]
    ELSE [opF : {op}, opD : Channels, noHang : BOOLEAN, regA : {0}]
Load(p) == [opF |-> "IAM", opD |-> p, noHang |-> FALSE, regA |-> LoadWords]

Fill(s, word) == [s EXCEPT !.full = TRUE, !.data = word]
Empty(s) == [s EXCEPT !.full = FALSE, !.data = "none"]

-----------------------------------------------------------------------------
(* Deadstart: every PP inputs from its own channel, PP 0 from the panel.   *)

Pending(c) == channel[c].delayDisconnect > 0 \/ channel[c].discAfterInput

DeadstartSlot(s, c) ==
    IF c = 0 THEN Fill([s EXCEPT !.active = TRUE, !.ioDevice = "panel"], "panel")
             ELSE Empty([s EXCEPT !.active = TRUE, !.ioDevice = "none"])

NewSlot == [active |-> FALSE, full |-> FALSE, ioDevice |-> "none", data |-> "none",
            discAfterInput |-> FALSE, delayDisconnect |-> 0, delayStatus |-> 0]

FirstOwed == [c \in Channels |-> IF c = 0 THEN PanelWords + 1 ELSE 0]

Init == /\ turn = 0 /\ activeChannel = 0 /\ dsSequence = 0
        /\ ppu = [p \in Pps |-> Load(p)]
        /\ channel = [c \in Channels |-> DeadstartSlot(NewSlot, c)]
        /\ tape = [fcode |-> "none", recordLength |-> 0]
        /\ owed = FirstOwed /\ offered = [c \in Channels |-> 0]
        /\ deadstarts = 0 /\ leftover = {}

DeadstartKeepingSequence ==  \* mutation: the panel goes on where it was
    /\ turn = 0 /\ deadstarts < MaxDeadstarts /\ deadstarts' = deadstarts + 1
    /\ ppu' = [p \in Pps |-> Load(p)] /\ activeChannel' = 0
    /\ channel' = [c \in Channels |-> DeadstartSlot(channel[c], c)]
    /\ leftover' = leftover \cup {c \in Channels : Pending(c)}
    /\ owed' = FirstOwed /\ offered' = [c \in Channels |-> 0]
    /\ UNCHANGED <<turn, devices>>

Deadstart == /\ turn = 0
             /\ deadstarts < MaxDeadstarts /\ deadstarts' = deadstarts + 1
             /\ ppu' = [p \in Pps |-> Load(p)]
             /\ activeChannel' = 0 /\ dsSequence' = 0
             /\ channel' = [c \in Channels |-> DeadstartSlot(channel[c], c)]
             /\ leftover' = leftover \cup {c \in Channels : Pending(c)}
             /\ owed' = FirstOwed /\ offered' = [c \in Channels |-> 0]
             /\ UNCHANGED <<turn, tape>>

-----------------------------------------------------------------------------
(* The devices.  What an input or output does to slot s, to the tape and   *)
(* to the panel is one record.                                             *)

Result(s, t) == [slot |-> s, tape |-> t, dsSequence |-> dsSequence]
Only(s) == Result(s, tape)

PanelIo(s) ==
    CASE s.full -> Only(s)
      [] ~s.full /\ dsSequence >= PanelWords -> Only([s EXCEPT !.active = FALSE])
      [] ~s.full /\ dsSequence < PanelWords ->
             [slot |-> Fill(s, "panel"), tape |-> tape, dsSequence |-> dsSequence + 1]

Last == tape.recordLength = 1
Shorter == [tape EXCEPT !.recordLength = @ - 1]

ReadFwdAtOnce(s) ==  \* mutation: the disconnect is not delayed long enough
    CASE s.full -> Only(s)
      [] ~s.full /\ tape.recordLength = 0 ->
             Only([s EXCEPT !.active = FALSE, !.delayDisconnect = 0])
      [] ~s.full /\ tape.recordLength > 0 ->
             Result([Fill(s, "tape") EXCEPT !.delayDisconnect = IF Last THEN 1 ELSE @],
                    Shorter)

ReadFwdOfNothing(s) ==  \* mutation: an empty record does not end the transfer
    IF s.full \/ tape.recordLength = 0 THEN Only(s)
    ELSE Result([Fill(s, "tape") EXCEPT !.delayDisconnect =
                     IF Last THEN DisconnectDelay ELSE @], Shorter)

\* The next word of the record; the last one starts the delayed disconnect.
ReadFwd(s) ==
    CASE s.full -> Only(s)
      [] ~s.full /\ tape.recordLength = 0 ->
             Only([s EXCEPT !.active = FALSE, !.delayDisconnect = 0])
      [] ~s.full /\ tape.recordLength > 0 ->
             Result([Fill(s, "tape") EXCEPT !.delayDisconnect =
                         IF Last THEN DisconnectDelay ELSE @], Shorter)

ReadBkw(s) ==
    CASE s.full -> Only(s)
      [] ~s.full /\ tape.recordLength = 0 -> Only([s EXCEPT !.active = FALSE])
      [] ~s.full /\ tape.recordLength > 0 ->
             Result([Fill(s, "tape") EXCEPT !.discAfterInput = @ \/ Last], Shorter)

GeneralStatus(s) ==
    IF s.full \/ tape.recordLength = 0 THEN Only(s)
    ELSE Result([Fill(s, "tape") EXCEPT !.discAfterInput = @ \/ Last],
                [Shorter EXCEPT !.fcode = IF Last THEN "none" ELSE @])

WriteBeyondBuffer(s) ==  \* mutation: a word the buffer has no room for is dropped
    IF s.full THEN Result(Empty(s), [tape EXCEPT !.recordLength =
                                         IF @ < MaxPpBuf THEN @ + 1 ELSE @])
              ELSE Only(s)

Write(s) == IF s.full /\ tape.recordLength < MaxPpBuf
            THEN Result(Empty(s), [tape EXCEPT !.recordLength = @ + 1])
            ELSE Only(s)

TapeIo(s) ==
    LET t == [s EXCEPT !.delayStatus = StatusDelay]
    IN CASE s.delayStatus # 0 -> Only(s)
         [] s.delayStatus = 0 /\ tape.fcode = "read" -> ReadFwd(t)
         [] s.delayStatus = 0 /\ tape.fcode = "readBkw" -> ReadBkw(t)
         [] s.delayStatus = 0 /\ tape.fcode = "status" -> GeneralStatus(t)
         [] s.delayStatus = 0 /\ tape.fcode = "write" -> Write(t)
         [] s.delayStatus = 0 /\ tape.fcode = "none" -> Only(t)

ChannelIo(s) == CASE s.active /\ s.ioDevice = "tape" -> TapeIo(s)
                  [] s.active /\ s.ioDevice = "panel" -> PanelIo(s)
                  [] ~s.active \/ s.ioDevice = "none" -> Only(s)

-----------------------------------------------------------------------------
(* A PP's turn: it starts an instruction or goes on with the one it is in. *)

Executes(p, op) == IF ppu[p] = Idle THEN Program(op)
                                    ELSE {i \in {ppu[p]} : i.opF = op}
Turn(p) == turn = p /\ turn' = turn + 1
Done(p) == ppu' = [ppu EXCEPT ![p] = Idle]
Busy(p, i) == ppu' = [ppu EXCEPT ![p] = i]
DoneOrBusy(p, i) == IF i.noHang THEN Done(p) ELSE Busy(p, i)

\* Slot c and the devices after r; slots is what the other slots are.
Set(slots, c, r) == /\ channel' = [slots EXCEPT ![c] = r.slot]
                    /\ tape' = r.tape /\ dsSequence' = r.dsSequence

One(condition) == IF condition THEN 1 ELSE 0

\* A word that ends up with a PP is no longer owed or offered; a word a PP
\* puts is offered until the channel's device changes.
TookFrom(c, s) ==
    /\ owed' = [owed EXCEPT ![c] = @ - One(s.data \in {"tape", "panel"})]
    /\ offered' = [offered EXCEPT ![c] = IF s.discAfterInput THEN 0
                                         ELSE @ - One(s.data = "pp")]
PutOn(c, number) == offered' = [offered EXCEPT ![c] = @ + number] /\ UNCHANGED owed
Forgotten(c) == owed' = [owed EXCEPT ![c] = 0] /\ offered' = [offered EXCEPT ![c] = 0]

TakenWithoutEmptying(s) == s  \* mutation

\* The word leaves the channel, and with the last one so does the device.
Taken(s) == IF s.discAfterInput
            THEN [Empty(s) EXCEPT !.active = FALSE, !.ioDevice = "none",
                                  !.discAfterInput = FALSE, !.delayDisconnect = 0]
            ELSE Empty(s)

\* An input takes the word that is in the channel now.
Took(r) == [slot |-> Taken(r.slot), tape |-> r.tape, dsSequence |-> r.dsSequence]

\* A block transfer that finds its channel inactive.
Dropped(s) == [Empty(s) EXCEPT !.ioDevice = "none"]

\* An input asks the device for a word unless there is one.
Polled(s) == IF s.full THEN Only(s) ELSE ChannelIo(s)

\* IAN and OAN, when they start, end the delay of the channel used last.
WordSlots(p) == IF ppu[p] = Idle
                THEN [channel EXCEPT ![activeChannel].delayStatus = 0]
                ELSE channel
\* IAM and OAM end the delay of their own channel.
BlockSlot(p, c) == IF ppu[p] = Idle
                   THEN [channel[c] EXCEPT !.delayStatus = 0]
                   ELSE channel[c]

IAN(p) == \E i \in Executes(p, "IAN") :
    LET slots == WordSlots(p)
        s == slots[i.opD]
        r == Polled(s)
    IN /\ Turn(p) /\ activeChannel' = i.opD /\ UNCHANGED restarts
       /\ \/ /\ ~s.active /\ DoneOrBusy(p, i) /\ channel' = slots
             /\ UNCHANGED <<devices, history>>
          \/ /\ s.active /\ ~r.slot.full /\ Busy(p, i) /\ Set(slots, i.opD, r)
             /\ UNCHANGED history
          \/ /\ s.active /\ r.slot.full /\ Done(p)
             /\ Set(slots, i.opD, Took(r))
             /\ TookFrom(i.opD, r.slot)

IAM(p) == \E i \in Executes(p, "IAM") :
    LET s == BlockSlot(p, i.opD)
        r == Polled(s)
    IN /\ Turn(p) /\ activeChannel' = i.opD /\ UNCHANGED restarts
       /\ \/ /\ ~s.active /\ Done(p) /\ Forgotten(i.opD)
             /\ Set(channel, i.opD, Only(Dropped(s)))
          \/ /\ s.active /\ ~r.slot.full /\ Busy(p, i) /\ Set(channel, i.opD, r)
             /\ UNCHANGED history
          \/ /\ s.active /\ r.slot.full
             /\ Set(channel, i.opD, Took(r))
             /\ TookFrom(i.opD, r.slot)
             /\ IF i.regA = 1 \/ r.slot.discAfterInput
                THEN Done(p) ELSE Busy(p, [i EXCEPT !.regA = @ - 1])

OAN(p) == \E i \in Executes(p, "OAN") :
    LET slots == WordSlots(p)
        s == slots[i.opD]
    IN /\ Turn(p) /\ activeChannel' = i.opD /\ UNCHANGED restarts
       /\ \/ /\ ~s.active /\ DoneOrBusy(p, i) /\ channel' = slots
             /\ UNCHANGED <<devices, history>>
          \/ /\ s.active /\ s.full /\ Busy(p, i)
             /\ Set(slots, i.opD, ChannelIo(s)) /\ UNCHANGED history
          \/ /\ s.active /\ ~s.full /\ Done(p) /\ PutOn(i.opD, 1)
             /\ Set(slots, i.opD, ChannelIo(Fill(s, "pp")))

LastWordDelayed(s, i) == Fill(s, "pp")  \* mutation: delayStatus is left alone

\* The word put; with the last one the device must not delay any more.
WordPut(s, i) == [Fill(s, "pp") EXCEPT !.delayStatus = IF i.regA = 1 THEN 0 ELSE @]

OAM(p) == \E i \in Executes(p, "OAM") :
    LET s == BlockSlot(p, i.opD)
    IN /\ Turn(p) /\ activeChannel' = i.opD /\ UNCHANGED restarts
       /\ \/ /\ ~s.active /\ Done(p) /\ Forgotten(i.opD)
             /\ Set(channel, i.opD, Only(Dropped(s)))
          \/ /\ s.active /\ s.full /\ Busy(p, i)
             /\ Set(channel, i.opD, ChannelIo(s)) /\ UNCHANGED history
          \/ /\ s.active /\ ~s.full /\ PutOn(i.opD, 1)
             /\ Set(channel, i.opD, ChannelIo(WordPut(s, i)))
             /\ IF i.regA = 1 THEN Done(p) ELSE Busy(p, [i EXCEPT !.regA = @ - 1])

ACN(p) == \E i \in Executes(p, "ACN") :
    LET s == channel[i.opD]
    IN /\ Turn(p) /\ activeChannel' = i.opD /\ UNCHANGED <<restarts, devices, history>>
       /\ \/ s.active /\ DoneOrBusy(p, i) /\ UNCHANGED channel
          \/ /\ ~s.active /\ Done(p)
             /\ channel' = [channel EXCEPT ![i.opD].active = TRUE,
                    ![i.opD].delayStatus = IF s.ioDevice = "tape"
                                           THEN ActivateDelay ELSE @]

DisconnectKeepingDelay(s) ==  \* mutation: a pending disconnect stays
    CASE s.ioDevice = "tape" -> [s EXCEPT !.active = FALSE, !.discAfterInput = FALSE]
      [] s.ioDevice = "panel" -> [s EXCEPT !.active = FALSE]
      [] s.ioDevice = "none" -> Empty([s EXCEPT !.active = FALSE])

\* The tape gives up a disconnect it had in mind; without a device the channel
\* becomes empty.
Disconnect(s) ==
    CASE s.ioDevice = "tape" -> [s EXCEPT !.active = FALSE, !.delayDisconnect = 0,
                                          !.discAfterInput = FALSE]
      [] s.ioDevice = "panel" -> [s EXCEPT !.active = FALSE]
      [] s.ioDevice = "none" -> Empty([s EXCEPT !.active = FALSE])

DCN(p) == \E i \in Executes(p, "DCN") :
    LET c == i.opD
        s == channel[c]
    IN /\ Turn(p) /\ activeChannel' = c /\ UNCHANGED <<restarts, devices, owed>>
       /\ \/ ~s.active /\ DoneOrBusy(p, i) /\ UNCHANGED <<channel, offered>>
          \/ /\ s.active /\ Done(p)
             /\ channel' = [channel EXCEPT ![c] = Disconnect(s)]
             /\ offered' = [offered EXCEPT ![c] =
                                IF s.ioDevice = "none" THEN 0 ELSE @]

\* What mt679Func may leave of the tape when it does not, and when it does accept
\* a function for input or output.  (A record written before goes to the file.)
NoFunction == [tape EXCEPT !.fcode = "none"]
Processed == {NoFunction, [NoFunction EXCEPT !.recordLength = 0]}
Accepted == [fcode : {"read", "readBkw"}, recordLength : 0 .. RecordWords]
              \cup [fcode : {"status"}, recordLength : 1 .. RecordWords]
              \cup [fcode : {"write"}, recordLength : {0}]

\* A channel whose function nobody accepted is active and full, with no device.
DeclinedSlot(s) == [s EXCEPT !.active = TRUE, !.full = TRUE, !.ioDevice = "none",
                             !.data = "stale"]

FNC(p) == \E i \in Executes(p, "FNC") :
    LET c == i.opD
        s == Empty(channel[c])
        functions == IF c = TapeChannel THEN Accepted ELSE {}
    IN /\ Turn(p) /\ activeChannel' = c /\ UNCHANGED <<restarts, dsSequence>>
       /\ \/ /\ channel[c].active /\ DoneOrBusy(p, i)
             /\ UNCHANGED <<channel, tape, history>>
          \/ /\ ~channel[c].active /\ Done(p) /\ tape' \in functions
             /\ channel' = [channel EXCEPT ![c] = [s EXCEPT !.ioDevice = "tape"]]
             /\ owed' = [owed EXCEPT ![c] = tape'.recordLength]
             /\ offered' = [offered EXCEPT ![c] = 0]
          \/ /\ ~channel[c].active /\ Done(p) /\ Forgotten(c)
             /\ c = TapeChannel /\ tape' \in Processed
             /\ channel' = [channel EXCEPT ![c] = [s EXCEPT !.ioDevice = "none"]]
          \/ /\ ~channel[c].active /\ Done(p) /\ Forgotten(c)
             /\ tape' = IF c = TapeChannel THEN NoFunction ELSE tape
             /\ channel' = [channel EXCEPT ![c] = DeclinedSlot(s)]

\* FJM and EJM ask the device before they look; AJM and IJM only look.
Probe(p) == \E c \in Channels :
    /\ ppu[p] = Idle /\ Turn(p) /\ activeChannel' = c
    /\ Set(channel, c, ChannelIo(channel[c])) /\ UNCHANGED <<ppu, history, restarts>>

Test(p) == \E c \in Channels :
    /\ ppu[p] = Idle /\ Turn(p) /\ activeChannel' = c
    /\ UNCHANGED <<ppu, channel, devices, history, restarts>>

\* Any instruction that has nothing to do with channels.
Compute(p) == /\ ppu[p] = Idle /\ Turn(p)
              /\ UNCHANGED <<ppu, activeChannel, channel, devices, history, restarts>>

-----------------------------------------------------------------------------
(* The end of a round: delayed disconnects and delays of the status.       *)

Elapsed(s) == [s EXCEPT !.active = @ /\ s.delayDisconnect # 1,
                        !.discAfterInput = @ /\ s.delayDisconnect # 1,
                        !.delayDisconnect = IF @ = 0 THEN 0 ELSE @ - 1,
                        !.delayStatus = IF @ = 0 THEN 0 ELSE @ - 1]

ChannelStep == /\ turn = PpuCount /\ turn' = 0
               /\ channel' = [c \in Channels |-> Elapsed(channel[c])]
               /\ UNCHANGED <<ppu, activeChannel, devices, history, restarts>>

Next == \/ Deadstart
        \/ ChannelStep
        \/ \E p \in Pps : \/ IAN(p) \/ IAM(p) \/ OAN(p) \/ OAM(p)
                          \/ ACN(p) \/ DCN(p) \/ FNC(p)
                          \/ Probe(p) \/ Test(p) \/ Compute(p)

Spec == Init /\ [][Next]_vars

\* One thread runs the machine, and it always goes on.
FairSpec == Spec /\ WF_vars(Next)

-----------------------------------------------------------------------------
(* Properties.                                                             *)

Instruction == [opF : BlockOps, opD : Channels, noHang : {FALSE},
                regA : 1 .. LoadWords \cup 1 .. MaxWords]
          \cup [opF : WordOps, opD : Channels, noHang : BOOLEAN, regA : {0}]

\* The types; in particular a delay never counts past zero, and a word is in a
\* channel exactly when it is full.
TypeOK ==
    /\ turn \in 0 .. PpuCount /\ activeChannel \in Channels
    /\ ppu \in [Pps -> {Idle} \cup Instruction]
    /\ channel \in [Channels -> Slot]
    /\ \A c \in Channels : channel[c].full <=> channel[c].data # "none"
    /\ tape \in TapeState /\ dsSequence \in 0 .. PanelWords

InChannel(c, origin) == One(channel[c].full /\ channel[c].data = origin)

\* Whatever PPs do, a disconnect is pending only on an active channel whose
\* device has asked for it, and so can never strike a later transfer: every way
\* in which a transfer ends takes its delayDisconnect and discAfterInput along
\* (pp.c, channel.c, mt679.c).  A deadstart does not (deadstart.c:104-115).
PendingDisconnectHasOwner ==
    \A c \in Channels \ leftover :
        Pending(c) => channel[c].active /\ channel[c].ioDevice = "tape"

\* Every word of a record, of a status and of the deadstart panel is with the
\* device, in the channel or with a PP, and with no two of them, although any
\* PP may take a word or have the device put one (mt679.c:1544, deadstart.c:227).
InputConserved ==
    /\ channel[TapeChannel].ioDevice = "tape" /\ tape.fcode \in InputFunctions
         => owed[TapeChannel] = tape.recordLength + InChannel(TapeChannel, "tape")
    /\ channel[0].ioDevice = "panel"
         => owed[0] = PanelWords - dsSequence + InChannel(0, "panel")

Written(c) == IF channel[c].ioDevice = "tape" /\ tape.fcode = "write"
              THEN tape.recordLength ELSE 0

\* What PPs have put on a channel since its function and not taken back is in
\* the tape's write buffer or, one word, in the channel: no PP overwrites a word
\* of another, or its own (pp.c:2066-2178).
OutputConserved ==
    \A c \in Channels : offered[c] = Written(c) + InChannel(c, "pp")

\* A block output that has put its last word leaves it with the tape and not in
\* the channel, which the PP may disconnect next ("ensure last byte is written",
\* pp.c:2171).
LastWordReachesTape ==
    [][\A p \in Pps :
          (/\ OAM(p) /\ activeChannel' = TapeChannel /\ ppu'[p] = Idle
           /\ channel[TapeChannel].active /\ channel[TapeChannel].ioDevice = "tape"
           /\ tape.fcode = "write" /\ tape.recordLength < MaxPpBuf)
          => ~channel'[TapeChannel].full]_vars

\* A delayed disconnect never takes the last word from a PP that waits for it
\* in a block input, also when another PP's FJM made the tape put it there
\* (mt679.c:1717-1723).
NoInputLostByDisconnect ==
    [][\A c \in Channels \ leftover :
          (turn = PpuCount /\ channel[c].active /\ ~channel'[c].active
             /\ InChannel(c, "tape") = 1)
          => \A p \in Pps : ~(ppu[p].opF = "IAM" /\ ppu[p].opD = c)]_vars

\* The load of PP 0 ends only in a turn that finds the whole deadstart panel
\* taken, after a second deadstart too (deadstart.c:143-199).
PanelLoaded ==
    [][(/\ leftover = {} /\ ppu[0].opF = "IAM" /\ ppu[0].opD = 0
        /\ channel[0].ioDevice = "panel" /\ ppu'[0] = Idle)
       => owed[0] = 0]_vars

Transferring(p) ==
    /\ ppu[p].opD = TapeChannel /\ channel[TapeChannel].ioDevice = "tape"
    /\ \/ ppu[p].opF = "IAM" /\ tape.fcode \in InputFunctions
       \/ /\ ppu[p].opF = "OAM" /\ tape.fcode = "write"
          /\ tape.recordLength < MaxPpBuf

Activated == channel'[TapeChannel].active /\ ~channel[TapeChannel].active

\* A block transfer with the tape comes to an end, by its count or by a
\* disconnect, unless somebody activates the channel again and again.
TransferEnds == \A p \in Pps : []<>~Transferring(p) \/ []<><<Activated>>_vars
=============================================================================
