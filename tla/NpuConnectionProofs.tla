------------------------- MODULE NpuConnectionProofs -------------------------
(***************************************************************************)
(* Proofs about NpuConnection, for any number of ports, connection numbers *)
(* and resets, any window and any length of the queues.  Each part rests on *)
(* the ones before: the terminal a port remembers is in use, and its own;  *)
(* type correctness; which messages of a connection may be on the way in   *)
(* each state of its ends, and in what order, so that no end gets one it   *)
(* does not expect and both agree when none is on the way; a port with a   *)
(* connection has one terminal, or its configuration is on the way; and    *)
(* every block the host waits for is in one place, in its turn.            *)
(***************************************************************************)
EXTENDS NpuConnection, WellFoundedInduction, SequenceTheorems,
        FiniteSetTheorems, TLAPS

USE PortsAssumption, CnsAssumption DEF Ports, Cns, Nobody, TermStates

\* The types of what ties ports and terminals together.
TiesOK == /\ asyncTp \in [Ports -> Cns \cup {Nobody}]
          /\ termState \in [Cns -> TermStates] /\ pcbp \in [Cns -> Ports \cup {Nobody}]
          /\ resetting \in BOOLEAN

\* While a reset is under way no port remembers a terminal: the second step makes
\* every terminal idle.
ForgottenInReset == resetting => \A p \in Ports : asyncTp[p] = Nobody

\* A terminal in use refers to a port.
HasPort == \A cn \in Cns : termState[cn] # "Idle" => pcbp[cn] # Nobody

IInv == TiesOK /\ RemembersLiveTerminal /\ ForgottenInReset /\ HasPort

ties == <<asyncTp, termState, pcbp, resetting>>

-----------------------------------------------------------------------------
(* The least of some numbers.                                              *)

LessThan == {ss \in Nat \X Nat : ss[1] < ss[2]}

LEMMA LessThanIsWellFounded == IsWellFoundedOn(LessThan, Nat)
<1>1. OpToRel(<, Nat) = LessThan
  BY Zenon DEF OpToRel, LessThan
<1> QED BY <1>1, NatLessThanWellFounded, Zenon

LEMMA LeastOf ==
    ASSUME NEW S, S \subseteq Nat, S # {}
    PROVE  \E n \in S : \A m \in S : n <= m
<1>1. PICK n \in S : \A m \in S : ~(<<m, n>> \in LessThan)
  BY LessThanIsWellFounded, WFMin
<1>2. ASSUME NEW m \in S PROVE n <= m
  <2>1. m \in Nat /\ n \in Nat
    OBVIOUS
  <2>2. m < n => <<m, n>> \in LessThan
    BY <2>1 DEF LessThan
  <2> QED BY <1>1, <2>1, <2>2
<1> QED BY <1>2

LEMMA MinIsOne ==
    ASSUME NEW S, S \subseteq Nat, S # {}
    PROVE  Min(S) \in S
  BY LeastOf DEF Min

-----------------------------------------------------------------------------
(* Sequences are built element by element, and so are the elements of a   *)
(* sequence that Selected takes.                                           *)

LEMMA InductionInNat ==
    ASSUME NEW S, 0 \in S, \A n \in Nat : n \in S => n + 1 \in S
    PROVE  Nat \subseteq S
<1> SUFFICES ASSUME Nat \ S # {} PROVE FALSE
  OBVIOUS
<1>1. PICK n \in Nat \ S : \A m \in Nat \ S : n <= m
  BY LeastOf
<1>2. n # 0 /\ n - 1 \in Nat
  BY <1>1
<1>3. n - 1 \in S
  BY <1>1, <1>2
<1> QED BY <1>1, <1>2, <1>3

LEMMA InductionOnSequences ==
    ASSUME NEW T, NEW X, <<>> \in X,
           \A s \in Seq(T) : \A e \in T : s \in X => Append(s, e) \in X
    PROVE  Seq(T) \subseteq X
<1> DEFINE S == {n \in Nat : \A s \in Seq(T) : Len(s) = n => s \in X}
<1>1. 0 \in S
  <2>1. ASSUME NEW s \in Seq(T), Len(s) = 0 PROVE s \in X
    BY <2>1
  <2> QED BY <2>1
<1>2. ASSUME NEW n \in Nat, n \in S PROVE n + 1 \in S
  <2>1. ASSUME NEW s \in Seq(T), Len(s) = n + 1 PROVE s \in X
    <3> DEFINE front == SubSeq(s, 1, n)
    <3>1. front \in Seq(T) /\ Len(front) = n /\ s[n + 1] \in T
      BY <2>1
    <3>2. s = Append(front, s[n + 1])
      BY <2>1, <3>1
    <3>3. front \in X
      BY <1>2, <3>1
    <3> QED BY <3>1, <3>2, <3>3
  <2> QED BY <2>1
<1>3. Nat \subseteq S
  BY <1>1, <1>2, InductionInNat
<1> QED BY <1>3

\* g counts through sequence s, as the recursion of Selected does.
Selects(g, s, S, n) ==
    g = [i \in 0 .. n |->
            IF i = 0 THEN <<>>
            ELSE IF s[i] \in S THEN Append(g[i - 1], s[i]) ELSE g[i - 1]]

LEMMA SelectsAt ==
    ASSUME NEW s, NEW S, NEW n, NEW g, Selects(g, s, S, n), NEW i \in 0 .. n
    PROVE  g[i] = IF i = 0 THEN <<>>
                  ELSE IF s[i] \in S THEN Append(g[i - 1], s[i]) ELSE g[i - 1]
<1> DEFINE F == [j \in 0 .. n |->
                   IF j = 0 THEN <<>>
                   ELSE IF s[j] \in S THEN Append(g[j - 1], s[j]) ELSE g[j - 1]]
<1>1. g = F
  BY Zenon DEF Selects
<1>2. F[i] = IF i = 0 THEN <<>>
             ELSE IF s[i] \in S THEN Append(g[i - 1], s[i]) ELSE g[i - 1]
  OBVIOUS
<1> HIDE DEF F
<1> QED BY <1>1, <1>2

LEMMA SelectsExists ==
    ASSUME NEW s, NEW S, NEW n \in Nat
    PROVE  \E g : Selects(g, s, S, n)
<1> DEFINE X == {k \in Nat : \E g : Selects(g, s, S, k)}
<1>1. 0 \in X
  <2>1. Selects([i \in 0 .. 0 |-> <<>>], s, S, 0)
    BY DEF Selects
  <2> QED BY <2>1
<1>2. ASSUME NEW k \in Nat, k \in X PROVE k + 1 \in X
  <2>1. PICK g : Selects(g, s, S, k)
    BY <1>2
  <2> DEFINE h == [i \in 0 .. k + 1 |->
                     IF i <= k THEN g[i]
                     ELSE IF s[i] \in S THEN Append(g[i - 1], s[i]) ELSE g[i - 1]]
  <2>2. ASSUME NEW i \in 0 .. k + 1
        PROVE  h[i] = IF i = 0 THEN <<>>
                      ELSE IF s[i] \in S THEN Append(h[i - 1], s[i]) ELSE h[i - 1]
    <3>1. CASE i = 0
      BY <2>1, <3>1 DEF Selects
    <3>2. CASE i \in 1 .. k
      <4>1. h[i] = g[i] /\ h[i - 1] = g[i - 1]
        BY <3>2
      <4>2. g[i] = IF s[i] \in S THEN Append(g[i - 1], s[i]) ELSE g[i - 1]
        <5>1. i \in 0 .. k /\ i # 0
          BY <3>2
        <5> QED BY <2>1, <5>1, SelectsAt
      <4> HIDE DEF h
      <4> QED BY <4>1, <4>2, <3>2
    <3>3. CASE i = k + 1
      BY <3>3
    <3> QED BY <3>1, <3>2, <3>3
  <2>3. Selects(h, s, S, k + 1)
    <3>1. h = [i \in 0 .. k + 1 |-> h[i]]
      OBVIOUS
    <3> HIDE DEF h
    <3> QED BY <2>2, <3>1 DEF Selects
  <2> QED BY <2>3
<1>3. Nat \subseteq X
  BY <1>1, <1>2, InductionInNat
<1> QED BY <1>3

LEMMA SelectsAgree ==
    ASSUME NEW s, NEW t, NEW S, NEW m \in Nat, NEW n \in Nat, NEW g, NEW h,
           Selects(g, s, S, m), Selects(h, t, S, n),
           NEW k \in Nat, k <= m, k <= n, \A i \in 1 .. k : s[i] = t[i]
    PROVE  g[k] = h[k]
<1> DEFINE X == {i \in Nat : i <= k => g[i] = h[i]}
<1>1. 0 \in X
  BY DEF Selects
<1>2. ASSUME NEW i \in Nat, i \in X PROVE i + 1 \in X
  <2> SUFFICES ASSUME i + 1 <= k PROVE g[i + 1] = h[i + 1]
    OBVIOUS
  <2>1. g[i] = h[i] /\ s[i + 1] = t[i + 1] /\ i + 1 \in 0 .. m /\ i + 1 \in 0 .. n
    BY <1>2
  <2>2. g[i + 1] = IF s[i + 1] \in S THEN Append(g[i], s[i + 1]) ELSE g[i]
    <3>1. i + 1 # 0 /\ (i + 1) - 1 = i
      BY <1>2
    <3> QED BY <2>1, <3>1, SelectsAt
  <2>3. h[i + 1] = IF t[i + 1] \in S THEN Append(h[i], t[i + 1]) ELSE h[i]
    <3>1. i + 1 # 0 /\ (i + 1) - 1 = i
      BY <1>2
    <3> QED BY <2>1, <3>1, SelectsAt
  <2> QED BY <2>1, <2>2, <2>3
<1>3. Nat \subseteq X
  BY <1>1, <1>2, InductionInNat
<1> QED BY <1>3

LEMMA SelectedBySelects ==
    ASSUME NEW T, NEW s \in Seq(T), NEW S
    PROVE  \E g : Selects(g, s, S, Len(s)) /\ Selected(s, S) = g[Len(s)]
<1> DEFINE prefix == CHOOSE g : Selects(g, s, S, Len(s))
<1>1. Selects(prefix, s, S, Len(s))
  BY SelectsExists
<1>2. Selected(s, S) = prefix[Len(s)]
  BY DEF Selected, Selects
<1> QED BY <1>1, <1>2

LEMMA SelectedOfEmpty ==
    ASSUME NEW S
    PROVE  Selected(<<>>, S) = <<>>
<1>1. PICK g : Selects(g, <<>>, S, 0) /\ Selected(<<>>, S) = g[0]
  <2>1. <<>> \in Seq(Nat) /\ Len(<<>>) = 0
    OBVIOUS
  <2> QED BY <2>1, SelectedBySelects
<1> QED BY <1>1, SelectsAt

LEMMA SelectedOfAppend ==
    ASSUME NEW T, NEW s \in Seq(T), NEW e \in T, NEW S
    PROVE  Selected(Append(s, e), S) = IF e \in S THEN Append(Selected(s, S), e)
                                       ELSE Selected(s, S)
<1> DEFINE t == Append(s, e)
           n == Len(s)
<1>1. t \in Seq(T) /\ Len(t) = n + 1 /\ t[n + 1] = e /\ \A i \in 1 .. n : s[i] = t[i]
  OBVIOUS
<1>2. PICK g : Selects(g, s, S, n) /\ Selected(s, S) = g[n]
  BY SelectedBySelects
<1>3. PICK h : Selects(h, t, S, n + 1) /\ Selected(t, S) = h[n + 1]
  BY SelectedBySelects, <1>1
<1>4. n \in Nat
  OBVIOUS
<1> HIDE DEF t, n
<1>5. g[n] = h[n]
  BY <1>1, <1>2, <1>3, <1>4, SelectsAgree
<1>6. h[n + 1] = IF t[n + 1] \in S THEN Append(h[n], t[n + 1]) ELSE h[n]
  <2>1. n + 1 \in 0 .. n + 1 /\ n + 1 # 0 /\ (n + 1) - 1 = n
    BY <1>4
  <2> QED BY <1>3, <2>1, SelectsAt
<1>7. Selected(t, S) = IF e \in S THEN Append(Selected(s, S), e) ELSE Selected(s, S)
  BY <1>1, <1>2, <1>3, <1>5, <1>6
<1> QED BY <1>7 DEF t

LEMMA SelectedIsSequence ==
    ASSUME NEW T, NEW s \in Seq(T), NEW S
    PROVE  Selected(s, S) \in Seq(S \cap T) /\ Selected(s, S) \in Seq(T)
<1> DEFINE X == {q \in Seq(T) : Selected(q, S) \in Seq(S \cap T) /\ Selected(q, S) \in Seq(T)}
<1>1. <<>> \in X
  <2>1. <<>> \in Seq(S \cap T) /\ <<>> \in Seq(T)
    OBVIOUS
  <2> QED BY <2>1, SelectedOfEmpty
<1>2. ASSUME NEW q \in Seq(T), NEW e \in T, q \in X PROVE Append(q, e) \in X
  <2> SUFFICES /\ Selected(Append(q, e), S) \in Seq(S \cap T)
               /\ Selected(Append(q, e), S) \in Seq(T)
    <3>1. Append(q, e) \in Seq(T)
      OBVIOUS
    <3> QED BY <3>1
  <2>1. Selected(Append(q, e), S) = IF e \in S THEN Append(Selected(q, S), e)
                                    ELSE Selected(q, S)
    BY SelectedOfAppend
  <2> DEFINE r == Selected(q, S)
  <2>2. r \in Seq(S \cap T) /\ r \in Seq(T)
    BY <1>2
  <2> HIDE DEF r
  <2>3. /\ e \in S => Append(r, e) \in Seq(S \cap T)
        /\ Append(r, e) \in Seq(T)
    BY <2>2
  <2> QED BY <2>1, <2>2, <2>3 DEF r
<1>3. Seq(T) \subseteq X
  <2> HIDE DEF X
  <2> QED BY <1>1, <1>2, InductionOnSequences
<1> QED BY <1>3

LEMMA SelectedOfConcat ==
    ASSUME NEW T, NEW s \in Seq(T), NEW t \in Seq(T), NEW S
    PROVE  Selected(s \o t, S) = Selected(s, S) \o Selected(t, S)
<1> DEFINE X == {q \in Seq(T) : Selected(s \o q, S) = Selected(s, S) \o Selected(q, S)}
<1>0. Selected(s, S) \in Seq(T)
  BY SelectedIsSequence
<1>1. <<>> \in X
  BY <1>0, SelectedOfEmpty
<1>2. ASSUME NEW q \in Seq(T), NEW e \in T, q \in X PROVE Append(q, e) \in X
  <2> SUFFICES Selected(s \o Append(q, e), S) = Selected(s, S) \o Selected(Append(q, e), S)
    <3>1. Append(q, e) \in Seq(T)
      OBVIOUS
    <3> QED BY <3>1
  <2>1. s \o Append(q, e) = Append(s \o q, e) /\ s \o q \in Seq(T)
    OBVIOUS
  <2>2. Selected(q, S) \in Seq(T)
    BY SelectedIsSequence
  <2>3. CASE e \in S
    <3>1. Selected(s \o Append(q, e), S) = Append(Selected(s \o q, S), e)
      BY <2>1, <2>3, SelectedOfAppend
    <3>2. Selected(Append(q, e), S) = Append(Selected(q, S), e)
      BY <2>3, SelectedOfAppend
    <3>3. Selected(s \o q, S) = Selected(s, S) \o Selected(q, S)
      BY <1>2
    <3>4. \A a, b \in Seq(T) : Append(a \o b, e) = a \o Append(b, e)
      <4> TAKE a, b \in Seq(T)
      <4>1. /\ Append(a \o b, e) \in Seq(T) /\ a \o Append(b, e) \in Seq(T)
            /\ Len(Append(a \o b, e)) = Len(a \o Append(b, e))
            /\ \A i \in 1 .. Len(Append(a \o b, e)) :
                  Append(a \o b, e)[i] = (a \o Append(b, e))[i]
        OBVIOUS
      <4> QED BY <4>1, SeqEqual
    <3> QED BY <1>0, <2>1, <2>2, <3>1, <3>2, <3>3, <3>4, ZenonT(60)
  <2>4. CASE e \notin S
    <3>1. Selected(s \o Append(q, e), S) = Selected(s \o q, S)
      BY <2>1, <2>4, SelectedOfAppend, ZenonT(60)
    <3>2. Selected(Append(q, e), S) = Selected(q, S)
      BY <2>4, SelectedOfAppend
    <3> QED BY <1>2, <3>1, <3>2
  <2> QED BY <2>3, <2>4
<1>3. Seq(T) \subseteq X
  <2> HIDE DEF X
  <2> QED BY <1>1, <1>2, InductionOnSequences
<1> QED BY <1>3

LEMMA SelectedOfSelected ==
    ASSUME NEW T, NEW s \in Seq(T), NEW R, NEW S
    PROVE  Selected(Selected(s, R), S) = Selected(s, R \cap S)
<1> DEFINE X == {q \in Seq(T) : Selected(Selected(q, R), S) = Selected(q, R \cap S)}
<1>1. <<>> \in X
  BY SelectedOfEmpty
<1>2. ASSUME NEW q \in Seq(T), NEW e \in T, q \in X PROVE Append(q, e) \in X
  <2> SUFFICES Selected(Selected(Append(q, e), R), S) = Selected(Append(q, e), R \cap S)
    <3>1. Append(q, e) \in Seq(T)
      OBVIOUS
    <3> QED BY <3>1
  <2>1. Selected(q, R) \in Seq(T)
    BY SelectedIsSequence
  <2>2. Selected(Selected(q, R), S) = Selected(q, R \cap S)
    BY <1>2
  <2>3. CASE e \in R
    <3>1. Selected(Append(q, e), R) = Append(Selected(q, R), e)
      BY <2>3, SelectedOfAppend
    <3>2. Selected(Append(Selected(q, R), e), S)
            = IF e \in S THEN Append(Selected(Selected(q, R), S), e)
              ELSE Selected(Selected(q, R), S)
      BY <2>1, SelectedOfAppend
    <3>3. Selected(Append(q, e), R \cap S)
            = IF e \in R \cap S THEN Append(Selected(q, R \cap S), e)
              ELSE Selected(q, R \cap S)
      BY SelectedOfAppend
    <3> QED BY <2>2, <2>3, <3>1, <3>2, <3>3
  <2>4. CASE e \notin R
    <3>1. Selected(Append(q, e), R) = Selected(q, R)
      BY <2>4, SelectedOfAppend
    <3>2. Selected(Append(q, e), R \cap S) = Selected(q, R \cap S)
      BY <2>4, SelectedOfAppend
    <3> QED BY <2>2, <3>1, <3>2
  <2> QED BY <2>3, <2>4
<1>3. Seq(T) \subseteq X
  <2> HIDE DEF X
  <2> QED BY <1>1, <1>2, InductionOnSequences
<1> QED BY <1>3
-----------------------------------------------------------------------------
(* The terminal of a port.                                                 *)

\* The terminal found for a port is none, or in use and the port's.
LEMMA FindTcbIsLive ==
    ASSUME IInv, NEW p \in Ports
    PROVE  /\ FindTcb(p) \in Cns \cup {Nobody}
           /\ FindTcb(p) # Nobody => termState[FindTcb(p)] # "Idle" /\ pcbp[FindTcb(p)] = p
<1>1. CASE asyncTp[p] # Nobody \/ TerminalsOn(p) = {}
  BY <1>1 DEF FindTcb, IInv, TiesOK, RemembersLiveTerminal
<1>2. CASE asyncTp[p] = Nobody /\ TerminalsOn(p) # {}
  <2>1. Min(TerminalsOn(p)) \in TerminalsOn(p)
    BY <1>2, MinIsOne DEF TerminalsOn
  <2> QED BY <1>2, <2>1 DEF FindTcb, TerminalsOn
<1> QED BY <1>1, <1>2

-----------------------------------------------------------------------------
(* The steps.                                                              *)

LEMMA UnchangedKeeps ==
    ASSUME IInv, UNCHANGED ties
    PROVE  IInv'
  BY DEF IInv, TiesOK, RemembersLiveTerminal, ForgottenInReset, HasPort, ties

\* Output finds the terminal of its port.
LEMMA TryOutputKeeps ==
    ASSUME IInv, ~resetting, NEW p \in Ports \cup {Nobody},
           asyncTp' = [asyncTp EXCEPT ![p] = FindTcb(p)],
           UNCHANGED <<termState, pcbp, resetting>>
    PROVE  IInv'
<1>1. CASE p \in Ports
  BY <1>1, FindTcbIsLive DEF IInv, TiesOK, RemembersLiveTerminal, ForgottenInReset, HasPort
<1>2. CASE p \notin Ports
  <2>1. asyncTp' = asyncTp
    BY <1>2 DEF IInv, TiesOK
  <2> QED BY <2>1, UnchangedKeeps DEF ties
<1> QED BY <1>1, <1>2

\* Forgetting a terminal, and closing the port of one that ends.
LEMMA ForgetKeeps ==
    ASSUME IInv, NEW p, asyncTp' = [asyncTp EXCEPT ![p] = Nobody],
           UNCHANGED <<termState, pcbp, resetting>>
    PROVE  IInv'
  BY DEF IInv, TiesOK, RemembersLiveTerminal, ForgottenInReset, HasPort

LEMMA EndTerminalKeeps ==
    ASSUME IInv, NEW cn \in Cns, EndTerminal(cn), UNCHANGED resetting
    PROVE  IInv'
<1>1. /\ termState' = [termState EXCEPT ![cn] = "Idle"] /\ UNCHANGED pcbp
      /\ asyncTp' = [asyncTp EXCEPT ![pcbp[cn]] = Nobody]
  BY DEF EndTerminal, CloseConnection
<1>2. TiesOK' /\ ForgottenInReset' /\ HasPort'
  BY <1>1 DEF IInv, TiesOK, ForgottenInReset, HasPort
<1>3. ASSUME NEW p \in Ports, asyncTp'[p] # Nobody
      PROVE  asyncTp[p] = asyncTp'[p] /\ p # pcbp[cn] /\ asyncTp[p] # cn
  BY <1>1, <1>3 DEF IInv, TiesOK, RemembersLiveTerminal
<1>4. RemembersLiveTerminal'
  BY <1>1, <1>3 DEF IInv, TiesOK, RemembersLiveTerminal
<1> QED BY <1>2, <1>4 DEF IInv

\* A terminal in use changes its state, and stays in use.
LEMMA StateKeeps ==
    ASSUME IInv, NEW cn \in Cns, NEW state \in TermStates \ {"Idle"},
           termState[cn] # "Idle",
           termState' = [termState EXCEPT ![cn] = state],
           UNCHANGED <<asyncTp, pcbp, resetting>>
    PROVE  IInv'
  BY DEF IInv, TiesOK, RemembersLiveTerminal, ForgottenInReset, HasPort

\* The network thread and the user.
LEMMA NetThreadKeeps ==
    ASSUME IInv, NetThread \/ User
    PROVE  IInv'
<1>1. CASE Accept \/ TakePort \/ User
  BY <1>1, UnchangedKeeps DEF Accept, TakePort, User, Leave, ties, portVars, termVars,
       resetVars
<1>2. CASE NotifyNetConnect
  BY <1>2, ForgetKeeps DEF NotifyNetConnect, resetVars
<1> QED BY <1>1, <1>2 DEF NetThread

LEMMA CheckStatusOpenKeeps ==
    ASSUME IInv, NEW p \in Ports, CheckStatusOpen(p)
    PROVE  IInv'
<1>1. /\ ~resetting /\ UNCHANGED <<termState, pcbp, resetting>>
      /\ asyncTp' = [asyncTp EXCEPT ![p] = FindTcb(p)]
  BY DEF CheckStatusOpen, TryOutput, resetVars
<1> QED BY <1>1, TryOutputKeeps

LEMMA CheckStatusLeftKeeps ==
    ASSUME IInv, NEW p \in Ports, CheckStatusLeft(p)
    PROVE  IInv'
<1>1. ~resetting /\ UNCHANGED <<pcbp, resetting>>
  BY DEF CheckStatusLeft, resetVars
<1>2. CASE FindTcb(p) # Nobody
  <2> DEFINE tp == FindTcb(p)
  <2>1. tp \in Cns /\ termState[tp] # "Idle" /\ pcbp[tp] = p
    BY <1>2, FindTcbIsLive
  <2>2. /\ asyncTp' = [asyncTp EXCEPT ![p] = tp]
        /\ \/ termState' = [termState EXCEPT ![tp] = "NpuRequestDisconnect"]
           \/ UNCHANGED termState
    BY <1>2 DEF CheckStatusLeft, SendDiscRequest
  <2> HIDE DEF tp
  <2> QED BY <1>1, <2>1, <2>2
          DEF IInv, TiesOK, RemembersLiveTerminal, ForgottenInReset, HasPort
<1>3. CASE FindTcb(p) = Nobody
  BY <1>1, <1>3, ForgetKeeps DEF CheckStatusLeft, CloseConnection
<1> QED BY <1>2, <1>3

\* A terminal is taken that nobody remembers.
LEMMA ConfigurationReplyKeeps ==
    ASSUME IInv, NEW p \in Ports, ConfigurationReply(p)
    PROVE  IInv'
<1> DEFINE cn == Min(FreeTerminals)
<1>1. ~resetting /\ UNCHANGED resetting
  BY DEF ConfigurationReply, Receive, resetVars
<1>2. CASE /\ Configurable(p) /\ UNCHANGED portVars
           /\ termState' = [termState EXCEPT ![cn] = "RequestConnection"]
           /\ pcbp' = [pcbp EXCEPT ![cn] = p]
  <2>1. cn \in FreeTerminals
    BY <1>2, MinIsOne DEF Configurable, FreeTerminals
  <2>2. cn \in Cns /\ termState[cn] = "Idle"
    BY <2>1 DEF FreeTerminals
  <2> HIDE DEF cn
  <2> QED BY <1>1, <1>2, <2>2
          DEF IInv, TiesOK, RemembersLiveTerminal, ForgottenInReset, HasPort, portVars
<1>3. CASE CloseConnection(p, outputQ) /\ UNCHANGED <<termState, pcbp>>
  BY <1>1, <1>3, ForgetKeeps DEF CloseConnection
<1> QED BY <1>2, <1>3 DEF ConfigurationReply

LEMMA ConnectionReplyKeeps ==
    ASSUME IInv, NEW cn \in Cns, ConnectionReply(cn)
    PROVE  IInv'
<1>1. UNCHANGED resetting
  BY DEF ConnectionReply, Receive, resetVars
<1>2. CASE /\ termState' = [termState EXCEPT ![cn] = "Connected"]
           /\ UNCHANGED <<portVars, pcbp>> /\ termState[cn] # "Idle"
  BY <1>1, <1>2, StateKeeps DEF portVars
<1>3. CASE EndTerminal(cn)
  BY <1>1, <1>3, EndTerminalKeeps
<1>4. CASE UNCHANGED <<portVars, termVars>>
  BY <1>1, <1>4, UnchangedKeeps DEF ties, portVars, termVars
<1> QED BY <1>2, <1>3, <1>4 DEF ConnectionReply

LEMMA DisconnectKeeps ==
    ASSUME IInv, NEW cn \in Cns,
           DisconnectRequest(cn) \/ DisconnectReply(cn) \/ TermBlock(cn)
    PROVE  IInv'
<1>1. UNCHANGED resetting
  BY DEF DisconnectRequest, DisconnectReply, TermBlock, Receive, resetVars
<1>2. CASE DisconnectRequest(cn)
  <2>1. CASE termState' = [termState EXCEPT ![cn] = "HostRequestDisconnect"]
    <3>1. termState[cn] # "Idle"
      BY <1>2, <2>1 DEF DisconnectRequest, IInv, TiesOK
    <3> QED BY <1>1, <1>2, <2>1, <3>1, StateKeeps DEF DisconnectRequest, portVars
  <2>2. CASE UNCHANGED termState
    BY <1>1, <1>2, <2>2, UnchangedKeeps DEF DisconnectRequest, ties, portVars
  <2> QED BY <1>2, <2>1, <2>2 DEF DisconnectRequest
<1>3. CASE DisconnectReply(cn) \/ TermBlock(cn)
  <2>1. CASE EndTerminal(cn)
    BY <1>1, <2>1, EndTerminalKeeps
  <2>2. CASE UNCHANGED <<portVars, termVars>>
    BY <1>1, <2>2, UnchangedKeeps DEF ties, portVars, termVars
  <2> QED BY <1>3, <2>1, <2>2 DEF DisconnectReply, TermBlock
<1> QED BY <1>2, <1>3

LEMMA DataBlockKeeps ==
    ASSUME IInv, NEW cn \in Cns, DataBlock(cn)
    PROVE  IInv'
<1>1. ~resetting /\ UNCHANGED <<termState, pcbp, resetting>>
  BY DEF DataBlock, Receive, resetVars
<1>2. CASE asyncTp' = [asyncTp EXCEPT ![pcbp[cn]] = FindTcb(pcbp[cn])]
  <2>1. pcbp[cn] \in Ports \cup {Nobody}
    BY DEF IInv, TiesOK
  <2> QED BY <1>1, <1>2, <2>1, TryOutputKeeps
<1>3. CASE UNCHANGED asyncTp
  BY <1>1, <1>3, UnchangedKeeps DEF ties
<1> QED BY <1>2, <1>3 DEF DataBlock, TryOutput

LEMMA OtherDownlineKeeps ==
    ASSUME IInv, SupervisionReply \/ \E cn \in Cns : Mark(cn) \/ Interrupt(cn)
    PROVE  IInv'
  BY UnchangedKeeps DEF SupervisionReply, Mark, Interrupt, Receive, ties, portVars,
       termVars,
                        resetVars

\* The host changes nothing in the NPU but its queues.
LEMMA HostKeeps ==
    ASSUME IInv, Host
    PROVE  IInv'
<1>1. CASE NotifyHostRegulation
  BY <1>1, UnchangedKeeps DEF NotifyHostRegulation, ties, portVars, termVars, resetVars
<1>2. CASE HostProcesses
  <2>1. \E kind, id : HostReceive(kind, id)
    BY <1>2 DEF HostProcesses, HostSupervises, HostConfigures, HostConnects,
         HostDisconnects,
                HostAcknowledged, HostMarks
  <2> QED BY <2>1, UnchangedKeeps DEF HostReceive, ties, portVars, termVars, resetVars
<1>3. CASE \E cn \in Cns : HostActs(cn)
  BY <1>3, UnchangedKeeps DEF HostActs, ties, portVars, termVars, resetVars
<1> QED BY <1>1, <1>2, <1>3 DEF Host

LEMMA ResetKeeps ==
    ASSUME IInv, Reset
    PROVE  IInv'
<1>1. CASE NetReset
  <2>1. /\ asyncTp' = [p \in Ports |-> Nobody] /\ resetting' = TRUE /\ UNCHANGED pcbp
        /\ termState' = [cn \in Cns |-> IF pcbp[cn] # Nobody /\ connFd[pcbp[cn]] # "none"
                                        THEN "Idle" ELSE termState[cn]]
    BY <1>1 DEF NetReset
  <2> QED BY <2>1 DEF IInv, TiesOK, RemembersLiveTerminal, ForgottenInReset, HasPort
<1>2. CASE ResetRest
  BY <1>2 DEF ResetRest, IInv, TiesOK, RemembersLiveTerminal, ForgottenInReset, HasPort,
       portVars
<1> QED BY <1>1, <1>2 DEF Reset

-----------------------------------------------------------------------------
(* The theorem.                                                            *)

LEMMA InitIInv == Init => IInv
<1> SUFFICES ASSUME Init PROVE IInv
  OBVIOUS
<1>1. /\ asyncTp = [p \in Ports |-> Nobody] /\ pcbp = [cn \in Cns |-> Nobody]
      /\ termState = [cn \in Cns |-> "Idle"] /\ resetting = FALSE
  BY DEF Init
<1>2. TiesOK
  BY <1>1 DEF TiesOK
<1>3. RemembersLiveTerminal
  BY <1>1 DEF RemembersLiveTerminal
<1>4. ForgottenInReset /\ HasPort
  BY <1>1 DEF ForgottenInReset, HasPort
<1> QED BY <1>2, <1>3, <1>4 DEF IInv

LEMMA NextIInv == IInv /\ [Next]_vars => IInv'
<1> SUFFICES ASSUME IInv, [Next]_vars PROVE IInv'
  OBVIOUS
<1>1. CASE UNCHANGED vars
  BY <1>1, UnchangedKeeps DEF vars, ties, portVars, termVars, resetVars
<1>2. CASE NetThread \/ User
  BY <1>2, NetThreadKeeps
<1>3. CASE CheckStatus
  BY <1>3, CheckStatusOpenKeeps, CheckStatusLeftKeeps DEF CheckStatus
<1>4. CASE ProcessDownline
  BY <1>4, ConfigurationReplyKeeps, ConnectionReplyKeeps, DisconnectKeeps, DataBlockKeeps,
     OtherDownlineKeeps DEF ProcessDownline
<1>5. CASE Host \/ Reset
  BY <1>5, HostKeeps, ResetKeeps
<1> QED BY <1>1, <1>2, <1>3, <1>4, <1>5 DEF Next

\* The terminal a port remembers (controls.async.tp, used unchecked by npuAsyncFindTcb)
\* is in use and refers to the port, for any number of users and terminals.
THEOREM RememberedTerminalIsLive == Spec => []RemembersLiveTerminal
<1>1. Spec => []IInv
  BY InitIInv, NextIInv, PTL DEF Spec
<1>2. IInv => RemembersLiveTerminal
  BY DEF IInv
<1> QED BY <1>1, <1>2, PTL

\* The rest of the types.
LinksOK ==
    /\ svmState \in {"StIdle", "StWaitSupervision", "StReady"}
    /\ connFd \in [Ports -> {"none", "open", "left"}]
    /\ netPc \in {"accepting", "checked", "opened"}
    /\ netPort \in Ports \cup {Nobody} /\ (netPc = "opened" => netPort # Nobody)
    /\ unsettled \subseteq Ports
    /\ resets \in 0 .. MaxResets
    /\ hostState \in [Cns -> {"idle", "connected", "hostDisc", "npuDisc"}]

OutputBuffers == 1 .. Window \cup {Nobody}

QueuesOK ==
    /\ outputQ \in [Cns -> Seq(OutputBuffers)]
    /\ breakPending \in [Cns -> BOOLEAN]
    /\ upline \in Seq(UplineMessages) /\ downline \in Seq(DownlineMessages)
    /\ unacked \in [Cns -> Seq(Numbers)]

TInv == IInv /\ LinksOK /\ QueuesOK

LEMMA AcksAreMessages ==
    ASSUME NEW cn \in Cns, NEW T, NEW buffers \in Seq(T)
    PROVE  Acks(cn, buffers) \in Seq(UplineMessages)
<1> DEFINE numbered == Selected(buffers, Numbers)
<1>1. numbered \in Seq(Numbers \cap T)
  BY SelectedIsSequence
<1> HIDE DEF numbered
<1>2. \A i \in 1 .. Len(numbered) : numbered[i] \in Numbers
  BY <1>1
<1>3. Len(numbered) \in Nat /\ DOMAIN numbered = 1 .. Len(numbered)
  BY <1>1
<1>4. ASSUME NEW n \in Numbers PROVE Msg("BACK", cn, n) \in UplineMessages
  BY DEF Msg, UplineMessages
<1>5. [i \in 1 .. Len(numbered) |-> Msg("BACK", cn, numbered[i])] \in Seq(UplineMessages)
  BY <1>2, <1>3, <1>4
<1> QED BY <1>3, <1>5 DEF Acks, numbered

LEMMA UplineKinds ==
    ASSUME NEW cn \in Cns
    PROVE  /\ Message("SUP/R", Nobody) \in UplineMessages
           /\ \A p \in Ports : Message("CNF/R", p) \in UplineMessages
           /\ \A kind \in {"ICN/R", "TCN/R", "TCN/N", "TERM", "BREAK"} :
                Message(kind, cn) \in UplineMessages
           /\ \A n \in Numbers : Msg("BACK", cn, n) \in UplineMessages
  BY DEF Message, Msg, UplineMessages

LEMMA DownlineKinds ==
    ASSUME NEW cn \in Cns
    PROVE  /\ Message("SUP/N", Nobody) \in DownlineMessages
           /\ \A p \in Ports : \A kind \in {"CNF/N", "CNF/E"} :
                Message(kind, p) \in DownlineMessages
           /\ \A kind \in {"ICN/N", "ICN/E", "TCN/R", "TCN/N", "TERM", "ICMD"} :
                Message(kind, cn) \in DownlineMessages
           /\ \A n \in 1 .. Window : Msg("MSG", cn, n) \in DownlineMessages
           /\ Msg("MARK", cn, MarkNumber) \in DownlineMessages
  BY DEF Message, Msg, DownlineMessages

LEMMA NumbersAreThese == Numbers = 1 .. Window \cup {MarkNumber} /\ Window \in Nat /\ MarkNumber = Window + 1
  BY WindowAssumption DEF Numbers, MarkNumber

LEMMA HeadBsn ==
    ASSUME NEW m \in DownlineMessages
    PROVE  /\ m.kind = "MSG" => m.bsn \in 1 .. Window
           /\ m.kind = "MARK" => m.bsn = MarkNumber
  BY DEF DownlineMessages

LEMMA QueueAckIsQueue ==
    ASSUME NEW q \in Seq(OutputBuffers), NEW n \in 1 .. Window
    PROVE  QueueOutput(q) \in Seq(OutputBuffers) /\ QueueAck(q, n) \in Seq(OutputBuffers)
<1>1. QueueOutput(q) \in Seq(OutputBuffers) /\ QueueOutput(q) # <<>>
  BY DEF QueueOutput, OutputBuffers
<1> DEFINE r == QueueOutput(q)
<1>2. n \in OutputBuffers /\ Len(r) \in 1 .. Len(r)
  BY <1>1 DEF OutputBuffers
<1> HIDE DEF r
<1>3. [r EXCEPT ![Len(r)] = n] \in Seq(OutputBuffers)
  BY <1>1, <1>2, ExceptSeq DEF r
<1> QED BY <1>1, <1>3 DEF QueueAck, r

-----------------------------------------------------------------------------
(* The types are kept.                                                     *)

LEMMA Emptied ==
    ASSUME NEW T, NEW q \in [Cns -> Seq(T)], NEW c
    PROVE  [q EXCEPT ![c] = <<>>] \in [Cns -> Seq(T)]
<1>1. <<>> \in Seq(T)
  OBVIOUS
<1> HIDE DEF Cns
<1> QED BY <1>1

LEMMA NetThreadTypes ==
    ASSUME TInv, NetThread \/ User
    PROVE  LinksOK' /\ QueuesOK'
<1>1. CASE Accept \/ User
  BY <1>1 DEF TInv, LinksOK, QueuesOK, Accept, User, Leave, portVars, termVars, flowVars,
       netVars, lineVars,
              resetVars, hostVars
<1>2. CASE TakePort
  <2> DEFINE free == {p \in Ports : connFd[p] = "none"}
             m == Min(free)
  <2>1. free # {} => m \in Ports
    <3>1. \A f \in free : f \in Ports /\ f \in Nat
      OBVIOUS
    <3> HIDE DEF free
    <3> QED BY <3>1, MinIsOne
  <2>2. /\ \/ free = {} /\ netPc' = "accepting" /\ UNCHANGED <<connFd, netPort, unsettled>>
           \/ /\ free # {} /\ netPc' = "opened" /\ netPort' = m
              /\ connFd' = [connFd EXCEPT ![m] = "open"]
              /\ unsettled' \in {unsettled \cup {m}, unsettled}
        /\ UNCHANGED <<svmState, asyncTp, termVars, lineVars, resetVars, hostVars>>
    BY <1>2 DEF TakePort
  <2> HIDE DEF free, m
  <2>3. /\ netPort' \in Ports \cup {Nobody} /\ (netPc' = "opened" => netPort' # Nobody)
        /\ netPc' \in {"accepting", "checked", "opened"}
    <3>1. CASE netPc' = "accepting" /\ UNCHANGED netPort
      BY <3>1 DEF TInv, LinksOK
    <3>2. CASE free # {} /\ netPc' = "opened" /\ netPort' = m
      <4>1. m \in Ports /\ m # Nobody
        BY <2>1, <3>2
      <4> QED BY <3>2, <4>1
    <3> QED BY <2>2, <3>1, <3>2
  <2>4. connFd' \in [Ports -> {"none", "open", "left"}] /\ unsettled' \subseteq Ports
    BY <2>1, <2>2 DEF TInv, LinksOK
  <2> QED BY <2>2, <2>3, <2>4 DEF TInv, LinksOK, QueuesOK, termVars, flowVars, lineVars,
       resetVars, hostVars
<1>3. CASE NotifyNetConnect
  <2>1. Message("CNF/R", netPort) \in UplineMessages
    <3>1. netPort \in Ports
      BY <1>3 DEF NotifyNetConnect, TInv, LinksOK
    <3> QED BY <3>1 DEF Message, Msg, UplineMessages
  <2>2. upline' \in Seq(UplineMessages)
    BY <1>3, <2>1 DEF NotifyNetConnect, TInv, QueuesOK
  <2>3. outputQ' \in [Cns -> Seq(OutputBuffers)]
    BY <1>3, Emptied DEF NotifyNetConnect, TInv, QueuesOK
  <2> QED BY <1>3, <2>2, <2>3 DEF NotifyNetConnect, TInv, LinksOK, QueuesOK, resetVars,
       hostVars
<1> QED BY <1>1, <1>2, <1>3 DEF NetThread

LEMMA TryOutputTypes ==
    ASSUME IInv, NEW p \in Ports, NEW q \in [Cns -> Seq(OutputBuffers)],
           NEW up \in Seq(UplineMessages), TryOutput(p, q, up)
    PROVE  outputQ' \in [Cns -> Seq(OutputBuffers)] /\ upline' \in Seq(UplineMessages)
<1> DEFINE tp == FindTcb(p)
<1>1. tp # Nobody => tp \in Cns
  BY FindTcbIsLive
<1>2. CASE tp = Nobody
  BY <1>2 DEF TryOutput
<1>3. CASE tp # Nobody
  <2>1. PICK k \in 0 .. Len(q[tp]) :
          /\ outputQ' = [q EXCEPT ![tp] = SubSeq(@, k + 1, Len(@))]
          /\ upline' = up \o Acks(tp, SubSeq(q[tp], 1, k))
    BY <1>3 DEF TryOutput
  <2> HIDE DEF tp
  <2>2. q[tp] \in Seq(OutputBuffers)
    BY <1>1, <1>3
  <2>3. SubSeq(q[tp], 1, k) \in Seq(OutputBuffers) /\ SubSeq(q[tp], k + 1, Len(q[tp])) \in Seq(OutputBuffers)
    BY <2>2
  <2>4. Acks(tp, SubSeq(q[tp], 1, k)) \in Seq(UplineMessages)
    BY <1>1, <1>3, <2>3, AcksAreMessages
  <2> QED BY <1>1, <1>3, <2>1, <2>3, <2>4
<1> QED BY <1>2, <1>3

LEMMA CheckStatusOpenTypes ==
    ASSUME TInv, NEW p \in Ports, CheckStatusOpen(p)
    PROVE  LinksOK' /\ QueuesOK'
<1> DEFINE tp == FindTcb(p)
           connected == tp # Nobody /\ termState[tp] = "Connected"
<1>1. connected => tp \in Cns
  BY FindTcbIsLive DEF TInv
<1>2. PICK q, up : /\ TryOutput(p, q, up)
                   /\ \/ q = outputQ /\ up = upline /\ UNCHANGED breakPending
                      \/ /\ connected /\ q = [outputQ EXCEPT ![tp] = QueueOutput(@)] /\ up = upline
                         /\ UNCHANGED breakPending
                      \/ /\ connected /\ q = [outputQ EXCEPT ![tp] = <<>>]
                         /\ up = Append(upline, Message("BREAK", tp)) \o Acks(tp, outputQ[tp])
                         /\ breakPending' = [breakPending EXCEPT ![tp] = TRUE]
  BY DEF CheckStatusOpen
<1> HIDE DEF tp
<1>3. outputQ \in [Cns -> Seq(OutputBuffers)] /\ upline \in Seq(UplineMessages)
  BY DEF TInv, QueuesOK, OutputBuffers
<1>4. q \in [Cns -> Seq(OutputBuffers)]
  <2>1. connected => QueueOutput(outputQ[tp]) \in Seq(OutputBuffers)
    BY <1>1, <1>3 DEF QueueOutput, OutputBuffers
  <2>2. \/ q = outputQ
        \/ connected /\ q = [outputQ EXCEPT ![tp] = QueueOutput(outputQ[tp])]
        \/ q = [outputQ EXCEPT ![tp] = <<>>]
    BY <1>2
  <2>3. CASE connected /\ q = [outputQ EXCEPT ![tp] = QueueOutput(outputQ[tp])]
    BY <1>1, <1>3, <2>1, <2>3
  <2>4. \A c : [outputQ EXCEPT ![c] = <<>>] \in [Cns -> Seq(OutputBuffers)]
    BY <1>3, Emptied
  <2> QED BY <1>3, <2>2, <2>3, <2>4
<1>5. up \in Seq(UplineMessages)
  <2>1. CASE connected
    <3>1. Message("BREAK", tp) \in UplineMessages
      BY <1>1, <2>1, UplineKinds
    <3>2. Acks(tp, outputQ[tp]) \in Seq(UplineMessages)
      BY <1>1, <1>3, <2>1, AcksAreMessages
    <3>3. Append(upline, Message("BREAK", tp)) \o Acks(tp, outputQ[tp]) \in Seq(UplineMessages)
      BY <1>3, <3>1, <3>2
    <3> QED BY <1>2, <1>3, <3>3
  <2> QED BY <1>2, <1>3, <2>1
<1>6. outputQ' \in [Cns -> Seq(OutputBuffers)] /\ upline' \in Seq(UplineMessages)
  BY <1>2, <1>4, <1>5, TryOutputTypes DEF TInv
<1>7. breakPending' \in [Cns -> BOOLEAN]
  BY <1>1, <1>2 DEF TInv, QueuesOK
<1> QED BY <1>6, <1>7 DEF CheckStatusOpen, TInv, LinksOK, QueuesOK, OutputBuffers,
     netVars, resetVars, hostVars

LEMMA CheckStatusLeftTypes ==
    ASSUME TInv, NEW p \in Ports, CheckStatusLeft(p)
    PROVE  LinksOK' /\ QueuesOK'
<1>1. UNCHANGED <<svmState, breakPending, netVars, downline, resetVars, hostVars>>
  BY DEF CheckStatusLeft
<1>2. CASE FindTcb(p) # Nobody
  <2> DEFINE tp == FindTcb(p)
  <2>1. tp \in Cns
    BY <1>2, FindTcbIsLive DEF TInv
  <2>2. /\ UNCHANGED connFd
        /\ \/ /\ outputQ' = [outputQ EXCEPT ![tp] = <<>>]
              /\ upline' = Append(upline \o Acks(tp, outputQ[tp]), Message("TCN/R", tp))
           \/ UNCHANGED <<outputQ, upline>>
    BY <1>2 DEF CheckStatusLeft, SendDiscRequest
  <2> HIDE DEF tp
  <2>3. Message("TCN/R", tp) \in UplineMessages /\ Acks(tp, outputQ[tp]) \in Seq(UplineMessages)
    BY <2>1, UplineKinds, AcksAreMessages DEF TInv, QueuesOK
  <2>4. upline' \in Seq(UplineMessages)
    <3>1. upline \in Seq(UplineMessages)
      BY DEF TInv, QueuesOK
    <3>2. Append(upline \o Acks(tp, outputQ[tp]), Message("TCN/R", tp)) \in Seq(UplineMessages)
      BY <2>3, <3>1
    <3> QED BY <2>2, <3>1, <3>2
  <2>5. outputQ' \in [Cns -> Seq(OutputBuffers)]
    <3>1. outputQ \in [Cns -> Seq(OutputBuffers)]
      BY DEF TInv, QueuesOK
    <3>2. \A c : [outputQ EXCEPT ![c] = <<>>] \in [Cns -> Seq(OutputBuffers)]
      BY <3>1, Emptied
    <3> QED BY <2>2, <3>1, <3>2
  <2> QED BY <1>1, <2>2, <2>4, <2>5 DEF TInv, LinksOK, QueuesOK, netVars, resetVars,
       hostVars
<1>3. CASE FindTcb(p) = Nobody
  <2>1. /\ connFd' = [connFd EXCEPT ![p] = "none"] /\ UNCHANGED upline
        /\ \/ UNCHANGED outputQ
           \/ outputQ' = [outputQ EXCEPT ![asyncTp[p]] = <<>>]
    BY <1>3 DEF CheckStatusLeft, CloseConnection
  <2>2. outputQ' \in [Cns -> Seq(OutputBuffers)]
    <3>1. outputQ \in [Cns -> Seq(OutputBuffers)]
      BY DEF TInv, QueuesOK
    <3>2. \A c : [outputQ EXCEPT ![c] = <<>>] \in [Cns -> Seq(OutputBuffers)]
      BY <3>1, Emptied
    <3> QED BY <2>1, <3>1, <3>2
  <2> QED BY <1>1, <2>1, <2>2 DEF TInv, LinksOK, QueuesOK, netVars, resetVars, hostVars
<1> QED BY <1>2, <1>3

\* What a message taken from the queue down, or up, leaves.
LEMMA ReceiveTypes ==
    ASSUME TInv, NEW kind, NEW id, Receive(kind, id)
    PROVE  /\ ~resetting /\ downline # <<>> /\ downline' = Tail(downline)
           /\ downline' \in Seq(DownlineMessages) /\ Head(downline) \in DownlineMessages
           /\ Head(downline).kind = kind
           /\ UNCHANGED <<netPc, netPort, unsettled, resetting, resets, hostState, unacked>>
  BY DEF TInv, QueuesOK, Receive, netVars, resetVars, hostVars

LEMMA EndTerminalTypes ==
    ASSUME TInv, NEW cn \in Cns, EndTerminal(cn)
    PROVE  /\ UNCHANGED <<svmState, breakPending>>
           /\ connFd' \in [Ports -> {"none", "open", "left"}]
           /\ outputQ' \in [Cns -> Seq(OutputBuffers)]
<1>1. UNCHANGED <<svmState, breakPending>> /\ CloseConnection(pcbp[cn], outputQ)
  BY DEF EndTerminal
<1>2. outputQ' = outputQ \/ \E c : outputQ' = [outputQ EXCEPT ![c] = <<>>]
  BY <1>1 DEF CloseConnection
<1>3. outputQ \in [Cns -> Seq(OutputBuffers)] /\ connFd \in [Ports -> {"none", "open", "left"}]
  BY DEF TInv, QueuesOK, LinksOK
<1>4. \A c : [outputQ EXCEPT ![c] = <<>>] \in [Cns -> Seq(OutputBuffers)]
  BY <1>3, Emptied
<1>5. connFd' \in [Ports -> {"none", "open", "left"}]
  BY <1>1, <1>3 DEF CloseConnection
<1> QED BY <1>1, <1>2, <1>3, <1>4, <1>5

LEMMA ConfigurationReplyTypes ==
    ASSUME TInv, NEW p \in Ports, ConfigurationReply(p)
    PROVE  LinksOK' /\ QueuesOK'
<1> DEFINE cn == Min(FreeTerminals)
<1>0. PICK kind : Receive(kind, p)
  BY DEF ConfigurationReply
<1>1. CASE /\ FreeTerminals # {} /\ Reply(Message("ICN/R", cn))
           /\ outputQ' = [outputQ EXCEPT ![cn] = <<>>]
           /\ breakPending' = [breakPending EXCEPT ![cn] = FALSE]
           /\ UNCHANGED <<svmState, portVars>>
  <2>1. cn \in Cns
    <3>1. cn \in FreeTerminals
      BY <1>1, MinIsOne, SMTT(60) DEF FreeTerminals
    <3> QED BY <3>1 DEF FreeTerminals
  <2> HIDE DEF cn
  <2>2. upline' \in Seq(UplineMessages)
    <3>1. Message("ICN/R", cn) \in UplineMessages
      BY <2>1, UplineKinds
    <3> QED BY <1>1, <3>1 DEF Reply, TInv, QueuesOK
  <2>3. outputQ' \in [Cns -> Seq(OutputBuffers)] /\ breakPending' \in [Cns -> BOOLEAN]
    BY <1>1, <2>1, Emptied DEF TInv, QueuesOK
  <2> QED BY <1>0, <1>1, <2>2, <2>3, ReceiveTypes DEF TInv, LinksOK, QueuesOK, portVars
<1>2. CASE /\ CloseConnection(p, outputQ)
           /\ UNCHANGED <<svmState, termState, pcbp, breakPending, upline>>
  <2>1. \E c : outputQ' = outputQ \/ outputQ' = [outputQ EXCEPT ![c] = <<>>]
    BY <1>2 DEF CloseConnection
  <2>2. \A c : [outputQ EXCEPT ![c] = <<>>] \in [Cns -> Seq(OutputBuffers)]
    BY Emptied DEF TInv, QueuesOK
  <2>3. outputQ' \in [Cns -> Seq(OutputBuffers)]
    BY <2>1, <2>2 DEF TInv, QueuesOK
  <2>4. connFd' \in [Ports -> {"none", "open", "left"}]
    BY <1>2 DEF CloseConnection, TInv, LinksOK
  <2> QED BY <1>0, <1>2, <2>3, <2>4, ReceiveTypes DEF TInv, LinksOK, QueuesOK
<1> QED BY <1>1, <1>2 DEF ConfigurationReply, Configurable

LEMMA ConnectionTypes ==
    ASSUME TInv, NEW cn \in Cns,
           ConnectionReply(cn) \/ DisconnectRequest(cn) \/ DisconnectReply(cn) \/ TermBlock(cn)
    PROVE  LinksOK' /\ QueuesOK'
<1>1. PICK kind : Receive(kind, cn)
  BY DEF ConnectionReply, DisconnectRequest, DisconnectReply, TermBlock
<1>2. \/ UNCHANGED upline
      \/ \E reply \in {"TERM", "TCN/N"} : upline' = Append(upline, Message(reply, cn))
  BY DEF ConnectionReply, DisconnectRequest, DisconnectReply, TermBlock, Reply
<1>3. upline' \in Seq(UplineMessages)
  <2>1. \A reply \in {"TERM", "TCN/N"} : Message(reply, cn) \in UplineMessages
    BY UplineKinds
  <2>2. upline \in Seq(UplineMessages)
    BY DEF TInv, QueuesOK
  <2> QED BY <1>2, <2>1, <2>2
<1>4. EndTerminal(cn) \/ UNCHANGED <<svmState, portVars, flowVars>>
  BY DEF ConnectionReply, DisconnectRequest, DisconnectReply, TermBlock, termVars
<1>5. /\ UNCHANGED <<svmState, breakPending>>
      /\ connFd' \in [Ports -> {"none", "open", "left"}]
      /\ outputQ' \in [Cns -> Seq(OutputBuffers)]
  BY <1>4, EndTerminalTypes DEF portVars, flowVars, TInv, LinksOK, QueuesOK
<1> QED BY <1>1, <1>3, <1>5, ReceiveTypes DEF TInv, LinksOK, QueuesOK

LEMMA DataTypes ==
    ASSUME TInv, NEW cn \in Cns, DataBlock(cn) \/ Mark(cn) \/ Interrupt(cn)
    PROVE  LinksOK' /\ QueuesOK'
<1>1. UNCHANGED <<svmState, connFd>> /\ \E kind : Receive(kind, cn)
  BY DEF DataBlock, Mark, Interrupt, portVars
<1>2. upline \in Seq(UplineMessages) /\ outputQ \in [Cns -> Seq(OutputBuffers)]
  BY DEF TInv, QueuesOK
<1> SUFFICES /\ outputQ' \in [Cns -> Seq(OutputBuffers)] /\ upline' \in Seq(UplineMessages)
             /\ breakPending' \in [Cns -> BOOLEAN]
  BY <1>1, ReceiveTypes DEF TInv, LinksOK, QueuesOK
<1>3. CASE DataBlock(cn)
  <2> DEFINE n == Head(downline).bsn
  <2>1. n \in 1 .. Window
    BY <1>3, ReceiveTypes, HeadBsn DEF DataBlock
  <2>2. breakPending' \in [Cns -> BOOLEAN]
    BY <1>3 DEF DataBlock, TInv, QueuesOK
  <2>3. CASE termState[cn] = "Connected"
    <3> DEFINE q == [outputQ EXCEPT ![cn] = QueueAck(@, n)]
    <3>1. TryOutput(pcbp[cn], q, upline)
      BY <1>3, <2>3 DEF DataBlock
    <3> HIDE DEF n
    <3>2. QueueAck(outputQ[cn], n) \in Seq(OutputBuffers)
      BY <1>2, <2>1, QueueAckIsQueue
    <3>3. q \in [Cns -> Seq(OutputBuffers)]
      BY <1>2, <3>2
    <3>4. pcbp[cn] \in Ports
      BY <2>3 DEF TInv, IInv, TiesOK, HasPort
    <3> HIDE DEF q
    <3> QED BY <1>2, <2>2, <3>1, <3>3, <3>4, TryOutputTypes DEF TInv
  <2>4. CASE termState[cn] # "Connected"
    <3>1. upline' = Append(upline, Msg("BACK", cn, n)) /\ UNCHANGED outputQ
      BY <1>3, <2>4 DEF DataBlock, Reply
    <3> HIDE DEF n
    <3>2. Msg("BACK", cn, n) \in UplineMessages
      BY <2>1, UplineKinds, NumbersAreThese
    <3> QED BY <1>2, <2>2, <3>1, <3>2
  <2> QED BY <2>3, <2>4
<1>4. CASE Mark(cn)
  <2> DEFINE n == Head(downline).bsn
  <2>1. n \in Numbers
    BY <1>4, ReceiveTypes, HeadBsn, NumbersAreThese DEF Mark
  <2>2. /\ upline' = Append(upline, Msg("BACK", cn, n)) /\ UNCHANGED outputQ
        /\ breakPending' = [breakPending EXCEPT ![cn] = FALSE]
    BY <1>4 DEF Mark, Reply
  <2> HIDE DEF n
  <2>3. Msg("BACK", cn, n) \in UplineMessages
    BY <2>1, UplineKinds
  <2> QED BY <1>2, <2>2, <2>3 DEF TInv, QueuesOK
<1>5. CASE Interrupt(cn)
  <2>1. /\ upline' = upline \o Acks(cn, outputQ[cn]) /\ UNCHANGED breakPending
        /\ outputQ' = [outputQ EXCEPT ![cn] = <<>>]
    BY <1>5 DEF Interrupt
  <2>2. outputQ[cn] \in Seq(OutputBuffers)
    BY <1>2
  <2>3. Acks(cn, outputQ[cn]) \in Seq(UplineMessages)
    BY <2>2, AcksAreMessages
  <2>4. [outputQ EXCEPT ![cn] = <<>>] \in [Cns -> Seq(OutputBuffers)]
    BY <1>2, Emptied
  <2> QED BY <1>2, <2>1, <2>3, <2>4 DEF TInv, QueuesOK
<1> QED BY <1>3, <1>4, <1>5

LEMMA DownlineTypes ==
    ASSUME TInv, ProcessDownline
    PROVE  LinksOK' /\ QueuesOK'
<1>1. CASE SupervisionReply
  BY <1>1, ReceiveTypes DEF SupervisionReply, TInv, LinksOK, QueuesOK, portVars,
       termVars, flowVars
<1> QED BY <1>1, ConfigurationReplyTypes, ConnectionTypes, DataTypes DEF ProcessDownline

-----------------------------------------------------------------------------

LEMMA HostReceiveTypes ==
    ASSUME TInv, NEW kind, NEW id, HostReceive(kind, id)
    PROVE  /\ ~resetting /\ upline # <<>> /\ upline' = Tail(upline)
           /\ upline' \in Seq(UplineMessages) /\ Head(upline) \in UplineMessages
           /\ Head(upline).kind = kind
           /\ UNCHANGED <<svmState, portVars, termVars, netVars, resetVars>>
  BY DEF TInv, QueuesOK, HostReceive

\* The host's step changes its own side and the queues.
LEMMA HostSideTypes ==
    ASSUME TInv, UNCHANGED <<portVars, termVars, netVars, resetVars>>,
           svmState' \in {"StIdle", "StWaitSupervision", "StReady"},
           hostState' \in [Cns -> {"idle", "connected", "hostDisc", "npuDisc"}],
           unacked' \in [Cns -> Seq(Numbers)],
           upline' \in Seq(UplineMessages), downline' \in Seq(DownlineMessages)
    PROVE  LinksOK' /\ QueuesOK'
  BY DEF TInv, LinksOK, QueuesOK, portVars, termVars, flowVars, netVars, resetVars

LEMMA HostTypes ==
    ASSUME TInv, Host
    PROVE  LinksOK' /\ QueuesOK'
<1>0. /\ svmState \in {"StIdle", "StWaitSupervision", "StReady"}
      /\ hostState \in [Cns -> {"idle", "connected", "hostDisc", "npuDisc"}]
      /\ unacked \in [Cns -> Seq(Numbers)]
      /\ upline \in Seq(UplineMessages) /\ downline \in Seq(DownlineMessages)
  BY DEF TInv, LinksOK, QueuesOK
<1>1. CASE NotifyHostRegulation
  <2>1. upline' \in Seq(UplineMessages)
    <3>1. Message("SUP/R", Nobody) \in UplineMessages
      BY DEF Message, Msg, UplineMessages
    <3> QED BY <1>0, <1>1, <3>1 DEF NotifyHostRegulation
  <2> QED BY <1>0, <1>1, <2>1, HostSideTypes DEF NotifyHostRegulation, hostVars
<1>2. CASE HostProcesses
  <2>1. PICK kind, id : HostReceive(kind, id)
    BY <1>2 DEF HostProcesses, HostSupervises, HostConfigures, HostConnects,
         HostDisconnects,
                HostAcknowledged, HostMarks
  <2> SUFFICES /\ hostState' \in [Cns -> {"idle", "connected", "hostDisc", "npuDisc"}]
               /\ unacked' \in [Cns -> Seq(Numbers)] /\ downline' \in Seq(DownlineMessages)
    BY <1>0, <2>1, HostReceiveTypes, HostSideTypes
  <2>2. CASE HostSupervises \/ \E p \in Ports : HostConfigures(p)
    <3>1. UNCHANGED hostVars /\ \E m \in DownlineMessages : downline' = Append(downline, m)
      BY <2>2, DownlineKinds DEF HostSupervises, HostConfigures, HostSends
    <3> QED BY <1>0, <3>1 DEF hostVars
  <2>3. ASSUME NEW cn \in Cns, HostConnects(cn) \/ HostDisconnects(cn)
        PROVE  /\ hostState' \in [Cns -> {"idle", "connected", "hostDisc", "npuDisc"}]
               /\ unacked' \in [Cns -> Seq(Numbers)] /\ downline' \in Seq(DownlineMessages)
    <3>1. \/ UNCHANGED downline
          \/ \E k \in {"ICN/N", "ICN/E", "TERM", "TCN/N"} : downline' = Append(downline, Message(k, cn))
      BY <2>3 DEF HostConnects, HostDisconnects, HostSends
    <3>2. /\ \/ UNCHANGED hostState
             \/ \E s \in {"idle", "connected", "npuDisc"} :
                   hostState' = [hostState EXCEPT ![cn] = s]
          /\ UNCHANGED unacked \/ unacked' = [unacked EXCEPT ![cn] = <<>>]
      BY <2>3 DEF HostConnects, HostDisconnects, HostEnds, hostVars
    <3>3. downline' \in Seq(DownlineMessages)
      <4>1. \A k \in {"ICN/N", "ICN/E", "TERM", "TCN/N"} : Message(k, cn) \in DownlineMessages
        BY <2>3, DownlineKinds
      <4>2. \A m \in DownlineMessages : Append(downline, m) \in Seq(DownlineMessages)
        BY <1>0
      <4> QED BY <1>0, <3>1, <4>1, <4>2, Zenon
    <3>4. unacked' \in [Cns -> Seq(Numbers)]
      <4>1. [unacked EXCEPT ![cn] = <<>>] \in [Cns -> Seq(Numbers)]
        BY <1>0, Emptied
      <4> QED BY <1>0, <3>2, <4>1
    <3> QED BY <1>0, <3>2, <3>3, <3>4
  <2>4. ASSUME NEW cn \in Cns, HostAcknowledged(cn)
        PROVE  /\ hostState' \in [Cns -> {"idle", "connected", "hostDisc", "npuDisc"}]
               /\ unacked' \in [Cns -> Seq(Numbers)] /\ downline' \in Seq(DownlineMessages)
    <3> DEFINE left == Selected(unacked[cn], Numbers \ {Head(upline).bsn})
    <3>1. UNCHANGED <<downline, hostState>> /\ unacked' = [unacked EXCEPT ![cn] = left]
      BY <2>4 DEF HostAcknowledged
    <3>2. left \in Seq(Numbers)
      BY <1>0, SelectedIsSequence
    <3> HIDE DEF left
    <3> QED BY <1>0, <3>1, <3>2
  <2>5. ASSUME NEW cn \in Cns, HostMarks(cn)
        PROVE  /\ hostState' \in [Cns -> {"idle", "connected", "hostDisc", "npuDisc"}]
               /\ unacked' \in [Cns -> Seq(Numbers)] /\ downline' \in Seq(DownlineMessages)
    <3>1. UNCHANGED hostState
      BY <2>5 DEF HostMarks
    <3>2. CASE UNCHANGED <<downline, unacked>>
      BY <1>0, <3>1, <3>2
    <3>3. CASE /\ downline' = Append(downline, Msg("MARK", cn, MarkNumber))
               /\ unacked' = [unacked EXCEPT ![cn] = Append(@, MarkNumber)]
      <4>1. Msg("MARK", cn, MarkNumber) \in DownlineMessages /\ MarkNumber \in Numbers
        BY DownlineKinds, NumbersAreThese
      <4>2. Append(unacked[cn], MarkNumber) \in Seq(Numbers)
        BY <1>0, <4>1
      <4> QED BY <1>0, <3>1, <3>3, <4>1, <4>2
    <3> QED BY <2>5, <3>2, <3>3 DEF HostMarks, HostSends
  <2> QED BY <1>2, <2>2, <2>3, <2>4, <2>5 DEF HostProcesses
<1>3. ASSUME NEW cn \in Cns, HostActs(cn) PROVE LinksOK' /\ QueuesOK'
  <2>1. UNCHANGED <<svmState, portVars, termVars, netVars, upline, resetVars>>
    BY <1>3 DEF HostActs
  <2>2. CASE HostAsksForEnd(cn) \/ HostInterrupts(cn)
    <3>1. /\ UNCHANGED unacked
          /\ \E k \in {"TCN/R", "ICMD"} : downline' = Append(downline, Message(k, cn))
          /\ UNCHANGED hostState \/ hostState' = [hostState EXCEPT ![cn] = "hostDisc"]
      BY <2>2 DEF HostAsksForEnd, HostInterrupts, HostSends, hostVars
    <3>2. downline' \in Seq(DownlineMessages)
      BY <1>0, <3>1, DownlineKinds
    <3>3. hostState' \in [Cns -> {"idle", "connected", "hostDisc", "npuDisc"}]
      BY <1>0, <3>1
    <3> QED BY <1>0, <2>1, <3>1, <3>2, <3>3, HostSideTypes
  <2>3. CASE HostSendsBlock(cn)
    <3> DEFINE unused == (1 .. Window) \ ToSet(unacked[cn])
               n == Min(unused)
    <3>1. /\ unused # {} /\ UNCHANGED hostState
          /\ downline' = Append(downline, Msg("MSG", cn, n))
          /\ unacked' = [unacked EXCEPT ![cn] = Append(@, n)]
      BY <2>3 DEF HostSendsBlock, HostSends
    <3>2. n \in 1 .. Window
      <4>1. \A m \in unused : m \in 1 .. Window /\ m \in Nat
        OBVIOUS
      <4> HIDE DEF unused
      <4> QED BY <3>1, <4>1, MinIsOne
    <3> HIDE DEF n
    <3>3. downline' \in Seq(DownlineMessages)
      BY <1>0, <3>1, <3>2, DownlineKinds
    <3>4. Append(unacked[cn], n) \in Seq(Numbers)
      BY <1>0, <3>2, NumbersAreThese
    <3>5. unacked' \in [Cns -> Seq(Numbers)]
      BY <1>0, <3>1, <3>4
    <3> QED BY <1>0, <2>1, <3>1, <3>3, <3>5, HostSideTypes
  <2> QED BY <1>3, <2>2, <2>3 DEF HostActs
<1> QED BY <1>1, <1>2, <1>3 DEF Host

LEMMA ResetTypes ==
    ASSUME TInv, Reset
    PROVE  LinksOK' /\ QueuesOK'
<1>0. resets \in 0 .. MaxResets /\ MaxResets \in Nat
  BY BoundsAssumption DEF TInv, LinksOK
<1>1. CASE NetReset
  <2>1. outputQ' \in [Cns -> Seq(OutputBuffers)]
    BY <1>1 DEF NetReset, TInv, QueuesOK
  <2>2. connFd' \in [Ports -> {"none", "open", "left"}] /\ resets' \in 0 .. MaxResets /\ unsettled' = {}
    BY <1>0, <1>1 DEF NetReset
  <2> QED BY <1>1, <2>1, <2>2 DEF NetReset, TInv, LinksOK, QueuesOK, lineVars, hostVars
<1>2. CASE ResetRest
  <2>1. outputQ' \in [Cns -> Seq(OutputBuffers)] /\ unacked' \in [Cns -> Seq(Numbers)]
    BY <1>2 DEF ResetRest
  <2>2. /\ hostState' \in [Cns -> {"idle", "connected", "hostDisc", "npuDisc"}]
        /\ breakPending' \in [Cns -> BOOLEAN] /\ svmState' = "StIdle"
        /\ upline' \in Seq(UplineMessages) /\ downline' \in Seq(DownlineMessages)
    BY <1>2 DEF ResetRest
  <2> QED BY <1>2, <2>1, <2>2 DEF ResetRest, TInv, LinksOK, QueuesOK, portVars, netVars
<1> QED BY <1>1, <1>2 DEF Reset

LEMMA InitTInv == Init => TInv
<1> SUFFICES ASSUME Init PROVE LinksOK /\ QueuesOK
  BY InitIInv DEF TInv
<1>1. LinksOK
  BY BoundsAssumption DEF Init, LinksOK
<1>2. QueuesOK
  BY DEF Init, QueuesOK
<1> QED BY <1>1, <1>2

LEMMA NextTInv == TInv /\ [Next]_vars => TInv'
<1> SUFFICES ASSUME TInv, [Next]_vars PROVE LinksOK' /\ QueuesOK'
  BY NextIInv DEF TInv
<1>1. CASE UNCHANGED vars
  BY <1>1 DEF TInv, LinksOK, QueuesOK, vars, portVars, termVars, flowVars, netVars,
       lineVars,
              resetVars, hostVars
<1>2. CASE NetThread \/ User
  BY <1>2, NetThreadTypes
<1>3. CASE CheckStatus
  BY <1>3, CheckStatusOpenTypes, CheckStatusLeftTypes DEF CheckStatus
<1>4. CASE ProcessDownline
  BY <1>4, DownlineTypes
<1>5. CASE Host \/ Reset
  BY <1>5, HostTypes, ResetTypes
<1> QED BY <1>1, <1>2, <1>3, <1>4, <1>5 DEF Next

\* Every variable keeps to its type: the tables of ports and terminals, the queues and
\* the messages each way, whatever was closed, reused or reset in between.
THEOREM TypesAreKept == Spec => []TypeOK
<1>1. Spec => []TInv
  BY InitTInv, NextTInv, PTL DEF Spec
<1>2. TInv => TypeOK
  BY DEF TInv, IInv, TiesOK, LinksOK, QueuesOK, OutputBuffers, TypeOK
<1> QED BY <1>1, <1>2, PTL

-----------------------------------------------------------------------------
(* Which kinds of messages of an owner are in a queue, and in what order.  *)

Of(m, kinds, id) == m.kind \in kinds /\ m.id = id

\* There is at most one message of these kinds.
Once(queue, kinds, id) ==
    \A i, j \in DOMAIN queue :
        Of(queue[i], kinds, id) /\ Of(queue[j], kinds, id) => i = j

\* Behind a message of kinds first there is none of kinds later.
NoneBehind(queue, first, later, id) ==
    \A i, j \in DOMAIN queue :
        i < j /\ Of(queue[i], first, id) => ~Of(queue[j], later, id)

\* Queue r is queue q as far as the owner's messages go; is q with messages of one
\* kind added; is q with its first message, of the owner, taken.
SameFor(q, r, id) ==
    /\ \A K : Has(r, K, id) <=> Has(q, K, id)
    /\ \A K : Once(q, K, id) => Once(r, K, id)
    /\ \A F, L : NoneBehind(q, F, L, id) => NoneBehind(r, F, L, id)

Sent(q, r, id, kind) ==
    /\ \A K : Has(r, K, id) <=> Has(q, K, id) \/ kind \in K
    /\ \A K : /\ Once(q, K, id)
              /\ kind \in K => kind # "BACK" /\ ~Has(q, K, id)
              => Once(r, K, id)
    /\ \A F, L : /\ NoneBehind(q, F, L, id)
                 /\ kind \in L => ~Has(q, F, id)
                 /\ ~(kind \in F /\ kind \in L)
                 => NoneBehind(r, F, L, id)

Taken(q, r, id, kind) ==
    /\ \A K : Has(q, K, id) <=> Has(r, K, id) \/ kind \in K
    /\ \A K : Once(q, K, id) => Once(r, K, id) /\ (kind \in K => ~Has(r, K, id))
    /\ \A F, L : NoneBehind(q, F, L, id) =>
                    NoneBehind(r, F, L, id) /\ (kind \in F => ~Has(r, L, id))

LEMMA AppendedIsSent ==
    ASSUME NEW T, NEW q \in Seq(T), NEW m \in T, NEW id
    PROVE  IF m.id = id THEN Sent(q, Append(q, m), id, m.kind)
           ELSE SameFor(q, Append(q, m), id)
<1> DEFINE r == Append(q, m)
           n == Len(q)
<1>1. /\ n \in Nat /\ DOMAIN q = 1 .. n /\ DOMAIN r = 1 .. n + 1 /\ r[n + 1] = m
      /\ \A i \in 1 .. n : r[i] = q[i]
  OBVIOUS
<1> HIDE DEF r, n
<1>2. ASSUME NEW K PROVE Has(r, K, id) <=> Has(q, K, id) \/ Of(m, K, id)
  <2>1. CASE Of(m, K, id)
    BY <1>1, <2>1 DEF Has, Of
  <2>2. CASE ~Of(m, K, id)
    BY <1>1, <2>2 DEF Has, Of
  <2> QED BY <2>1, <2>2
<1>3. ASSUME NEW K, Once(q, K, id), Of(m, K, id) => ~Has(q, K, id)
      PROVE  Once(r, K, id)
  BY <1>1, <1>3 DEF Once, Has, Of
<1>4. ASSUME NEW F, NEW L, NoneBehind(q, F, L, id), Of(m, L, id) => ~Has(q, F, id)
      PROVE  NoneBehind(r, F, L, id)
  BY <1>1, <1>4 DEF NoneBehind, Has, Of
<1>5. CASE m.id = id
  BY <1>2, <1>3, <1>4, <1>5 DEF Sent, Of, r
<1>6. CASE m.id # id
  BY <1>2, <1>3, <1>4, <1>6 DEF SameFor, Of, r
<1> QED BY <1>5, <1>6

LEMMA HeadIsTaken ==
    ASSUME NEW T, NEW q \in Seq(T), q # <<>>, NEW id
    PROVE  IF Head(q).id = id THEN Taken(q, Tail(q), id, Head(q).kind)
           ELSE SameFor(q, Tail(q), id)
<1> DEFINE r == Tail(q)
           n == Len(q)
           m == Head(q)
<1>1. /\ n \in Nat \ {0} /\ DOMAIN q = 1 .. n /\ DOMAIN r = 1 .. n - 1 /\ q[1] = m
      /\ \A i \in 1 .. n - 1 : r[i] = q[i + 1]
  OBVIOUS
<1> HIDE DEF r, n, m
<1>0. \A i \in 2 .. n : i - 1 \in 1 .. n - 1 /\ q[i] = r[i - 1]
  <2> TAKE i \in 2 .. n
  <2>1. i - 1 \in 1 .. n - 1 /\ (i - 1) + 1 = i
    BY <1>1
  <2> QED BY <1>1, <2>1
<1>2. ASSUME NEW K PROVE Has(q, K, id) <=> Has(r, K, id) \/ Of(m, K, id)
  <2>1. CASE Of(m, K, id)
    BY <1>1, <2>1 DEF Has, Of
  <2>2. CASE ~Of(m, K, id)
    <3>1. ASSUME NEW i \in DOMAIN q, Of(q[i], K, id)
          PROVE  \E j \in DOMAIN r : Of(r[j], K, id)
      <4>1. i \in 2 .. n
        BY <1>1, <2>2, <3>1
      <4> QED BY <1>0, <1>1, <3>1, <4>1
    <3>2. ASSUME NEW i \in DOMAIN r, Of(r[i], K, id)
          PROVE  \E j \in DOMAIN q : Of(q[j], K, id)
      <4>1. i + 1 \in DOMAIN q /\ r[i] = q[i + 1]
        BY <1>1
      <4> QED BY <3>2, <4>1
    <3> QED BY <2>2, <3>1, <3>2 DEF Has, Of
  <2> QED BY <2>1, <2>2
<1>3. ASSUME NEW K, Once(q, K, id)
      PROVE  Once(r, K, id) /\ (Of(m, K, id) => ~Has(r, K, id))
  <2>1. ASSUME NEW i \in DOMAIN r, NEW j \in DOMAIN r, Of(r[i], K, id), Of(r[j], K, id)
        PROVE  i = j
    <3>1. /\ i + 1 \in DOMAIN q /\ r[i] = q[i + 1] /\ j + 1 \in DOMAIN q /\ r[j] = q[j + 1]
          /\ i \in Int /\ j \in Int
      BY <1>1
    <3>2. i + 1 = j + 1
      BY <1>3, <2>1, <3>1 DEF Once
    <3> QED BY <3>1, <3>2
  <2>2. ASSUME NEW i \in DOMAIN r, Of(r[i], K, id), Of(m, K, id)
        PROVE  FALSE
    <3>1. i + 1 \in DOMAIN q /\ r[i] = q[i + 1] /\ i + 1 # 1 /\ 1 \in DOMAIN q
      BY <1>1
    <3> QED BY <1>1, <1>3, <2>2, <3>1 DEF Once
  <2> QED BY <2>1, <2>2 DEF Once, Has, Of
<1>4. ASSUME NEW F, NEW L, NoneBehind(q, F, L, id)
      PROVE  NoneBehind(r, F, L, id) /\ (Of(m, F, id) => ~Has(r, L, id))
  <2>1. ASSUME NEW i \in DOMAIN r, NEW j \in DOMAIN r, i < j, Of(r[i], F, id)
        PROVE  ~Of(r[j], L, id)
    <3>1. /\ i + 1 \in DOMAIN q /\ r[i] = q[i + 1] /\ j + 1 \in DOMAIN q /\ r[j] = q[j + 1]
          /\ i + 1 < j + 1
      BY <1>1, <2>1
    <3> QED BY <1>4, <2>1, <3>1 DEF NoneBehind
  <2>2. ASSUME NEW j \in DOMAIN r, Of(m, F, id)
        PROVE  ~Of(r[j], L, id)
    <3>1. j + 1 \in DOMAIN q /\ r[j] = q[j + 1] /\ 1 < j + 1 /\ 1 \in DOMAIN q
      BY <1>1
    <3> QED BY <1>1, <1>4, <2>2, <3>1 DEF NoneBehind
  <2> QED BY <2>1, <2>2 DEF NoneBehind, Has, Of
<1>5. CASE m.id = id
  BY <1>2, <1>3, <1>4, <1>5 DEF Taken, Of, r, m
<1>6. CASE m.id # id
  BY <1>2, <1>3, <1>4, <1>6 DEF SameFor, Of, r, m
<1> QED BY <1>5, <1>6 DEF m

LEMMA SameForItself ==
    ASSUME NEW q, NEW id
    PROVE  SameFor(q, q, id)
  BY DEF SameFor

\* Acknowledgements change nothing for other connections, and nothing at all if the
\* buffers are none.
LEMMA AcksAreSent ==
    ASSUME NEW T, NEW q \in Seq(T), NEW cn, NEW B, NEW buffers \in Seq(B), NEW id,
           Acks(cn, buffers) \in Seq(T)
    PROVE  \/ SameFor(q, q \o Acks(cn, buffers), id)
           \/ id = cn /\ buffers # <<>> /\ Sent(q, q \o Acks(cn, buffers), id, "BACK")
<1> DEFINE a == Acks(cn, buffers)
           r == q \o a
           n == Len(q)
           k == Len(a)
<1>1. DOMAIN a = 1 .. k /\ k \in Nat
  OBVIOUS
<1>2. \A i \in 1 .. k : a[i].kind = "BACK" /\ a[i].id = cn
  BY <1>1 DEF Acks, Msg
<1>3. /\ n \in Nat /\ DOMAIN q = 1 .. n /\ DOMAIN r = 1 .. n + k
      /\ \A i \in 1 .. n : r[i] = q[i]
      /\ \A i \in n + 1 .. n + k : r[i] = a[i - n]
  OBVIOUS
<1>4. buffers = <<>> => k = 0
  <2> SUFFICES ASSUME buffers = <<>> PROVE k = 0
    OBVIOUS
  <2>1. Selected(buffers, Numbers) = <<>>
    BY SelectedOfEmpty
  <2>2. DOMAIN a = {}
    BY <2>1 DEF Acks
  <2> QED BY <1>1, <2>2
<1> HIDE DEF a, r, n, k
<1>5. \A i \in n + 1 .. n + k : r[i].kind = "BACK" /\ r[i].id = cn
  <2> TAKE i \in n + 1 .. n + k
  <2>1. i - n \in 1 .. k
    BY <1>1, <1>3
  <2> QED BY <1>2, <1>3, <2>1
<1>6. CASE k = 0 \/ id # cn
  <2>1. \A i \in DOMAIN r : (i \in DOMAIN q /\ r[i] = q[i]) \/ r[i].id # id
    BY <1>1, <1>3, <1>5, <1>6
  <2>2. \A i \in DOMAIN q : i \in DOMAIN r /\ r[i] = q[i]
    BY <1>1, <1>3
  <2>3. \A K : Has(r, K, id) <=> Has(q, K, id)
    BY <2>1, <2>2 DEF Has
  <2>4. \A K : Once(q, K, id) => Once(r, K, id)
    BY <2>1, <2>2 DEF Once, Of
  <2>5. \A F, L : NoneBehind(q, F, L, id) => NoneBehind(r, F, L, id)
    BY <2>1, <2>2 DEF NoneBehind, Of
  <2> QED BY <2>3, <2>4, <2>5 DEF SameFor, r, a
<1>7. CASE k # 0 /\ id = cn
  <2>1. \A i \in DOMAIN r : \/ i \in DOMAIN q /\ r[i] = q[i]
                            \/ i > n /\ r[i].kind = "BACK" /\ r[i].id = id
    BY <1>1, <1>3, <1>5, <1>7
  <2>2. \A i \in DOMAIN q : i \in DOMAIN r /\ r[i] = q[i] /\ i <= n
    BY <1>1, <1>3
  <2>3. n + 1 \in DOMAIN r /\ r[n + 1].kind = "BACK" /\ r[n + 1].id = id
    BY <1>1, <1>3, <1>5, <1>7
  <2>4. \A i \in DOMAIN r : i \in Int
    BY <1>1, <1>3
  <2>5. ASSUME NEW K PROVE Has(r, K, id) <=> Has(q, K, id) \/ "BACK" \in K
    BY <2>1, <2>2, <2>3 DEF Has
  <2>6. ASSUME NEW K, Once(q, K, id), "BACK" \notin K PROVE Once(r, K, id)
    BY <2>1, <2>2, <2>6 DEF Once, Of
  <2>7. ASSUME NEW F, NEW L, NoneBehind(q, F, L, id), "BACK" \in L => ~Has(q, F, id),
               ~("BACK" \in F /\ "BACK" \in L)
        PROVE  NoneBehind(r, F, L, id)
    <3> SUFFICES ASSUME NEW i \in DOMAIN r, NEW j \in DOMAIN r, i < j, Of(r[i], F, id),
                        Of(r[j], L, id)
                 PROVE  FALSE
      BY DEF NoneBehind
    <3>1. CASE j \in DOMAIN q
      <4>1. i \in DOMAIN q
        BY <1>3, <1>1, <3>1
      <4> QED BY <2>2, <2>7, <3>1, <4>1 DEF NoneBehind
    <3>2. CASE j \notin DOMAIN q
      <4>1. "BACK" \in L
        BY <2>1, <3>2 DEF Of
      <4>2. i \notin DOMAIN q
        BY <2>2, <2>7, <4>1 DEF Has, Of
      <4> QED BY <2>1, <2>7, <4>1, <4>2 DEF Of
    <3> QED BY <3>1, <3>2
  <2> QED BY <1>4, <1>7, <2>5, <2>6, <2>7 DEF Sent, r, a, k
<1> QED BY <1>6, <1>7

UpControl   == {"ICN/R", "TCN/R", "TCN/N", "TERM"}
DownControl == {"ICN/N", "ICN/E", "TCN/R", "TCN/N", "TERM"}
DownData == {"MSG", "MARK", "ICMD"}

Kinds(queue, control, id) == {k \in control : Has(queue, {k}, id)}

Phases == {
  <<"Idle", "idle", {}, {}>>,
  <<"RequestConnection", "idle", {"ICN/R"}, {}>>,
  <<"RequestConnection", "idle", {}, {"ICN/E"}>>,
  <<"RequestConnection", "connected", {}, {"ICN/N"}>>,
  <<"RequestConnection", "hostDisc", {}, {"ICN/N", "TCN/R"}>>,
  <<"Connected", "connected", {}, {}>>,
  <<"Connected", "hostDisc", {}, {"TCN/R"}>>,
  <<"HostRequestDisconnect", "hostDisc", {"TERM"}, {}>>,
  <<"HostRequestDisconnect", "hostDisc", {}, {"TERM"}>>,
  <<"Idle", "hostDisc", {"TCN/N"}, {}>>,
  <<"RequestConnection", "hostDisc", {"TCN/N", "ICN/R"}, {}>>,
  <<"NpuRequestDisconnect", "connected", {"TCN/R"}, {}>>,
  <<"NpuRequestDisconnect", "npuDisc", {}, {"TERM"}>>,
  <<"NpuRequestDisconnect", "npuDisc", {"TERM"}, {}>>,
  <<"NpuRequestDisconnect", "idle", {}, {"TCN/N"}>>,
  <<"NpuRequestDisconnect", "hostDisc", {"TCN/R"}, {"TCN/R"}>>,
  <<"NpuRequestDisconnect", "hostDisc", {"TCN/R", "TCN/N"}, {}>>,
  <<"NpuRequestDisconnect", "hostDisc", {}, {"TCN/R", "TCN/N"}>>,
  <<"NpuRequestDisconnect", "hostDisc", {"TCN/N"}, {"TCN/N"}>> }

Ordered(cn, hs, up, down) ==
    /\ \A k \in UpControl : Once(up, {k}, cn)
    /\ \A k \in DownControl : Once(down, {k}, cn)
    /\ NoneBehind(up, {"ICN/R"}, {"TCN/N"}, cn)
    /\ NoneBehind(up, {"TCN/N"}, {"TCN/R"}, cn)
    /\ \A k \in {"BREAK", "BACK"} : /\ NoneBehind(up, {"TCN/N"}, {k}, cn)
                                    /\ NoneBehind(up, {"ICN/R"}, {k}, cn)
    /\ \A k \in {"TCN/R", "TERM"} : NoneBehind(up, {k}, {"BREAK"}, cn)
    /\ hs = "npuDisc" => NoneBehind(up, {"TERM"}, {"BACK"}, cn)
    /\ NoneBehind(down, {"TCN/R"}, {"ICN/N"}, cn)
    /\ NoneBehind(down, {"TCN/N"}, {"TCN/R"}, cn)
    /\ \A k \in {"TCN/R", "TERM", "TCN/N"} : NoneBehind(down, {k}, DownData, cn)
    /\ NoneBehind(down, DownData, {"ICN/N"}, cn)

DataIsExpected(cn, ts, hs, up, down, out) ==
    /\ Has(up, {"BREAK"}, cn) => hs \in {"connected", "hostDisc"}
    /\ Has(up, {"BACK"}, cn) => hs # "idle"
    /\ Has(down, DownData, cn) =>
         /\ \A k \in {"ICN/R", "TCN/N", "TERM"} : ~Has(up, {k}, cn)
         /\ hs # "idle"
         /\ ts \in {"Connected", "NpuRequestDisconnect"} \/ Has(down, {"ICN/N"}, cn)
    /\ out # <<>> => ts \in {"Connected", "HostRequestDisconnect", "Idle"}

Agrees(cn, ts, hs, up, down, out) ==
    /\ <<ts, hs, Kinds(up, UpControl, cn), Kinds(down, DownControl, cn)>> \in Phases
    /\ Ordered(cn, hs, up, down)
    /\ DataIsExpected(cn, ts, hs, up, down, out)

LEMMA KindsSame ==
    ASSUME NEW q, NEW r, NEW id, SameFor(q, r, id), NEW C
    PROVE  Kinds(r, C, id) = Kinds(q, C, id)
<1>1. \A k : Has(r, {k}, id) <=> Has(q, {k}, id)
  BY DEF SameFor
<1>2. \A k : k \in Kinds(r, C, id) <=> k \in Kinds(q, C, id)
  BY <1>1 DEF Kinds
<1>3. QED
  BY <1>2 DEF Kinds

LEMMA NothingBehindNone ==
    ASSUME NEW q, NEW id, NEW F, ~Has(q, F, id), NEW L
    PROVE  NoneBehind(q, F, L, id)
  BY DEF NoneBehind, Has, Of

LEMMA KindsSent ==
    ASSUME NEW q, NEW r, NEW id, NEW k, Sent(q, r, id, k), NEW C
    PROVE  /\ k \in C => Kinds(r, C, id) = Kinds(q, C, id) \cup {k}
           /\ k \notin C => Kinds(r, C, id) = Kinds(q, C, id)
  BY DEF Sent, Kinds

LEMMA KindsTaken ==
    ASSUME NEW q, NEW r, NEW id, NEW k, Taken(q, r, id, k), NEW C
    PROVE  /\ k \in C /\ Once(q, {k}, id) => /\ k \in Kinds(q, C, id)
                                             /\ Kinds(r, C, id) = Kinds(q, C, id) \ {k}
           /\ k \notin C => Kinds(r, C, id) = Kinds(q, C, id)
  BY DEF Taken, Kinds

LEMMA PhaseOfConfigured ==
    ASSUME NEW hs, NEW U, NEW D, <<"Idle", hs, U, D>> \in Phases
    PROVE  /\ <<"RequestConnection", hs, U \cup {"ICN/R"}, D>> \in Phases
           /\ U \subseteq {"TCN/N"}
           /\ D = {}
  BY DEF Phases

\* The NPU asks for a connection.
LEMMA Configured ==
    ASSUME NEW cn, NEW hs, NEW up, NEW down, NEW out, NEW up2,
           Agrees(cn, "Idle", hs, up, down, out),
           Sent(up, up2, cn, "ICN/R")
    PROVE  Agrees(cn, "RequestConnection", hs, up2, down, <<>>)
<1> DEFINE U == Kinds(up, UpControl, cn)
           D == Kinds(down, DownControl, cn)
<1>1. Kinds(up2, UpControl, cn) = U \cup {"ICN/R"}
  BY KindsSent DEF UpControl, Agrees, Ordered
<1>4. <<"Idle", hs, U, D>> \in Phases
  BY DEF Agrees
<1>5. /\ <<"RequestConnection", hs, U \cup {"ICN/R"}, D>> \in Phases
      /\ U \subseteq {"TCN/N"}
      /\ D = {}
  BY <1>1, <1>4, PhaseOfConfigured
<1>6. /\ \A k \in UpControl : Has(up, {k}, cn) <=> k \in U
      /\ \A k \in DownControl : Has(down, {k}, cn) <=> k \in D
  BY DEF Kinds
<1> HIDE DEF U, D
<1>7. Ordered(cn, hs, up2, down)
  BY <1>5, <1>6 DEF Agrees, Ordered, DataIsExpected, Sent, Taken, UpControl, DownControl,
       DownData
<1>8. DataIsExpected(cn, "RequestConnection", hs, up2, down, <<>>)
  BY <1>5, <1>6 DEF Agrees, Ordered, DataIsExpected, Sent, Taken, UpControl, DownControl,
       DownData
<1> QED BY <1>1, <1>5, <1>7, <1>8 DEF Agrees, U, D

LEMMA PhaseOfAccepted ==
    ASSUME NEW ts, NEW hs, NEW U, NEW D, <<ts, hs, U, D>> \in Phases,
           "ICN/N" \in D
    PROVE  /\ <<"Connected", hs, U, D \ {"ICN/N"}>> \in Phases
           /\ ts = "RequestConnection"
           /\ hs # "idle"
           /\ U = {}
  BY DEF Phases

\* The host accepts it.
LEMMA Accepted ==
    ASSUME NEW cn, NEW ts, NEW hs, NEW up, NEW down, NEW out, NEW down2,
           Agrees(cn, ts, hs, up, down, out),
           Taken(down, down2, cn, "ICN/N")
    PROVE  Agrees(cn, "Connected", hs, up, down2, <<>>)
<1> DEFINE U == Kinds(up, UpControl, cn)
           D == Kinds(down, DownControl, cn)
<1>2. "ICN/N" \in D /\ Kinds(down2, DownControl, cn) = D \ {"ICN/N"}
  BY KindsTaken DEF DownControl, Agrees, Ordered
<1>4. <<ts, hs, U, D>> \in Phases
  BY DEF Agrees
<1>5. /\ <<"Connected", hs, U, D \ {"ICN/N"}>> \in Phases
      /\ ts = "RequestConnection"
      /\ hs # "idle"
      /\ U = {}
  BY <1>2, <1>4, PhaseOfAccepted
<1>6. /\ \A k \in UpControl : Has(up, {k}, cn) <=> k \in U
      /\ \A k \in DownControl : Has(down, {k}, cn) <=> k \in D
  BY DEF Kinds
<1> HIDE DEF U, D
<1>7. Ordered(cn, hs, up, down2)
  BY <1>5, <1>6 DEF Agrees, Ordered, DataIsExpected, Sent, Taken, UpControl, DownControl,
       DownData
<1>8. DataIsExpected(cn, "Connected", hs, up, down2, <<>>)
  BY <1>5, <1>6 DEF Agrees, Ordered, DataIsExpected, Sent, Taken, UpControl, DownControl,
       DownData
<1> QED BY <1>2, <1>5, <1>7, <1>8 DEF Agrees, U, D

LEMMA PhaseOfRejected ==
    ASSUME NEW ts, NEW hs, NEW U, NEW D, <<ts, hs, U, D>> \in Phases,
           "ICN/E" \in D
    PROVE  /\ <<"Idle", hs, U, D \ {"ICN/E"}>> \in Phases
           /\ ts = "RequestConnection"
           /\ U = {}
           /\ D = {"ICN/E"}
  BY DEF Phases

\* The host rejects it.
LEMMA Rejected ==
    ASSUME NEW cn, NEW ts, NEW hs, NEW up, NEW down, NEW out, NEW down2, NEW out2,
           Agrees(cn, ts, hs, up, down, out),
           Taken(down, down2, cn, "ICN/E")
    PROVE  Agrees(cn, "Idle", hs, up, down2, out2)
<1> DEFINE U == Kinds(up, UpControl, cn)
           D == Kinds(down, DownControl, cn)
<1>2. "ICN/E" \in D /\ Kinds(down2, DownControl, cn) = D \ {"ICN/E"}
  BY KindsTaken DEF DownControl, Agrees, Ordered
<1>4. <<ts, hs, U, D>> \in Phases
  BY DEF Agrees
<1>5. /\ <<"Idle", hs, U, D \ {"ICN/E"}>> \in Phases
      /\ ts = "RequestConnection"
      /\ U = {}
      /\ D = {"ICN/E"}
  BY <1>2, <1>4, PhaseOfRejected
<1>6. /\ \A k \in UpControl : Has(up, {k}, cn) <=> k \in U
      /\ \A k \in DownControl : Has(down, {k}, cn) <=> k \in D
  BY DEF Kinds
<1> HIDE DEF U, D
<1>7. Ordered(cn, hs, up, down2)
  BY <1>5, <1>6 DEF Agrees, Ordered, DataIsExpected, Sent, Taken, UpControl, DownControl,
       DownData
<1>8. DataIsExpected(cn, "Idle", hs, up, down2, out2)
  BY <1>5, <1>6 DEF Agrees, Ordered, DataIsExpected, Sent, Taken, UpControl, DownControl,
       DownData
<1> QED BY <1>2, <1>5, <1>7, <1>8 DEF Agrees, U, D

LEMMA PhaseOfDisconnected ==
    ASSUME NEW hs, NEW U, NEW D, <<"Connected", hs, U, D>> \in Phases,
           "TCN/R" \in D,
           "ICN/N" \notin D
    PROVE  /\ <<"HostRequestDisconnect", hs, U \cup {"TERM"}, D \ {"TCN/R"}>> \in Phases
           /\ hs = "hostDisc"
           /\ U = {}
           /\ D = {"TCN/R"}
  BY DEF Phases

\* The host asks for the end of a connection, and the NPU agrees.
LEMMA Disconnected ==
    ASSUME NEW cn, NEW hs, NEW up, NEW down, NEW out, NEW up2, NEW down2,
           Agrees(cn, "Connected", hs, up, down, out),
           Sent(up, up2, cn, "TERM"),
           Taken(down, down2, cn, "TCN/R")
    PROVE  Agrees(cn, "HostRequestDisconnect", hs, up2, down2, out)
<1> DEFINE U == Kinds(up, UpControl, cn)
           D == Kinds(down, DownControl, cn)
<1>1. Kinds(up2, UpControl, cn) = U \cup {"TERM"}
  BY KindsSent DEF UpControl, Agrees, Ordered
<1>2. "TCN/R" \in D /\ Kinds(down2, DownControl, cn) = D \ {"TCN/R"}
  BY KindsTaken DEF DownControl, Agrees, Ordered
<1>3. "ICN/N" \notin D
  BY DEF Agrees, Ordered, Taken, Kinds
<1>4. <<"Connected", hs, U, D>> \in Phases
  BY DEF Agrees
<1>5. /\ <<"HostRequestDisconnect", hs, U \cup {"TERM"}, D \ {"TCN/R"}>> \in Phases
      /\ hs = "hostDisc"
      /\ U = {}
      /\ D = {"TCN/R"}
  BY <1>1, <1>2, <1>3, <1>4, PhaseOfDisconnected
<1>6. /\ \A k \in UpControl : Has(up, {k}, cn) <=> k \in U
      /\ \A k \in DownControl : Has(down, {k}, cn) <=> k \in D
  BY DEF Kinds
<1> HIDE DEF U, D
<1>7. Ordered(cn, hs, up2, down2)
  BY <1>5, <1>6 DEF Agrees, Ordered, DataIsExpected, Sent, Taken, UpControl, DownControl,
       DownData
<1>8. DataIsExpected(cn, "HostRequestDisconnect", hs, up2, down2, out)
  BY <1>5, <1>6 DEF Agrees, Ordered, DataIsExpected, Sent, Taken, UpControl, DownControl,
       DownData
<1> QED BY <1>1, <1>2, <1>5, <1>7, <1>8 DEF Agrees, U, D

LEMMA PhaseOfAlreadyEnding ==
    ASSUME NEW ts, NEW hs, NEW U, NEW D, <<ts, hs, U, D>> \in Phases,
           "TCN/R" \in D,
           ts # "Connected",
           "ICN/N" \notin D
    PROVE  /\ <<ts, hs, U \cup {"TCN/N"}, D \ {"TCN/R"}>> \in Phases
           /\ hs = "hostDisc"
           /\ ts = "NpuRequestDisconnect"
           /\ U \subseteq {"TCN/R"}
           /\ D \subseteq {"TCN/R", "TCN/N"}
  BY DEF Phases

\* The NPU has asked for it already.
LEMMA AlreadyEnding ==
    ASSUME NEW cn, NEW ts, NEW hs, NEW up, NEW down, NEW out, NEW up2, NEW down2,
           Agrees(cn, ts, hs, up, down, out),
           Sent(up, up2, cn, "TCN/N"),
           Taken(down, down2, cn, "TCN/R"),
           ts # "Connected"
    PROVE  Agrees(cn, ts, hs, up2, down2, out)
<1> DEFINE U == Kinds(up, UpControl, cn)
           D == Kinds(down, DownControl, cn)
<1>1. Kinds(up2, UpControl, cn) = U \cup {"TCN/N"}
  BY KindsSent DEF UpControl, Agrees, Ordered
<1>2. "TCN/R" \in D /\ Kinds(down2, DownControl, cn) = D \ {"TCN/R"}
  BY KindsTaken DEF DownControl, Agrees, Ordered
<1>3. "ICN/N" \notin D
  BY DEF Agrees, Ordered, Taken, Kinds
<1>4. <<ts, hs, U, D>> \in Phases
  BY DEF Agrees
<1>5. /\ <<ts, hs, U \cup {"TCN/N"}, D \ {"TCN/R"}>> \in Phases
      /\ hs = "hostDisc"
      /\ ts = "NpuRequestDisconnect"
      /\ U \subseteq {"TCN/R"}
      /\ D \subseteq {"TCN/R", "TCN/N"}
  BY <1>1, <1>2, <1>3, <1>4, PhaseOfAlreadyEnding
<1>6. /\ \A k \in UpControl : Has(up, {k}, cn) <=> k \in U
      /\ \A k \in DownControl : Has(down, {k}, cn) <=> k \in D
  BY DEF Kinds
<1> HIDE DEF U, D
<1>7. Ordered(cn, hs, up2, down2)
  BY <1>5, <1>6 DEF Agrees, Ordered, DataIsExpected, Sent, Taken, UpControl, DownControl,
       DownData
<1>8. DataIsExpected(cn, ts, hs, up2, down2, out)
  BY <1>5, <1>6 DEF Agrees, Ordered, DataIsExpected, Sent, Taken, UpControl, DownControl,
       DownData
<1> QED BY <1>1, <1>2, <1>5, <1>7, <1>8 DEF Agrees, U, D

LEMMA PhaseOfNpuEnds ==
    ASSUME NEW hs, NEW U, NEW D, <<"Connected", hs, U, D>> \in Phases
    PROVE  /\ <<"NpuRequestDisconnect", hs, U \cup {"TCN/R"}, D>> \in Phases
           /\ hs # "idle"
           /\ U = {}
           /\ "ICN/N" \notin D
  BY DEF Phases

\* The NPU asks for the end of a connection.
LEMMA NpuEnds ==
    ASSUME NEW cn, NEW hs, NEW up, NEW down, NEW out, NEW up2,
           Agrees(cn, "Connected", hs, up, down, out),
           Sent(up, up2, cn, "TCN/R")
    PROVE  Agrees(cn, "NpuRequestDisconnect", hs, up2, down, <<>>)
<1> DEFINE U == Kinds(up, UpControl, cn)
           D == Kinds(down, DownControl, cn)
<1>1. Kinds(up2, UpControl, cn) = U \cup {"TCN/R"}
  BY KindsSent DEF UpControl, Agrees, Ordered
<1>4. <<"Connected", hs, U, D>> \in Phases
  BY DEF Agrees
<1>5. /\ <<"NpuRequestDisconnect", hs, U \cup {"TCN/R"}, D>> \in Phases
      /\ hs # "idle"
      /\ U = {}
      /\ "ICN/N" \notin D
  BY <1>1, <1>4, PhaseOfNpuEnds
<1>6. /\ \A k \in UpControl : Has(up, {k}, cn) <=> k \in U
      /\ \A k \in DownControl : Has(down, {k}, cn) <=> k \in D
  BY DEF Kinds
<1> HIDE DEF U, D
<1>7. Ordered(cn, hs, up2, down)
  BY <1>5, <1>6 DEF Agrees, Ordered, DataIsExpected, Sent, Taken, UpControl, DownControl,
       DownData
<1>8. DataIsExpected(cn, "NpuRequestDisconnect", hs, up2, down, <<>>)
  BY <1>5, <1>6 DEF Agrees, Ordered, DataIsExpected, Sent, Taken, UpControl, DownControl,
       DownData
<1> QED BY <1>1, <1>5, <1>7, <1>8 DEF Agrees, U, D

LEMMA PhaseOfEndAgreed ==
    ASSUME NEW ts, NEW hs, NEW U, NEW D, <<ts, hs, U, D>> \in Phases,
           "TCN/N" \in D,
           "TCN/R" \notin D
    PROVE  /\ <<"Idle", hs, U, D \ {"TCN/N"}>> \in Phases
           /\ ts = "NpuRequestDisconnect"
           /\ "ICN/N" \notin D
           /\ U \subseteq {"TCN/N"}
  BY DEF Phases

\* The host agrees to the end of a connection, or is through with it.
LEMMA EndAgreed ==
    ASSUME NEW cn, NEW ts, NEW hs, NEW up, NEW down, NEW out, NEW down2, NEW out2,
           Agrees(cn, ts, hs, up, down, out),
           Taken(down, down2, cn, "TCN/N")
    PROVE  Agrees(cn, "Idle", hs, up, down2, out2)
<1> DEFINE U == Kinds(up, UpControl, cn)
           D == Kinds(down, DownControl, cn)
<1>2. "TCN/N" \in D /\ Kinds(down2, DownControl, cn) = D \ {"TCN/N"}
  BY KindsTaken DEF DownControl, Agrees, Ordered
<1>3. "TCN/R" \notin D
  BY DEF Agrees, Ordered, Taken, Kinds
<1>4. <<ts, hs, U, D>> \in Phases
  BY DEF Agrees
<1>5. /\ <<"Idle", hs, U, D \ {"TCN/N"}>> \in Phases
      /\ ts = "NpuRequestDisconnect"
      /\ "ICN/N" \notin D
      /\ U \subseteq {"TCN/N"}
  BY <1>2, <1>3, <1>4, PhaseOfEndAgreed
<1>6. /\ \A k \in UpControl : Has(up, {k}, cn) <=> k \in U
      /\ \A k \in DownControl : Has(down, {k}, cn) <=> k \in D
  BY DEF Kinds
<1> HIDE DEF U, D
<1>7. Ordered(cn, hs, up, down2)
  BY <1>5, <1>6 DEF Agrees, Ordered, DataIsExpected, Sent, Taken, UpControl, DownControl,
       DownData
<1>8. DataIsExpected(cn, "Idle", hs, up, down2, out2)
  BY <1>5, <1>6 DEF Agrees, Ordered, DataIsExpected, Sent, Taken, UpControl, DownControl,
       DownData
<1> QED BY <1>2, <1>5, <1>7, <1>8 DEF Agrees, U, D

LEMMA PhaseOfTerminatedByHost ==
    ASSUME NEW hs, NEW U, NEW D, <<"HostRequestDisconnect", hs, U, D>> \in Phases,
           "TERM" \in D
    PROVE  /\ <<"Idle", hs, U \cup {"TCN/N"}, D \ {"TERM"}>> \in Phases
           /\ hs = "hostDisc"
           /\ U = {}
           /\ D = {"TERM"}
  BY DEF Phases

\* The last word of the host, after the NPU agreed.
LEMMA TerminatedByHost ==
    ASSUME NEW cn, NEW hs, NEW up, NEW down, NEW out, NEW up2, NEW down2, NEW out2,
           Agrees(cn, "HostRequestDisconnect", hs, up, down, out),
           Sent(up, up2, cn, "TCN/N"),
           Taken(down, down2, cn, "TERM")
    PROVE  Agrees(cn, "Idle", hs, up2, down2, out2)
<1> DEFINE U == Kinds(up, UpControl, cn)
           D == Kinds(down, DownControl, cn)
<1>1. Kinds(up2, UpControl, cn) = U \cup {"TCN/N"}
  BY KindsSent DEF UpControl, Agrees, Ordered
<1>2. "TERM" \in D /\ Kinds(down2, DownControl, cn) = D \ {"TERM"}
  BY KindsTaken DEF DownControl, Agrees, Ordered
<1>4. <<"HostRequestDisconnect", hs, U, D>> \in Phases
  BY DEF Agrees
<1>5. /\ <<"Idle", hs, U \cup {"TCN/N"}, D \ {"TERM"}>> \in Phases
      /\ hs = "hostDisc"
      /\ U = {}
      /\ D = {"TERM"}
  BY <1>1, <1>2, <1>4, PhaseOfTerminatedByHost
<1>6. /\ \A k \in UpControl : Has(up, {k}, cn) <=> k \in U
      /\ \A k \in DownControl : Has(down, {k}, cn) <=> k \in D
  BY DEF Kinds
<1> HIDE DEF U, D
<1>7. Ordered(cn, hs, up2, down2)
  BY <1>5, <1>6 DEF Agrees, Ordered, DataIsExpected, Sent, Taken, UpControl, DownControl,
       DownData
<1>8. DataIsExpected(cn, "Idle", hs, up2, down2, out2)
  BY <1>5, <1>6 DEF Agrees, Ordered, DataIsExpected, Sent, Taken, UpControl, DownControl,
       DownData
<1> QED BY <1>1, <1>2, <1>5, <1>7, <1>8 DEF Agrees, U, D

LEMMA PhaseOfTerminatedByNpu ==
    ASSUME NEW hs, NEW U, NEW D, <<"NpuRequestDisconnect", hs, U, D>> \in Phases,
           "TERM" \in D
    PROVE  /\ <<"NpuRequestDisconnect", hs, U \cup {"TERM"}, D \ {"TERM"}>> \in Phases
           /\ hs = "npuDisc"
           /\ U = {}
           /\ D = {"TERM"}
  BY DEF Phases

\* The last word of the host, after the NPU asked.
LEMMA TerminatedByNpu ==
    ASSUME NEW cn, NEW hs, NEW up, NEW down, NEW out, NEW up2, NEW down2,
           Agrees(cn, "NpuRequestDisconnect", hs, up, down, out),
           Sent(up, up2, cn, "TERM"),
           Taken(down, down2, cn, "TERM")
    PROVE  Agrees(cn, "NpuRequestDisconnect", hs, up2, down2, out)
<1> DEFINE U == Kinds(up, UpControl, cn)
           D == Kinds(down, DownControl, cn)
<1>1. Kinds(up2, UpControl, cn) = U \cup {"TERM"}
  BY KindsSent DEF UpControl, Agrees, Ordered
<1>2. "TERM" \in D /\ Kinds(down2, DownControl, cn) = D \ {"TERM"}
  BY KindsTaken DEF DownControl, Agrees, Ordered
<1>4. <<"NpuRequestDisconnect", hs, U, D>> \in Phases
  BY DEF Agrees
<1>5. /\ <<"NpuRequestDisconnect", hs, U \cup {"TERM"}, D \ {"TERM"}>> \in Phases
      /\ hs = "npuDisc"
      /\ U = {}
      /\ D = {"TERM"}
  BY <1>1, <1>2, <1>4, PhaseOfTerminatedByNpu
<1>6. /\ \A k \in UpControl : Has(up, {k}, cn) <=> k \in U
      /\ \A k \in DownControl : Has(down, {k}, cn) <=> k \in D
  BY DEF Kinds
<1> HIDE DEF U, D
<1>7. Ordered(cn, hs, up2, down2)
  BY <1>5, <1>6 DEF Agrees, Ordered, DataIsExpected, Sent, Taken, UpControl, DownControl,
       DownData
<1>8. DataIsExpected(cn, "NpuRequestDisconnect", hs, up2, down2, out)
  BY <1>5, <1>6 DEF Agrees, Ordered, DataIsExpected, Sent, Taken, UpControl, DownControl,
       DownData
<1> QED BY <1>1, <1>2, <1>5, <1>7, <1>8 DEF Agrees, U, D

LEMMA PhaseOfHostAccepts ==
    ASSUME NEW ts, NEW hs, NEW U, NEW D, <<ts, hs, U, D>> \in Phases,
           "ICN/R" \in U,
           "TCN/N" \notin U
    PROVE  /\ <<ts, "connected", U \ {"ICN/R"}, D \cup {"ICN/N"}>> \in Phases
           /\ hs = "idle"
           /\ ts = "RequestConnection"
           /\ U = {"ICN/R"}
           /\ D = {}
  BY DEF Phases

\* The host accepts a connection.
LEMMA HostAccepts ==
    ASSUME NEW cn, NEW ts, NEW hs, NEW up, NEW down, NEW out, NEW up2, NEW down2,
           Agrees(cn, ts, hs, up, down, out),
           Taken(up, up2, cn, "ICN/R"),
           Sent(down, down2, cn, "ICN/N")
    PROVE  Agrees(cn, ts, "connected", up2, down2, out)
<1> DEFINE U == Kinds(up, UpControl, cn)
           D == Kinds(down, DownControl, cn)
<1>1. "ICN/R" \in U /\ Kinds(up2, UpControl, cn) = U \ {"ICN/R"}
  BY KindsTaken DEF UpControl, Agrees, Ordered
<1>2. Kinds(down2, DownControl, cn) = D \cup {"ICN/N"}
  BY KindsSent DEF DownControl, Agrees, Ordered
<1>3. "TCN/N" \notin U
  BY DEF Agrees, Ordered, Taken, Kinds
<1>4. <<ts, hs, U, D>> \in Phases
  BY DEF Agrees
<1>5. /\ <<ts, "connected", U \ {"ICN/R"}, D \cup {"ICN/N"}>> \in Phases
      /\ hs = "idle"
      /\ ts = "RequestConnection"
      /\ U = {"ICN/R"}
      /\ D = {}
  BY <1>1, <1>2, <1>3, <1>4, PhaseOfHostAccepts
<1>6. /\ \A k \in UpControl : Has(up, {k}, cn) <=> k \in U
      /\ \A k \in DownControl : Has(down, {k}, cn) <=> k \in D
  BY DEF Kinds
<1> HIDE DEF U, D
<1>7. Ordered(cn, "connected", up2, down2)
  BY <1>5, <1>6 DEF Agrees, Ordered, DataIsExpected, Sent, Taken, UpControl, DownControl,
       DownData
<1>8. DataIsExpected(cn, ts, "connected", up2, down2, out)
  BY <1>5, <1>6 DEF Agrees, Ordered, DataIsExpected, Sent, Taken, UpControl, DownControl,
       DownData
<1> QED BY <1>1, <1>2, <1>5, <1>7, <1>8 DEF Agrees, U, D

LEMMA PhaseOfHostRejects ==
    ASSUME NEW ts, NEW hs, NEW U, NEW D, <<ts, hs, U, D>> \in Phases,
           "ICN/R" \in U,
           "TCN/N" \notin U
    PROVE  /\ <<ts, hs, U \ {"ICN/R"}, D \cup {"ICN/E"}>> \in Phases
           /\ hs = "idle"
           /\ ts = "RequestConnection"
           /\ U = {"ICN/R"}
           /\ D = {}
  BY DEF Phases

\* It rejects the connection.
LEMMA HostRejects ==
    ASSUME NEW cn, NEW ts, NEW hs, NEW up, NEW down, NEW out, NEW up2, NEW down2,
           Agrees(cn, ts, hs, up, down, out),
           Taken(up, up2, cn, "ICN/R"),
           Sent(down, down2, cn, "ICN/E")
    PROVE  Agrees(cn, ts, hs, up2, down2, out)
<1> DEFINE U == Kinds(up, UpControl, cn)
           D == Kinds(down, DownControl, cn)
<1>1. "ICN/R" \in U /\ Kinds(up2, UpControl, cn) = U \ {"ICN/R"}
  BY KindsTaken DEF UpControl, Agrees, Ordered
<1>2. Kinds(down2, DownControl, cn) = D \cup {"ICN/E"}
  BY KindsSent DEF DownControl, Agrees, Ordered
<1>3. "TCN/N" \notin U
  BY DEF Agrees, Ordered, Taken, Kinds
<1>4. <<ts, hs, U, D>> \in Phases
  BY DEF Agrees
<1>5. /\ <<ts, hs, U \ {"ICN/R"}, D \cup {"ICN/E"}>> \in Phases
      /\ hs = "idle"
      /\ ts = "RequestConnection"
      /\ U = {"ICN/R"}
      /\ D = {}
  BY <1>1, <1>2, <1>3, <1>4, PhaseOfHostRejects
<1>6. /\ \A k \in UpControl : Has(up, {k}, cn) <=> k \in U
      /\ \A k \in DownControl : Has(down, {k}, cn) <=> k \in D
  BY DEF Kinds
<1> HIDE DEF U, D
<1>7. Ordered(cn, hs, up2, down2)
  BY <1>5, <1>6 DEF Agrees, Ordered, DataIsExpected, Sent, Taken, UpControl, DownControl,
       DownData
<1>8. DataIsExpected(cn, ts, hs, up2, down2, out)
  BY <1>5, <1>6 DEF Agrees, Ordered, DataIsExpected, Sent, Taken, UpControl, DownControl,
       DownData
<1> QED BY <1>1, <1>2, <1>5, <1>7, <1>8 DEF Agrees, U, D

LEMMA PhaseOfHostAgrees ==
    ASSUME NEW ts, NEW U, NEW D, <<ts, "connected", U, D>> \in Phases,
           "TCN/R" \in U
    PROVE  /\ <<ts, "npuDisc", U \ {"TCN/R"}, D \cup {"TERM"}>> \in Phases
           /\ ts = "NpuRequestDisconnect"
           /\ U = {"TCN/R"}
           /\ D = {}
  BY DEF Phases

\* The NPU asked for the end, and the host agrees.
LEMMA HostAgrees ==
    ASSUME NEW cn, NEW ts, NEW up, NEW down, NEW out, NEW up2, NEW down2,
           Agrees(cn, ts, "connected", up, down, out),
           Taken(up, up2, cn, "TCN/R"),
           Sent(down, down2, cn, "TERM")
    PROVE  Agrees(cn, ts, "npuDisc", up2, down2, out)
<1> DEFINE U == Kinds(up, UpControl, cn)
           D == Kinds(down, DownControl, cn)
<1>1. "TCN/R" \in U /\ Kinds(up2, UpControl, cn) = U \ {"TCN/R"}
  BY KindsTaken DEF UpControl, Agrees, Ordered
<1>2. Kinds(down2, DownControl, cn) = D \cup {"TERM"}
  BY KindsSent DEF DownControl, Agrees, Ordered
<1>4. <<ts, "connected", U, D>> \in Phases
  BY DEF Agrees
<1>5. /\ <<ts, "npuDisc", U \ {"TCN/R"}, D \cup {"TERM"}>> \in Phases
      /\ ts = "NpuRequestDisconnect"
      /\ U = {"TCN/R"}
      /\ D = {}
  BY <1>1, <1>2, <1>4, PhaseOfHostAgrees
<1>6. /\ \A k \in UpControl : Has(up, {k}, cn) <=> k \in U
      /\ \A k \in DownControl : Has(down, {k}, cn) <=> k \in D
  BY DEF Kinds
<1> HIDE DEF U, D
<1>9. NoneBehind(up, {"TERM"}, {"BACK"}, cn)
  BY <1>5, <1>6, NothingBehindNone DEF UpControl
<1>7. Ordered(cn, "npuDisc", up2, down2)
  BY <1>5, <1>9, <1>6 DEF Agrees, Ordered, DataIsExpected, Sent, Taken, UpControl,
       DownControl, DownData
<1>8. DataIsExpected(cn, ts, "npuDisc", up2, down2, out)
  BY <1>5, <1>6 DEF Agrees, Ordered, DataIsExpected, Sent, Taken, UpControl, DownControl,
       DownData
<1> QED BY <1>1, <1>2, <1>5, <1>7, <1>8 DEF Agrees, U, D

LEMMA PhaseOfHostAlreadyEnding ==
    ASSUME NEW ts, NEW hs, NEW U, NEW D, <<ts, hs, U, D>> \in Phases,
           "TCN/R" \in U,
           hs # "connected"
    PROVE  /\ <<ts, hs, U \ {"TCN/R"}, D \cup {"TCN/N"}>> \in Phases
           /\ ts = "NpuRequestDisconnect"
           /\ hs = "hostDisc"
           /\ U \subseteq {"TCN/R", "TCN/N"}
           /\ D \subseteq {"TCN/R"}
  BY DEF Phases

\* The host has asked for it already.
LEMMA HostAlreadyEnding ==
    ASSUME NEW cn, NEW ts, NEW hs, NEW up, NEW down, NEW out, NEW up2, NEW down2,
           Agrees(cn, ts, hs, up, down, out),
           Taken(up, up2, cn, "TCN/R"),
           Sent(down, down2, cn, "TCN/N"),
           hs # "connected"
    PROVE  Agrees(cn, ts, hs, up2, down2, out)
<1> DEFINE U == Kinds(up, UpControl, cn)
           D == Kinds(down, DownControl, cn)
<1>1. "TCN/R" \in U /\ Kinds(up2, UpControl, cn) = U \ {"TCN/R"}
  BY KindsTaken DEF UpControl, Agrees, Ordered
<1>2. Kinds(down2, DownControl, cn) = D \cup {"TCN/N"}
  BY KindsSent DEF DownControl, Agrees, Ordered
<1>4. <<ts, hs, U, D>> \in Phases
  BY DEF Agrees
<1>5. /\ <<ts, hs, U \ {"TCN/R"}, D \cup {"TCN/N"}>> \in Phases
      /\ ts = "NpuRequestDisconnect"
      /\ hs = "hostDisc"
      /\ U \subseteq {"TCN/R", "TCN/N"}
      /\ D \subseteq {"TCN/R"}
  BY <1>1, <1>2, <1>4, PhaseOfHostAlreadyEnding
<1>6. /\ \A k \in UpControl : Has(up, {k}, cn) <=> k \in U
      /\ \A k \in DownControl : Has(down, {k}, cn) <=> k \in D
  BY DEF Kinds
<1> HIDE DEF U, D
<1>7. Ordered(cn, hs, up2, down2)
  BY <1>5, <1>6 DEF Agrees, Ordered, DataIsExpected, Sent, Taken, UpControl, DownControl,
       DownData
<1>8. DataIsExpected(cn, ts, hs, up2, down2, out)
  BY <1>5, <1>6 DEF Agrees, Ordered, DataIsExpected, Sent, Taken, UpControl, DownControl,
       DownData
<1> QED BY <1>1, <1>2, <1>5, <1>7, <1>8 DEF Agrees, U, D

LEMMA PhaseOfHostIsThrough ==
    ASSUME NEW ts, NEW U, NEW D, <<ts, "npuDisc", U, D>> \in Phases,
           "TERM" \in U
    PROVE  /\ <<ts, "idle", U \ {"TERM"}, D \cup {"TCN/N"}>> \in Phases
           /\ ts = "NpuRequestDisconnect"
           /\ U = {"TERM"}
           /\ D = {}
  BY DEF Phases

\* The last word of the NPU, after the host agreed.
LEMMA HostIsThrough ==
    ASSUME NEW cn, NEW ts, NEW up, NEW down, NEW out, NEW up2, NEW down2,
           Agrees(cn, ts, "npuDisc", up, down, out),
           Taken(up, up2, cn, "TERM"),
           Sent(down, down2, cn, "TCN/N")
    PROVE  Agrees(cn, ts, "idle", up2, down2, out)
<1> DEFINE U == Kinds(up, UpControl, cn)
           D == Kinds(down, DownControl, cn)
<1>1. "TERM" \in U /\ Kinds(up2, UpControl, cn) = U \ {"TERM"}
  BY KindsTaken DEF UpControl, Agrees, Ordered
<1>2. Kinds(down2, DownControl, cn) = D \cup {"TCN/N"}
  BY KindsSent DEF DownControl, Agrees, Ordered
<1>4. <<ts, "npuDisc", U, D>> \in Phases
  BY DEF Agrees
<1>5. /\ <<ts, "idle", U \ {"TERM"}, D \cup {"TCN/N"}>> \in Phases
      /\ ts = "NpuRequestDisconnect"
      /\ U = {"TERM"}
      /\ D = {}
  BY <1>1, <1>2, <1>4, PhaseOfHostIsThrough
<1>6. /\ \A k \in UpControl : Has(up, {k}, cn) <=> k \in U
      /\ \A k \in DownControl : Has(down, {k}, cn) <=> k \in D
  BY DEF Kinds
<1> HIDE DEF U, D
<1>7. Ordered(cn, "idle", up2, down2)
  BY <1>5, <1>6 DEF Agrees, Ordered, DataIsExpected, Sent, Taken, UpControl, DownControl,
       DownData
<1>8. DataIsExpected(cn, ts, "idle", up2, down2, out)
  BY <1>5, <1>6 DEF Agrees, Ordered, DataIsExpected, Sent, Taken, UpControl, DownControl,
       DownData
<1> QED BY <1>1, <1>2, <1>5, <1>7, <1>8 DEF Agrees, U, D

LEMMA PhaseOfHostTerminates ==
    ASSUME NEW ts, NEW U, NEW D, <<ts, "hostDisc", U, D>> \in Phases,
           "TERM" \in U
    PROVE  /\ <<ts, "hostDisc", U \ {"TERM"}, D \cup {"TERM"}>> \in Phases
           /\ ts = "HostRequestDisconnect"
           /\ U = {"TERM"}
           /\ D = {}
  BY DEF Phases

\* The NPU has agreed to the end.
LEMMA HostTerminates ==
    ASSUME NEW cn, NEW ts, NEW up, NEW down, NEW out, NEW up2, NEW down2,
           Agrees(cn, ts, "hostDisc", up, down, out),
           Taken(up, up2, cn, "TERM"),
           Sent(down, down2, cn, "TERM")
    PROVE  Agrees(cn, ts, "hostDisc", up2, down2, out)
<1> DEFINE U == Kinds(up, UpControl, cn)
           D == Kinds(down, DownControl, cn)
<1>1. "TERM" \in U /\ Kinds(up2, UpControl, cn) = U \ {"TERM"}
  BY KindsTaken DEF UpControl, Agrees, Ordered
<1>2. Kinds(down2, DownControl, cn) = D \cup {"TERM"}
  BY KindsSent DEF DownControl, Agrees, Ordered
<1>4. <<ts, "hostDisc", U, D>> \in Phases
  BY DEF Agrees
<1>5. /\ <<ts, "hostDisc", U \ {"TERM"}, D \cup {"TERM"}>> \in Phases
      /\ ts = "HostRequestDisconnect"
      /\ U = {"TERM"}
      /\ D = {}
  BY <1>1, <1>2, <1>4, PhaseOfHostTerminates
<1>6. /\ \A k \in UpControl : Has(up, {k}, cn) <=> k \in U
      /\ \A k \in DownControl : Has(down, {k}, cn) <=> k \in D
  BY DEF Kinds
<1> HIDE DEF U, D
<1>7. Ordered(cn, "hostDisc", up2, down2)
  BY <1>5, <1>6 DEF Agrees, Ordered, DataIsExpected, Sent, Taken, UpControl, DownControl,
       DownData
<1>8. DataIsExpected(cn, ts, "hostDisc", up2, down2, out)
  BY <1>5, <1>6 DEF Agrees, Ordered, DataIsExpected, Sent, Taken, UpControl, DownControl,
       DownData
<1> QED BY <1>1, <1>2, <1>5, <1>7, <1>8 DEF Agrees, U, D

LEMMA PhaseOfHostForgets ==
    ASSUME NEW ts, NEW U, NEW D, <<ts, "hostDisc", U, D>> \in Phases,
           "TCN/N" \in U,
           "TCN/R" \notin U
    PROVE  /\ <<ts, "idle", U \ {"TCN/N"}, D>> \in Phases
           /\ "TCN/R" \notin D
           /\ "ICN/N" \notin D
           /\ "TERM" \notin U
  BY DEF Phases

\* The last word of the NPU, after the host asked.
LEMMA HostForgets ==
    ASSUME NEW cn, NEW ts, NEW up, NEW down, NEW out, NEW up2,
           Agrees(cn, ts, "hostDisc", up, down, out),
           Taken(up, up2, cn, "TCN/N")
    PROVE  Agrees(cn, ts, "idle", up2, down, out)
<1> DEFINE U == Kinds(up, UpControl, cn)
           D == Kinds(down, DownControl, cn)
<1>1. "TCN/N" \in U /\ Kinds(up2, UpControl, cn) = U \ {"TCN/N"}
  BY KindsTaken DEF UpControl, Agrees, Ordered
<1>3. "TCN/R" \notin U
  BY DEF Agrees, Ordered, Taken, Kinds
<1>4. <<ts, "hostDisc", U, D>> \in Phases
  BY DEF Agrees
<1>5. /\ <<ts, "idle", U \ {"TCN/N"}, D>> \in Phases
      /\ "TCN/R" \notin D
      /\ "ICN/N" \notin D
      /\ "TERM" \notin U
  BY <1>1, <1>3, <1>4, PhaseOfHostForgets
<1>6. /\ \A k \in UpControl : Has(up, {k}, cn) <=> k \in U
      /\ \A k \in DownControl : Has(down, {k}, cn) <=> k \in D
  BY DEF Kinds
<1> HIDE DEF U, D
<1>7. Ordered(cn, "idle", up2, down)
  BY <1>5, <1>6 DEF Agrees, Ordered, DataIsExpected, Sent, Taken, UpControl, DownControl,
       DownData
<1>8. DataIsExpected(cn, ts, "idle", up2, down, out)
  BY <1>5, <1>6 DEF Agrees, Ordered, DataIsExpected, Sent, Taken, UpControl, DownControl,
       DownData
<1> QED BY <1>1, <1>5, <1>7, <1>8 DEF Agrees, U, D

LEMMA PhaseOfHostAsks ==
    ASSUME NEW ts, NEW U, NEW D, <<ts, "connected", U, D>> \in Phases
    PROVE  /\ <<ts, "hostDisc", U, D \cup {"TCN/R"}>> \in Phases
           /\ U \subseteq {"TCN/R"}
           /\ D \subseteq {"ICN/N"}
           /\ ts \in {"Connected", "NpuRequestDisconnect"} \/ "ICN/N" \in D
  BY DEF Phases

\* The host asks for the end of a connection.
LEMMA HostAsks ==
    ASSUME NEW cn, NEW ts, NEW up, NEW down, NEW out, NEW down2,
           Agrees(cn, ts, "connected", up, down, out),
           Sent(down, down2, cn, "TCN/R")
    PROVE  Agrees(cn, ts, "hostDisc", up, down2, out)
<1> DEFINE U == Kinds(up, UpControl, cn)
           D == Kinds(down, DownControl, cn)
<1>2. Kinds(down2, DownControl, cn) = D \cup {"TCN/R"}
  BY KindsSent DEF DownControl, Agrees, Ordered
<1>4. <<ts, "connected", U, D>> \in Phases
  BY DEF Agrees
<1>5. /\ <<ts, "hostDisc", U, D \cup {"TCN/R"}>> \in Phases
      /\ U \subseteq {"TCN/R"}
      /\ D \subseteq {"ICN/N"}
      /\ ts \in {"Connected", "NpuRequestDisconnect"} \/ "ICN/N" \in D
  BY <1>2, <1>4, PhaseOfHostAsks
<1>6. /\ \A k \in UpControl : Has(up, {k}, cn) <=> k \in U
      /\ \A k \in DownControl : Has(down, {k}, cn) <=> k \in D
  BY DEF Kinds
<1> HIDE DEF U, D
<1>7. Ordered(cn, "hostDisc", up, down2)
  BY <1>5, <1>6 DEF Agrees, Ordered, DataIsExpected, Sent, Taken, UpControl, DownControl,
       DownData
<1>8. DataIsExpected(cn, ts, "hostDisc", up, down2, out)
  BY <1>5, <1>6 DEF Agrees, Ordered, DataIsExpected, Sent, Taken, UpControl, DownControl,
       DownData
<1> QED BY <1>2, <1>5, <1>7, <1>8 DEF Agrees, U, D

\* The messages that are not about a connection.
OtherKinds == {"SUP/R", "SUP/N", "CNF/R", "CNF/N", "CNF/E"}

Leaves(K) == \A k \in OtherKinds : k \notin K

\* Queue r is queue q as far as the messages about a connection go.
SameAbout(q, r, id) ==
    /\ \A K : Leaves(K) => /\ Has(r, K, id) <=> Has(q, K, id)
                           /\ Once(q, K, id) => Once(r, K, id)
    /\ \A F, L : Leaves(F) /\ Leaves(L) /\ NoneBehind(q, F, L, id) => NoneBehind(r, F, L, id)

LEMMA OthersAreApart ==
    ASSUME NEW q, NEW r, NEW id, NEW kind \in OtherKinds,
           SameFor(q, r, id) \/ Sent(q, r, id, kind) \/ Taken(q, r, id, kind)
    PROVE  SameAbout(q, r, id)
<1>1. CASE SameFor(q, r, id)
  BY <1>1 DEF SameFor, SameAbout
<1>2. CASE Sent(q, r, id, kind)
  BY <1>2 DEF Sent, SameAbout, Leaves
<1>3. CASE Taken(q, r, id, kind)
  BY <1>3 DEF Taken, SameAbout, Leaves
<1> QED BY <1>1, <1>2, <1>3

LEMMA SameIsSameAbout ==
    ASSUME NEW q, NEW r, NEW id, SameFor(q, r, id)
    PROVE  SameAbout(q, r, id)
  BY DEF SameFor, SameAbout

\* Nothing happens to the connection, but perhaps to its output.
LEMMA NothingChanges ==
    ASSUME NEW cn, NEW ts, NEW hs, NEW up, NEW down, NEW out, NEW up2, NEW down2, NEW out2,
           Agrees(cn, ts, hs, up, down, out), SameAbout(up, up2, cn), SameAbout(down, down2, cn),
           out2 # <<>> => out # <<>> \/ ts \in {"Connected", "Idle"}
    PROVE  Agrees(cn, ts, hs, up2, down2, out2)
<1>1. /\ \A k \in UpControl \cup {"BREAK", "BACK"} : Leaves({k})
      /\ \A k \in DownControl : Leaves({k})
      /\ Leaves(DownData)
  BY DEF Leaves, OtherKinds, UpControl, DownControl, DownData
<1>2. /\ \A k : k \in Kinds(up2, UpControl, cn) <=> k \in Kinds(up, UpControl, cn)
      /\ \A k : k \in Kinds(down2, DownControl, cn) <=> k \in Kinds(down, DownControl, cn)
  BY <1>1 DEF Kinds, SameAbout
<1>3. /\ Kinds(up2, UpControl, cn) = Kinds(up, UpControl, cn)
      /\ Kinds(down2, DownControl, cn) = Kinds(down, DownControl, cn)
  BY <1>2
<1>4. Ordered(cn, hs, up2, down2)
  BY <1>1 DEF Agrees, Ordered, SameAbout, UpControl, DownControl
<1>5. DataIsExpected(cn, ts, hs, up2, down2, out2)
  BY <1>1 DEF Agrees, DataIsExpected, SameAbout, UpControl, DownControl
<1> QED BY <1>3, <1>4, <1>5 DEF Agrees

LEMMA KindsLeft ==
    ASSUME NEW q, NEW r, NEW id, NEW k, Taken(q, r, id, k), NEW C, k \notin C
    PROVE  Kinds(r, C, id) = Kinds(q, C, id)
<1>1. \A c \in C : Has(r, {c}, id) <=> Has(q, {c}, id)
  BY DEF Taken
<1>2. \A c : c \in Kinds(r, C, id) <=> c \in Kinds(q, C, id)
  BY <1>1 DEF Kinds
<1> QED BY <1>2

\* A block is acknowledged while the host waits for that.
LEMMA AcknowledgesBlock ==
    ASSUME NEW cn, NEW ts, NEW hs, NEW up, NEW down, NEW out, NEW up2,
           Agrees(cn, ts, hs, up, down, out), Sent(up, up2, cn, "BACK"),
           hs # "idle", \A k \in {"ICN/R", "TCN/N"} : ~Has(up, {k}, cn),
           hs = "npuDisc" => ~Has(up, {"TERM"}, cn)
    PROVE  Agrees(cn, ts, hs, up2, down, out)
<1>1. Kinds(up2, UpControl, cn) = Kinds(up, UpControl, cn)
  BY KindsSent DEF UpControl
<1>2. Ordered(cn, hs, up2, down)
  BY DEF Agrees, Ordered, Sent, UpControl
<1>3. DataIsExpected(cn, ts, hs, up2, down, out)
  BY DEF Agrees, DataIsExpected, Sent
<1> QED BY <1>1, <1>2, <1>3 DEF Agrees

LEMMA PhaseOfOutput ==
    ASSUME NEW ts, NEW hs, NEW U, NEW D, <<ts, hs, U, D>> \in Phases,
           ts \in {"Connected", "HostRequestDisconnect"}
    PROVE  /\ hs \in {"connected", "hostDisc"}
           /\ "ICN/R" \notin U /\ "TCN/N" \notin U
           /\ ts = "Connected" => U = {}
  BY DEF Phases

\* What is in the output queue of a terminal in use may be acknowledged.
LEMMA AcknowledgesOutput ==
    ASSUME NEW cn, NEW ts, NEW hs, NEW up, NEW down, NEW out, NEW up2,
           Agrees(cn, ts, hs, up, down, out), Sent(up, up2, cn, "BACK"),
           out # <<>>, ts # "Idle"
    PROVE  Agrees(cn, ts, hs, up2, down, out)
<1>1. ts \in {"Connected", "HostRequestDisconnect"}
  BY DEF Agrees, DataIsExpected
<1>2. /\ hs \in {"connected", "hostDisc"}
      /\ \A k \in {"ICN/R", "TCN/N"} : k \notin Kinds(up, UpControl, cn)
  BY <1>1, PhaseOfOutput DEF Agrees
<1>3. \A k \in {"ICN/R", "TCN/N"} : ~Has(up, {k}, cn)
  BY <1>2 DEF Kinds, UpControl
<1> QED BY <1>2, <1>3, AcknowledgesBlock

\* A break is passed to the host.
LEMMA Breaks ==
    ASSUME NEW cn, NEW hs, NEW up, NEW down, NEW out, NEW up2,
           Agrees(cn, "Connected", hs, up, down, out), Sent(up, up2, cn, "BREAK")
    PROVE  Agrees(cn, "Connected", hs, up2, down, out)
<1>1. Kinds(up2, UpControl, cn) = Kinds(up, UpControl, cn)
  BY KindsSent DEF UpControl
<1>2. hs \in {"connected", "hostDisc"} /\ Kinds(up, UpControl, cn) = {}
  BY PhaseOfOutput DEF Agrees
<1>3. \A k \in UpControl : ~Has(up, {k}, cn)
  BY <1>2 DEF Kinds
<1>4. Ordered(cn, hs, up2, down)
  BY <1>3 DEF Agrees, Ordered, Sent, UpControl
<1>5. DataIsExpected(cn, "Connected", hs, up2, down, out)
  BY <1>2, <1>3 DEF Agrees, DataIsExpected, Sent, UpControl
<1> QED BY <1>1, <1>4, <1>5 DEF Agrees

\* A block or command of the host arrives at a terminal that expects it.
LEMMA DataArrives ==
    ASSUME NEW cn, NEW ts, NEW hs, NEW up, NEW down, NEW out, NEW down2, NEW kind \in DownData,
           Agrees(cn, ts, hs, up, down, out), Taken(down, down2, cn, kind)
    PROVE  /\ Agrees(cn, ts, hs, up, down2, out)
           /\ ts \in {"Connected", "NpuRequestDisconnect"} /\ hs # "idle"
           /\ \A k \in {"ICN/R", "TCN/N", "TERM"} : ~Has(up, {k}, cn)
<1>1. Has(down, DownData, cn) /\ ~Has(down2, {"ICN/N"}, cn)
  BY DEF Taken, Agrees, Ordered
<1>2. Kinds(down2, DownControl, cn) = Kinds(down, DownControl, cn)
  <2>1. kind \notin DownControl
    BY DEF DownControl, DownData
  <2> QED BY <2>1, KindsLeft
<1>3. ~Has(down, {"ICN/N"}, cn)
  BY <1>1 DEF Taken, DownData
<1>4. Ordered(cn, hs, up, down2)
  BY DEF Agrees, Ordered, Taken
<1>5. DataIsExpected(cn, ts, hs, up, down2, out)
  BY <1>1, <1>3 DEF Agrees, DataIsExpected, Taken
<1> QED BY <1>1, <1>2, <1>3, <1>4, <1>5 DEF Agrees, DataIsExpected

\* A break or an acknowledgement arrives at the host.
LEMMA AnswerArrives ==
    ASSUME NEW cn, NEW ts, NEW hs, NEW up, NEW down, NEW out, NEW up2, NEW kind \in {"BREAK", "BACK"},
           Agrees(cn, ts, hs, up, down, out), Taken(up, up2, cn, kind)
    PROVE  Agrees(cn, ts, hs, up2, down, out)
<1>1. Kinds(up2, UpControl, cn) = Kinds(up, UpControl, cn)
  <2>1. kind \notin UpControl
    BY DEF UpControl
  <2> QED BY <2>1, KindsLeft
<1>2. Ordered(cn, hs, up2, down)
  BY DEF Agrees, Ordered, Taken
<1>3. DataIsExpected(cn, ts, hs, up2, down, out)
  BY DEF Agrees, DataIsExpected, Taken
<1> QED BY <1>1, <1>2, <1>3 DEF Agrees

LEMMA PhaseOfHostSends ==
    ASSUME NEW ts, NEW U, NEW D, <<ts, "connected", U, D>> \in Phases
    PROVE  /\ U \subseteq {"TCN/R"} /\ D \subseteq {"ICN/N"}
           /\ ts \in {"Connected", "NpuRequestDisconnect"} \/ "ICN/N" \in D
  BY DEF Phases

\* The host sends a block, a mark or a command while it takes the connection to be up.
LEMMA HostSendsData ==
    ASSUME NEW cn, NEW ts, NEW up, NEW down, NEW out, NEW down2, NEW kind \in DownData,
           Agrees(cn, ts, "connected", up, down, out), Sent(down, down2, cn, kind)
    PROVE  Agrees(cn, ts, "connected", up, down2, out)
<1> DEFINE U == Kinds(up, UpControl, cn)
           D == Kinds(down, DownControl, cn)
<1>1. Kinds(down2, DownControl, cn) = D
  BY KindsSent DEF DownControl, DownData
<1>2. /\ U \subseteq {"TCN/R"} /\ D \subseteq {"ICN/N"}
      /\ ts \in {"Connected", "NpuRequestDisconnect"} \/ "ICN/N" \in D
  BY PhaseOfHostSends DEF Agrees
<1>3. /\ \A k \in UpControl : Has(up, {k}, cn) <=> k \in U
      /\ \A k \in DownControl : Has(down, {k}, cn) <=> k \in D
  BY DEF Kinds
<1> HIDE DEF U, D
<1>4. Ordered(cn, "connected", up, down2)
  BY <1>2, <1>3 DEF Agrees, Ordered, Sent, UpControl, DownControl, DownData
<1>5. DataIsExpected(cn, ts, "connected", up, down2, out)
  BY <1>2, <1>3 DEF Agrees, DataIsExpected, Sent, UpControl, DownControl, DownData
<1> QED BY <1>1, <1>4, <1>5 DEF Agrees, D

AgreesNow(cn) == Agrees(cn, termState[cn], hostState[cn], upline, downline, outputQ[cn])
Agreed == resetting \/ \A cn \in Cns : AgreesNow(cn)

\* The NPU is not supervised yet, but its request is on its way, or the answer is.
Supervised == ~resetting /\ svmState = "StWaitSupervision" =>
                 Has(upline, {"SUP/R"}, Nobody) \/ Has(downline, {"SUP/N"}, Nobody)

AInv == TInv /\ Agreed /\ Supervised

LEMMA SendsTo ==
    ASSUME NEW T, NEW q \in Seq(T), NEW kind, NEW id, NEW n, Msg(kind, id, n) \in T, NEW c
    PROVE  IF c = id THEN Sent(q, Append(q, Msg(kind, id, n)), c, kind)
           ELSE SameFor(q, Append(q, Msg(kind, id, n)), c)
<1> DEFINE m == Msg(kind, id, n)
<1>1. m.kind = kind /\ m.id = id
  BY DEF Msg
<1> HIDE DEF m
<1>2. IF m.id = c THEN Sent(q, Append(q, m), c, m.kind) ELSE SameFor(q, Append(q, m), c)
  BY AppendedIsSent DEF m
<1> QED BY <1>1, <1>2 DEF m

LEMMA TakesFrom ==
    ASSUME NEW T, NEW q \in Seq(T), q # <<>>, NEW c
    PROVE  IF c = Head(q).id THEN Taken(q, Tail(q), c, Head(q).kind)
           ELSE SameFor(q, Tail(q), c)
  BY HeadIsTaken

LEMMA AcksAgree ==
    ASSUME NEW q \in Seq(UplineMessages), NEW cn \in Cns, NEW buffers \in Seq(OutputBuffers),
           NEW c \in Cns, NEW ts, NEW hs, NEW down, NEW out, Agrees(c, ts, hs, q, down, out),
           c = cn /\ buffers # <<>> => out # <<>> /\ ts # "Idle"
    PROVE  Agrees(c, ts, hs, q \o Acks(cn, buffers), down, out)
<1> DEFINE r == q \o Acks(cn, buffers)
<1>1. Acks(cn, buffers) \in Seq(UplineMessages)
  BY AcksAreMessages
<1>2. \/ SameFor(q, r, c)
      \/ c = cn /\ buffers # <<>> /\ Sent(q, r, c, "BACK")
  BY <1>1, AcksAreSent
<1> HIDE DEF r
<1>3. CASE SameFor(q, r, c)
  BY <1>3, NothingChanges, SameIsSameAbout, SameForItself DEF r
<1>4. CASE c = cn /\ buffers # <<>> /\ Sent(q, r, c, "BACK")
  BY <1>4, AcknowledgesOutput DEF r
<1> QED BY <1>2, <1>3, <1>4

\* A connection that a step is not about.
LEMMA OtherAgrees ==
    ASSUME NEW c \in Cns, AgreesNow(c), termState'[c] = termState[c], hostState'[c] = hostState[c],
           SameAbout(upline, upline', c), SameAbout(downline, downline', c),
           outputQ'[c] # <<>> => outputQ[c] # <<>> \/ termState[c] \in {"Connected", "Idle"}
    PROVE  AgreesNow(c)'
  BY NothingChanges DEF AgreesNow

LEMMA SameAboutItself ==
    ASSUME NEW q, NEW id
    PROVE  SameAbout(q, q, id)
  BY SameForItself, SameIsSameAbout

LEMMA TryOutputAgrees ==
    ASSUME TInv, NEW p \in Ports, NEW q \in [Cns -> Seq(OutputBuffers)],
           NEW up \in Seq(UplineMessages), NEW down, TryOutput(p, q, up), NEW c \in Cns,
           Agrees(c, termState[c], hostState[c], up, down, q[c])
    PROVE  Agrees(c, termState[c], hostState[c], upline', down, outputQ'[c])
<1> DEFINE tp == FindTcb(p)
<1>1. tp # Nobody => tp \in Cns /\ termState[tp] # "Idle"
  BY FindTcbIsLive DEF TInv
<1>2. CASE tp = Nobody
  BY <1>2 DEF TryOutput
<1>3. CASE tp # Nobody
  <2>1. PICK k \in 0 .. Len(q[tp]) :
          /\ outputQ' = [q EXCEPT ![tp] = SubSeq(@, k + 1, Len(@))]
          /\ upline' = up \o Acks(tp, SubSeq(q[tp], 1, k))
    BY <1>3 DEF TryOutput
  <2> HIDE DEF tp
  <2> DEFINE s == q[tp]
  <2>2. s \in Seq(OutputBuffers)
    BY <1>1, <1>3
  <2> HIDE DEF s
  <2>3. /\ SubSeq(s, 1, k) \in Seq(OutputBuffers)
        /\ SubSeq(s, 1, k) # <<>> => s # <<>>
        /\ SubSeq(s, k + 1, Len(s)) # <<>> => s # <<>>
    <3>1. k \in 0 .. Len(s)
      BY DEF s
    <3> QED BY <2>2, <3>1
  <2>4. Agrees(c, termState[c], hostState[c], upline', down, q[c])
    <3>1. c = tp /\ SubSeq(s, 1, k) # <<>> => q[c] # <<>> /\ termState[c] # "Idle"
      BY <1>1, <1>3, <2>3 DEF s
    <3>2. upline' = up \o Acks(tp, SubSeq(s, 1, k)) /\ tp \in Cns
      BY <1>1, <1>3, <2>1 DEF s
    <3> QED BY <2>3, <3>1, <3>2, AcksAgree
  <2>5. outputQ'[c] # <<>> => q[c] # <<>>
    BY <1>1, <1>3, <2>1, <2>3 DEF s
  <2> QED BY <2>4, <2>5, NothingChanges, SameAboutItself
<1> QED BY <1>2, <1>3

LEMMA NetThreadAgrees ==
    ASSUME AInv, ~resetting, NetThread \/ User, NEW c \in Cns
    PROVE  AgreesNow(c)'
<1>0. AgreesNow(c)
  BY DEF AInv, Agreed
<1>1. CASE Accept \/ TakePort \/ User
  BY <1>0, <1>1 DEF Accept, TakePort, User, Leave, termVars, flowVars, lineVars,
       hostVars, AgreesNow
<1>2. CASE NotifyNetConnect
  <2>1. /\ upline' = Append(upline, Message("CNF/R", netPort))
        /\ UNCHANGED <<termState, hostState, downline>>
    BY <1>2 DEF NotifyNetConnect, hostVars
  <2>2. SameAbout(upline, upline', c)
    <3>1. netPort \in Ports /\ upline \in Seq(UplineMessages)
      BY <1>2 DEF NotifyNetConnect, AInv, TInv, LinksOK, QueuesOK
    <3>2. Msg("CNF/R", netPort, Nobody) \in UplineMessages
      BY <3>1, UplineKinds DEF Message
    <3> QED BY <2>1, <3>1, <3>2, SendsTo, OthersAreApart DEF OtherKinds, Message
  <2>3. outputQ'[c] \in {outputQ[c], <<>>}
    BY <1>2 DEF NotifyNetConnect, AInv, TInv, QueuesOK
  <2> QED BY <1>0, <2>1, <2>2, <2>3, OtherAgrees, SameAboutItself
<1> QED BY <1>1, <1>2 DEF NetThread

LEMMA CheckStatusOpenAgrees ==
    ASSUME AInv, NEW p \in Ports, CheckStatusOpen(p), NEW c \in Cns
    PROVE  AgreesNow(c)'
<1> DEFINE tp == FindTcb(p)
           connected == tp # Nobody /\ termState[tp] = "Connected"
           ts == termState[c]
           hs == hostState[c]
<1>0. Agrees(c, ts, hs, upline, downline, outputQ[c])
  BY DEF AInv, Agreed, AgreesNow, CheckStatusOpen
<1>1. connected => tp \in Cns
  BY FindTcbIsLive DEF AInv, TInv
<1>2. PICK q, up : /\ TryOutput(p, q, up)
                   /\ \/ q = outputQ /\ up = upline
                      \/ connected /\ q = [outputQ EXCEPT ![tp] = QueueOutput(@)] /\ up = upline
                      \/ /\ connected /\ q = [outputQ EXCEPT ![tp] = <<>>]
                         /\ up = Append(upline, Message("BREAK", tp)) \o Acks(tp, outputQ[tp])
  BY DEF CheckStatusOpen
<1>3. UNCHANGED <<termState, hostState, downline>>
  BY DEF CheckStatusOpen, hostVars
<1> HIDE DEF tp
<1>4. outputQ \in [Cns -> Seq(OutputBuffers)] /\ upline \in Seq(UplineMessages)
  BY DEF AInv, TInv, QueuesOK
<1>5. CASE q = outputQ /\ up = upline
  BY <1>0, <1>2, <1>3, <1>4, <1>5, TryOutputAgrees DEF AInv, AgreesNow
<1>6. CASE connected /\ q = [outputQ EXCEPT ![tp] = QueueOutput(@)] /\ up = upline
  <2>1. q \in [Cns -> Seq(OutputBuffers)]
    <3>1. QueueOutput(outputQ[tp]) \in Seq(OutputBuffers)
      BY <1>1, <1>4, <1>6 DEF QueueOutput, OutputBuffers
    <3> QED BY <1>1, <1>4, <1>6, <3>1
  <2>2. q[c] # <<>> => outputQ[c] # <<>> \/ ts = "Connected"
    BY <1>1, <1>4, <1>6
  <2>3. Agrees(c, ts, hs, up, downline, q[c])
    BY <1>0, <1>6, <2>2, NothingChanges, SameAboutItself
  <2> QED BY <1>2, <1>3, <1>4, <1>6, <2>1, <2>3, TryOutputAgrees DEF AInv, AgreesNow
<1>7. CASE /\ connected /\ q = [outputQ EXCEPT ![tp] = <<>>]
           /\ up = Append(upline, Message("BREAK", tp)) \o Acks(tp, outputQ[tp])
  <2> DEFINE mid == Append(upline, Message("BREAK", tp))
  <2>1. Message("BREAK", tp) \in UplineMessages /\ outputQ[tp] \in Seq(OutputBuffers)
    BY <1>1, <1>4, <1>7, UplineKinds
  <2>2. mid \in Seq(UplineMessages) /\ Acks(tp, outputQ[tp]) \in Seq(UplineMessages)
    BY <1>1, <1>4, <1>7, <2>1, AcksAreMessages
  <2>3. Agrees(c, ts, hs, mid, downline, outputQ[c])
    <3>1. IF c = tp THEN Sent(upline, mid, c, "BREAK") ELSE SameFor(upline, mid, c)
      BY <1>4, <2>1, SendsTo DEF Message
    <3> HIDE DEF mid
    <3>2. CASE c = tp
      BY <1>0, <1>7, <3>1, <3>2, Breaks
    <3>3. CASE c # tp
      BY <1>0, <3>1, <3>3, NothingChanges, SameIsSameAbout, SameAboutItself
    <3> QED BY <3>2, <3>3
  <2> HIDE DEF mid
  <2>4. Agrees(c, ts, hs, up, downline, outputQ[c])
    <3>1. up = mid \o Acks(tp, outputQ[tp]) /\ tp \in Cns
      BY <1>1, <1>7 DEF mid
    <3>2. c = tp /\ outputQ[tp] # <<>> => outputQ[c] # <<>> /\ ts # "Idle"
      BY <1>7
    <3> QED BY <2>1, <2>2, <2>3, <3>1, <3>2, AcksAgree
  <2>5. q \in [Cns -> Seq(OutputBuffers)] /\ q[c] \in {outputQ[c], <<>>}
    <3>1. [outputQ EXCEPT ![tp] = <<>>] \in [Cns -> Seq(OutputBuffers)]
      BY <1>4, Emptied
    <3> QED BY <1>4, <1>7, <3>1
  <2>6. Agrees(c, ts, hs, up, downline, q[c])
    BY <2>4, <2>5, NothingChanges, SameAboutItself
  <2>7. up \in Seq(UplineMessages)
    BY <1>7, <2>2 DEF mid
  <2> QED BY <1>2, <1>3, <2>5, <2>6, <2>7, TryOutputAgrees DEF AInv, AgreesNow
<1> QED BY <1>2, <1>5, <1>6, <1>7

LEMMA CheckStatusLeftAgrees ==
    ASSUME AInv, NEW p \in Ports, CheckStatusLeft(p), NEW c \in Cns
    PROVE  AgreesNow(c)'
<1> DEFINE tp == FindTcb(p)
<1>0. AgreesNow(c)
  BY DEF AInv, Agreed, CheckStatusLeft
<1>1. UNCHANGED <<hostState, downline>>
  BY DEF CheckStatusLeft, hostVars
<1>2. outputQ \in [Cns -> Seq(OutputBuffers)] /\ upline \in Seq(UplineMessages)
  BY DEF AInv, TInv, QueuesOK
<1>3. CASE tp # Nobody /\ termState[tp] = "Connected"
  <2>1. tp \in Cns
    BY <1>3, FindTcbIsLive DEF AInv, TInv
  <2>2. /\ termState' = [termState EXCEPT ![tp] = "NpuRequestDisconnect"]
        /\ outputQ' = [outputQ EXCEPT ![tp] = <<>>]
        /\ upline' = Append(upline \o Acks(tp, outputQ[tp]), Message("TCN/R", tp))
    BY <1>3 DEF CheckStatusLeft, SendDiscRequest
  <2> HIDE DEF tp
  <2> DEFINE mid == upline \o Acks(tp, outputQ[tp])
  <2>3. outputQ[tp] \in Seq(OutputBuffers) /\ Message("TCN/R", tp) \in UplineMessages
    BY <1>2, <2>1, UplineKinds
  <2>4. mid \in Seq(UplineMessages)
    <3>1. Acks(tp, outputQ[tp]) \in Seq(UplineMessages)
      BY <2>1, <2>3, AcksAreMessages
    <3> QED BY <1>2, <3>1
  <2>5. Agrees(c, termState[c], hostState[c], mid, downline, outputQ[c])
    <3>1. c = tp /\ outputQ[tp] # <<>> => outputQ[c] # <<>> /\ termState[c] # "Idle"
      BY <1>3 DEF tp
    <3> QED BY <1>0, <1>2, <2>1, <2>3, <3>1, AcksAgree DEF AgreesNow
  <2>6. IF c = tp THEN Sent(mid, upline', c, "TCN/R") ELSE SameFor(mid, upline', c)
    <3> HIDE DEF mid
    <3>1. upline' = Append(mid, Msg("TCN/R", tp, Nobody))
      BY <2>2 DEF mid, Message
    <3> QED BY <2>3, <2>4, <3>1, SendsTo DEF Message
  <2> HIDE DEF mid
  <2>7. CASE c = tp
    <3>1. termState[c] = "Connected" /\ termState'[c] = "NpuRequestDisconnect" /\ outputQ'[c] = <<>>
      BY <1>2, <1>3, <2>2, <2>7 DEF tp, AInv, TInv, IInv, TiesOK
    <3>2. Agrees(c, "NpuRequestDisconnect", hostState[c], upline', downline, <<>>)
      BY <2>5, <2>6, <2>7, <3>1, NpuEnds
    <3> QED BY <1>1, <3>1, <3>2 DEF AgreesNow
  <2>8. CASE c # tp
    <3>1. termState'[c] = termState[c] /\ outputQ'[c] = outputQ[c]
      BY <1>2, <2>2, <2>8 DEF AInv, TInv, IInv, TiesOK
    <3>2. Agrees(c, termState[c], hostState[c], upline', downline, outputQ[c])
      BY <2>5, <2>6, <2>8, NothingChanges, SameIsSameAbout, SameAboutItself
    <3> QED BY <1>1, <3>1, <3>2 DEF AgreesNow
  <2> QED BY <2>7, <2>8
<1>4. CASE ~(tp # Nobody /\ termState[tp] = "Connected")
  <2>1. /\ UNCHANGED <<termState, upline>>
        /\ \E d : outputQ' \in {outputQ, [outputQ EXCEPT ![d] = <<>>]}
    BY <1>4 DEF CheckStatusLeft, SendDiscRequest, CloseConnection
  <2>2. outputQ'[c] \in {outputQ[c], <<>>}
    BY <1>2, <2>1
  <2> QED BY <1>0, <1>1, <2>1, <2>2, OtherAgrees, SameAboutItself
<1> QED BY <1>3, <1>4

-----------------------------------------------------------------------------
(* What the host sends.                                                    *)

\* What taking a message leaves of the queue down, and what it is for a connection.
LEMMA Received ==
    ASSUME AInv, NEW kind, NEW id, Receive(kind, id), NEW c
    PROVE  /\ ~resetting /\ UNCHANGED <<hostState, unacked, unsettled>>
           /\ IF c = id THEN Taken(downline, downline', c, kind)
              ELSE SameFor(downline, downline', c)
<1>1. /\ downline \in Seq(DownlineMessages) /\ downline # <<>> /\ downline' = Tail(downline)
      /\ Head(downline).kind = kind /\ Head(downline).id = id
  BY DEF AInv, TInv, QueuesOK, Receive
<1>2. IF c = Head(downline).id THEN Taken(downline, Tail(downline), c, Head(downline).kind)
      ELSE SameFor(downline, Tail(downline), c)
  BY <1>1, TakesFrom
<1> QED BY <1>1, <1>2 DEF Receive, hostVars, netVars

\* What a message sent up is for a connection.
LEMMA Replied ==
    ASSUME AInv, NEW kind, NEW id, NEW n, Msg(kind, id, n) \in UplineMessages,
           upline' = Append(upline, Msg(kind, id, n)), NEW c
    PROVE  IF c = id THEN Sent(upline, upline', c, kind) ELSE SameFor(upline, upline', c)
<1>1. upline \in Seq(UplineMessages)
  BY DEF AInv, TInv, QueuesOK
<1> QED BY <1>1, SendsTo

\* A connection the message is not about.
LEMMA BystanderAgrees ==
    ASSUME AInv, NEW kind, NEW cn \in Cns, Receive(kind, cn), NEW c \in Cns, c # cn,
           \/ UNCHANGED upline
           \/ \E k, n : /\ Msg(k, cn, n) \in UplineMessages
                        /\ upline' = Append(upline, Msg(k, cn, n)),
           termState'[c] = termState[c],
           outputQ'[c] # <<>> => outputQ[c] # <<>>
    PROVE  AgreesNow(c)'
<1>1. SameFor(upline, upline', c)
  BY Replied, SameForItself
<1>2. SameFor(downline, downline', c) /\ ~resetting /\ hostState'[c] = hostState[c]
  BY Received
<1>3. AgreesNow(c)
  BY <1>2 DEF AInv, Agreed
<1> QED BY <1>1, <1>2, <1>3, OtherAgrees, SameIsSameAbout

LEMMA EndTerminalAgrees ==
    ASSUME AInv, NEW cn \in Cns, EndTerminal(cn), NEW c \in Cns
    PROVE  /\ termState'[c] = IF c = cn THEN "Idle" ELSE termState[c]
           /\ outputQ'[c] \in {outputQ[c], <<>>}
<1>1. /\ termState' = [termState EXCEPT ![cn] = "Idle"]
      /\ \E d : outputQ' \in {outputQ, [outputQ EXCEPT ![d] = <<>>]}
  BY DEF EndTerminal, CloseConnection
<1>2. termState \in [Cns -> TermStates] /\ outputQ \in [Cns -> Seq(OutputBuffers)]
  BY DEF AInv, TInv, IInv, TiesOK, QueuesOK
<1> QED BY <1>1, <1>2

LEMMA SupervisionAgrees ==
    ASSUME AInv, SupervisionReply, NEW c \in Cns
    PROVE  AgreesNow(c)'
<1>1. /\ Receive("SUP/N", Nobody) /\ UNCHANGED <<upline, termState, outputQ>>
  BY DEF SupervisionReply, termVars, flowVars
<1>2. SameFor(downline, downline', c) /\ ~resetting /\ hostState'[c] = hostState[c]
  BY <1>1, Received
<1>3. AgreesNow(c)
  BY <1>2 DEF AInv, Agreed
<1> QED BY <1>1, <1>2, <1>3, OtherAgrees, SameIsSameAbout, SameAboutItself

LEMMA ConfigurationAgrees ==
    ASSUME AInv, NEW p \in Ports, ConfigurationReply(p), NEW c \in Cns
    PROVE  AgreesNow(c)'
<1> DEFINE cn == Min(FreeTerminals)
<1>1. PICK kind \in {"CNF/N", "CNF/E"} : Receive(kind, p)
  BY DEF ConfigurationReply
<1>2. SameAbout(downline, downline', c) /\ ~resetting /\ UNCHANGED hostState
  BY <1>1, Received, OthersAreApart DEF OtherKinds
<1>3. AgreesNow(c)
  BY <1>2 DEF AInv, Agreed
<1>4. CASE /\ FreeTerminals # {} /\ Reply(Message("ICN/R", cn))
           /\ termState' = [termState EXCEPT ![cn] = "RequestConnection"]
           /\ outputQ' = [outputQ EXCEPT ![cn] = <<>>]
  <2>1. cn \in Cns /\ termState[cn] = "Idle"
    <3>1. cn \in FreeTerminals
      BY <1>4, MinIsOne DEF FreeTerminals
    <3> QED BY <3>1 DEF FreeTerminals
  <2> HIDE DEF cn
  <2>2. IF c = cn THEN Sent(upline, upline', c, "ICN/R") ELSE SameFor(upline, upline', c)
    <3>1. Msg("ICN/R", cn, Nobody) \in UplineMessages
      BY <2>1, UplineKinds DEF Message
    <3> QED BY <1>4, <3>1, Replied DEF Reply, Message
  <2>3. termState \in [Cns -> TermStates] /\ outputQ \in [Cns -> Seq(OutputBuffers)]
    BY DEF AInv, TInv, IInv, TiesOK, QueuesOK
  <2>4. CASE c = cn
    <3>1. Agrees(c, "Idle", hostState[c], upline, downline', outputQ[c])
      BY <1>2, <1>3, <2>1, <2>4, NothingChanges, SameAboutItself DEF AgreesNow
    <3>2. Agrees(c, "RequestConnection", hostState[c], upline', downline', <<>>)
      BY <2>2, <2>4, <3>1, Configured
    <3>3. termState'[c] = "RequestConnection" /\ outputQ'[c] = <<>>
      BY <1>4, <2>3, <2>4
    <3> QED BY <1>2, <3>2, <3>3 DEF AgreesNow
  <2>5. CASE c # cn
    <3>1. termState'[c] = termState[c] /\ outputQ'[c] = outputQ[c]
      BY <1>4, <2>3, <2>5
    <3> QED BY <1>2, <1>3, <2>2, <2>5, <3>1, OtherAgrees, SameIsSameAbout
  <2> QED BY <2>4, <2>5
<1>5. CASE CloseConnection(p, outputQ) /\ UNCHANGED <<termState, upline>>
  <2>1. outputQ'[c] \in {outputQ[c], <<>>}
    BY <1>5 DEF CloseConnection, AInv, TInv, QueuesOK
  <2> QED BY <1>2, <1>3, <1>5, <2>1, OtherAgrees, SameAboutItself
<1> QED BY <1>4, <1>5 DEF ConfigurationReply, Configurable

LEMMA ConnectionAgrees ==
    ASSUME AInv, NEW cn \in Cns, ConnectionReply(cn), NEW c \in Cns
    PROVE  AgreesNow(c)'
<1> DEFINE ts == termState[c]
           hs == hostState[c]
<1>0. PICK kind \in {"ICN/N", "ICN/E"} : Receive(kind, cn)
  BY DEF ConnectionReply
<1>1. UNCHANGED upline
  BY DEF ConnectionReply
<1>2. ~resetting /\ UNCHANGED hostState
  BY <1>0, Received
<1>3. Agrees(c, ts, hs, upline, downline, outputQ[c])
  BY <1>2 DEF AInv, Agreed, AgreesNow
<1>4. termState \in [Cns -> TermStates] /\ outputQ \in [Cns -> Seq(OutputBuffers)]
  BY DEF AInv, TInv, IInv, TiesOK, QueuesOK
<1>5. CASE /\ Receive("ICN/N", cn) /\ termState[cn] = "RequestConnection"
           /\ termState' = [termState EXCEPT ![cn] = "Connected"] /\ UNCHANGED flowVars
  <2>1. CASE c = cn
    <3>1. Taken(downline, downline', c, "ICN/N")
      BY <1>5, <2>1, Received
    <3>2. Agrees(c, "Connected", hs, upline, downline', <<>>)
      BY <1>3, <3>1, Accepted
    <3>3. Agrees(c, "Connected", hs, upline, downline', outputQ[c])
      BY <3>2, NothingChanges, SameAboutItself
    <3>4. termState'[c] = "Connected"
      BY <1>4, <1>5, <2>1
    <3> QED BY <1>1, <1>2, <1>5, <3>3, <3>4 DEF AgreesNow, flowVars
  <2>2. CASE c # cn
    BY <1>0, <1>1, <1>4, <1>5, <2>2, BystanderAgrees DEF flowVars
  <2> QED BY <2>1, <2>2
<1>6. CASE Receive("ICN/E", cn) /\ EndTerminal(cn)
  <2>0. /\ termState'[c] = IF c = cn THEN "Idle" ELSE termState[c]
        /\ outputQ'[c] \in {outputQ[c], <<>>}
    BY <1>6, EndTerminalAgrees
  <2>1. CASE c = cn
    <3>1. Taken(downline, downline', c, "ICN/E")
      BY <1>6, <2>1, Received
    <3>2. Agrees(c, "Idle", hs, upline, downline', outputQ'[c])
      BY <1>3, <3>1, Rejected
    <3> QED BY <1>1, <1>2, <2>0, <2>1, <3>2 DEF AgreesNow
  <2>2. CASE c # cn
    BY <1>0, <1>1, <2>0, <2>2, BystanderAgrees
  <2> QED BY <2>1, <2>2
<1>7. CASE UNCHANGED termVars /\ termState[cn] # "RequestConnection"
  <2>1. CASE c = cn
    <3>1. Taken(downline, downline', c, kind)
      BY <1>0, <2>1, Received
    <3>2. ts = "RequestConnection"
      <4> DEFINE U == Kinds(upline, UpControl, c)
                 D == Kinds(downline, DownControl, c)
      <4>1. <<ts, hs, U, D>> \in Phases
        BY <1>3 DEF Agrees
      <4>2. kind \in D
        BY <1>0, <3>1 DEF Taken, Kinds, DownControl
      <4> HIDE DEF U, D, ts, hs
      <4>3. CASE "ICN/N" \in D
        BY <4>1, <4>3, PhaseOfAccepted
      <4>4. CASE "ICN/E" \in D
        BY <4>1, <4>4, PhaseOfRejected
      <4> QED BY <1>0, <4>2, <4>3, <4>4
    <3> QED BY <1>7, <2>1, <3>2
  <2>2. CASE c # cn
    BY <1>0, <1>1, <1>7, <2>2, BystanderAgrees DEF termVars, flowVars
  <2> QED BY <2>1, <2>2
<1> QED BY <1>5, <1>6, <1>7 DEF ConnectionReply

LEMMA DisconnectRequestAgrees ==
    ASSUME AInv, NEW cn \in Cns, DisconnectRequest(cn), NEW c \in Cns
    PROVE  AgreesNow(c)'
<1> DEFINE ts == termState[c]
           hs == hostState[c]
<1>0. Receive("TCN/R", cn) /\ UNCHANGED outputQ
  BY DEF DisconnectRequest, flowVars
<1>1. PICK k \in {"TERM", "TCN/N"} :
        /\ upline' = Append(upline, Message(k, cn))
        /\ \/ /\ k = "TERM" /\ termState[cn] = "Connected"
              /\ termState' = [termState EXCEPT ![cn] = "HostRequestDisconnect"]
           \/ k = "TCN/N" /\ termState[cn] # "Connected" /\ UNCHANGED termState
  BY DEF DisconnectRequest, Reply
<1>2. ~resetting /\ UNCHANGED hostState
  BY <1>0, Received
<1>3. Agrees(c, ts, hs, upline, downline, outputQ[c])
  BY <1>2 DEF AInv, Agreed, AgreesNow
<1>4. termState \in [Cns -> TermStates]
  BY DEF AInv, TInv, IInv, TiesOK
<1>5. Msg(k, cn, Nobody) \in UplineMessages /\ upline' = Append(upline, Msg(k, cn, Nobody))
  BY <1>1, UplineKinds DEF Message
<1>6. CASE c = cn
  <2>1. Taken(downline, downline', c, "TCN/R") /\ Sent(upline, upline', c, k)
    BY <1>0, <1>5, <1>6, Received, Replied
  <2>2. CASE k = "TERM"
    <3>1. ts = "Connected" /\ termState'[c] = "HostRequestDisconnect"
      BY <1>1, <1>4, <1>6, <2>2
    <3>2. Agrees(c, "HostRequestDisconnect", hs, upline', downline', outputQ[c])
      BY <1>3, <2>1, <2>2, <3>1, Disconnected
    <3> QED BY <1>0, <1>2, <3>1, <3>2 DEF AgreesNow
  <2>3. CASE k = "TCN/N"
    <3>1. ts # "Connected" /\ termState'[c] = ts
      BY <1>1, <1>6, <2>3
    <3>2. Agrees(c, ts, hs, upline', downline', outputQ[c])
      BY <1>3, <2>1, <2>3, <3>1, AlreadyEnding
    <3> QED BY <1>0, <1>2, <3>1, <3>2 DEF AgreesNow
  <2> QED BY <2>2, <2>3
<1>7. CASE c # cn
  <2>1. termState'[c] = termState[c]
    BY <1>1, <1>4, <1>7
  <2> QED BY <1>0, <1>5, <1>7, <2>1, BystanderAgrees
<1> QED BY <1>6, <1>7

\* The end of a connection, seen from the message that brings it.
LEMMA DisconnectReplyAgrees ==
    ASSUME AInv, NEW cn \in Cns, DisconnectReply(cn), NEW c \in Cns
    PROVE  AgreesNow(c)'
<1> DEFINE ts == termState[c]
           hs == hostState[c]
<1>0. Receive("TCN/N", cn) /\ UNCHANGED upline
  BY DEF DisconnectReply
<1>2. ~resetting /\ UNCHANGED hostState
  BY <1>0, Received
<1>3. Agrees(c, ts, hs, upline, downline, outputQ[c])
  BY <1>2 DEF AInv, Agreed, AgreesNow
<1>4. CASE EndTerminal(cn)
  <2>0. /\ termState'[c] = IF c = cn THEN "Idle" ELSE termState[c]
        /\ outputQ'[c] \in {outputQ[c], <<>>}
    BY <1>4, EndTerminalAgrees
  <2>1. CASE c = cn
    <3>1. Taken(downline, downline', c, "TCN/N")
      BY <1>0, <2>1, Received
    <3>2. Agrees(c, "Idle", hs, upline, downline', outputQ'[c])
      BY <1>3, <3>1, EndAgreed
    <3> QED BY <1>0, <1>2, <2>0, <2>1, <3>2 DEF AgreesNow
  <2>2. CASE c # cn
    BY <1>0, <2>0, <2>2, BystanderAgrees
  <2> QED BY <2>1, <2>2
<1>5. CASE termState[cn] # "NpuRequestDisconnect" /\ UNCHANGED termVars
  <2>1. CASE c = cn
    <3>1. Taken(downline, downline', c, "TCN/N")
      BY <1>0, <2>1, Received
    <3>2. ts = "NpuRequestDisconnect"
      <4> DEFINE U == Kinds(upline, UpControl, c)
                 D == Kinds(downline, DownControl, c)
      <4>1. <<ts, hs, U, D>> \in Phases
        BY <1>3 DEF Agrees
      <4>2. "TCN/N" \in D
        BY <3>1 DEF Taken, Kinds, DownControl
      <4>3. "TCN/R" \notin D
        BY <1>3, <3>1 DEF Taken, Kinds, Agrees, Ordered
      <4> HIDE DEF U, D
      <4> QED BY <4>1, <4>2, <4>3, PhaseOfEndAgreed
    <3> QED BY <1>5, <2>1, <3>2
  <2>2. CASE c # cn
    BY <1>0, <1>5, <2>2, BystanderAgrees DEF termVars, flowVars
  <2> QED BY <2>1, <2>2
<1> QED BY <1>4, <1>5 DEF DisconnectReply

LEMMA PhaseOfTermDown ==
    ASSUME NEW ts, NEW hs, NEW U, NEW D, <<ts, hs, U, D>> \in Phases, "TERM" \in D
    PROVE  ts \in {"HostRequestDisconnect", "NpuRequestDisconnect"}
  BY DEF Phases

LEMMA TermBlockAgrees ==
    ASSUME AInv, NEW cn \in Cns, TermBlock(cn), NEW c \in Cns
    PROVE  AgreesNow(c)'
<1> DEFINE ts == termState[c]
           hs == hostState[c]
<1>0. Receive("TERM", cn)
  BY DEF TermBlock
<1>2. ~resetting /\ UNCHANGED hostState
  BY <1>0, Received
<1>3. Agrees(c, ts, hs, upline, downline, outputQ[c])
  BY <1>2 DEF AInv, Agreed, AgreesNow
<1>4. CASE /\ termState[cn] = "HostRequestDisconnect"
           /\ Reply(Message("TCN/N", cn)) /\ EndTerminal(cn)
  <2>0. /\ termState'[c] = IF c = cn THEN "Idle" ELSE termState[c]
        /\ outputQ'[c] \in {outputQ[c], <<>>}
    BY <1>4, EndTerminalAgrees
  <2>1. /\ Msg("TCN/N", cn, Nobody) \in UplineMessages
        /\ upline' = Append(upline, Msg("TCN/N", cn, Nobody))
    BY <1>4, UplineKinds DEF Message, Reply
  <2>2. CASE c = cn
    <3>1. Taken(downline, downline', c, "TERM") /\ Sent(upline, upline', c, "TCN/N")
      BY <1>0, <2>1, <2>2, Received, Replied
    <3>2. Agrees(c, "Idle", hs, upline', downline', outputQ'[c])
      BY <1>3, <1>4, <2>2, <3>1, TerminatedByHost
    <3> QED BY <1>2, <2>0, <2>2, <3>2 DEF AgreesNow
  <2>3. CASE c # cn
    BY <1>0, <2>0, <2>1, <2>3, BystanderAgrees
  <2> QED BY <2>2, <2>3
<1>5. CASE /\ termState[cn] = "NpuRequestDisconnect"
           /\ Reply(Message("TERM", cn)) /\ UNCHANGED <<svmState, portVars, termVars>>
  <2>1. /\ Msg("TERM", cn, Nobody) \in UplineMessages
        /\ upline' = Append(upline, Msg("TERM", cn, Nobody))
    BY <1>5, UplineKinds DEF Message, Reply
  <2>2. CASE c = cn
    <3>1. Taken(downline, downline', c, "TERM") /\ Sent(upline, upline', c, "TERM")
      BY <1>0, <2>1, <2>2, Received, Replied
    <3>2. Agrees(c, ts, hs, upline', downline', outputQ[c])
      BY <1>3, <1>5, <2>2, <3>1, TerminatedByNpu
    <3> QED BY <1>2, <1>5, <3>2 DEF AgreesNow, termVars, flowVars
  <2>3. CASE c # cn
    BY <1>0, <1>5, <2>1, <2>3, BystanderAgrees DEF termVars, flowVars
  <2> QED BY <2>2, <2>3
<1>6. CASE /\ termState[cn] \notin {"HostRequestDisconnect", "NpuRequestDisconnect"}
           /\ UNCHANGED <<svmState, portVars, termVars, upline>>
  <2>1. CASE c = cn
    <3>1. Taken(downline, downline', c, "TERM")
      BY <1>0, <2>1, Received
    <3>2. "TERM" \in Kinds(downline, DownControl, c)
      BY <3>1 DEF Taken, Kinds, DownControl
    <3>3. ts \in {"HostRequestDisconnect", "NpuRequestDisconnect"}
      BY <1>3, <3>2, PhaseOfTermDown DEF Agrees
    <3> QED BY <1>6, <2>1, <3>3
  <2>2. CASE c # cn
    BY <1>0, <1>6, <2>2, BystanderAgrees DEF termVars, flowVars
  <2> QED BY <2>1, <2>2
<1> QED BY <1>4, <1>5, <1>6 DEF TermBlock

LEMMA DataBlockAgrees ==
    ASSUME AInv, NEW cn \in Cns, DataBlock(cn), NEW c \in Cns
    PROVE  AgreesNow(c)'
<1> DEFINE ts == termState[c]
           hs == hostState[c]
           n == Head(downline).bsn
<1>0. Receive("MSG", cn) /\ UNCHANGED termState
  BY DEF DataBlock
<1>1. n \in 1 .. Window
  BY <1>0, ReceiveTypes, HeadBsn DEF AInv
<1>2. ~resetting /\ UNCHANGED hostState
  BY <1>0, Received
<1>3. Agrees(c, ts, hs, upline, downline, outputQ[c])
  BY <1>2 DEF AInv, Agreed, AgreesNow
<1>4. outputQ \in [Cns -> Seq(OutputBuffers)] /\ upline \in Seq(UplineMessages)
  BY DEF AInv, TInv, QueuesOK
<1>5. Agrees(c, ts, hs, upline, downline', outputQ[c])
  <2>1. CASE c = cn
    BY <1>0, <1>3, <2>1, Received, DataArrives DEF DownData
  <2>2. CASE c # cn
    BY <1>0, <1>3, <2>2, Received, NothingChanges, SameIsSameAbout, SameAboutItself
  <2> QED BY <2>1, <2>2
<1>6. CASE termState[cn] = "Connected"
  <2> DEFINE q == [outputQ EXCEPT ![cn] = QueueAck(@, n)]
  <2>1. TryOutput(pcbp[cn], q, upline)
    BY <1>6 DEF DataBlock
  <2>2. pcbp[cn] \in Ports
    BY <1>6 DEF AInv, TInv, IInv, TiesOK, HasPort
  <2> HIDE DEF n
  <2>3. q \in [Cns -> Seq(OutputBuffers)]
    <3>1. QueueAck(outputQ[cn], n) \in Seq(OutputBuffers)
      BY <1>1, <1>4, QueueAckIsQueue
    <3> QED BY <1>4, <3>1
  <2>4. q[c] # <<>> => outputQ[c] # <<>> \/ ts = "Connected"
    BY <1>4, <1>6
  <2> HIDE DEF q
  <2>5. Agrees(c, ts, hs, upline, downline', q[c])
    BY <1>5, <2>4, NothingChanges, SameAboutItself
  <2>6. Agrees(c, ts, hs, upline', downline', outputQ'[c])
    BY <1>4, <2>1, <2>2, <2>3, <2>5, TryOutputAgrees DEF AInv
  <2> QED BY <1>0, <1>2, <2>6 DEF AgreesNow
<1>7. CASE termState[cn] # "Connected"
  <2>1. upline' = Append(upline, Msg("BACK", cn, n)) /\ UNCHANGED outputQ
    BY <1>7 DEF DataBlock, Reply
  <2> HIDE DEF n
  <2>2. Msg("BACK", cn, n) \in UplineMessages
    BY <1>1, UplineKinds, NumbersAreThese
  <2>3. CASE c = cn
    <3>1. /\ Taken(downline, downline', c, "MSG") /\ Sent(upline, upline', c, "BACK")
      BY <1>0, <2>1, <2>2, <2>3, Received, Replied
    <3>2. hs # "idle" /\ \A k \in {"ICN/R", "TCN/N", "TERM"} : ~Has(upline, {k}, c)
      BY <1>3, <3>1, DataArrives DEF DownData
    <3>3. Agrees(c, ts, hs, upline', downline', outputQ[c])
      BY <1>5, <3>1, <3>2, AcknowledgesBlock
    <3> QED BY <1>0, <1>2, <2>1, <3>3 DEF AgreesNow
  <2>4. CASE c # cn
    BY <1>0, <2>1, <2>2, <2>4, BystanderAgrees
  <2> QED BY <2>3, <2>4
<1> QED BY <1>6, <1>7

LEMMA MarkAgrees ==
    ASSUME AInv, NEW cn \in Cns, Mark(cn), NEW c \in Cns
    PROVE  AgreesNow(c)'
<1> DEFINE hs == hostState[c]
           n == Head(downline).bsn
<1>0. Receive("MARK", cn) /\ UNCHANGED <<termState, outputQ>>
  BY DEF Mark
<1>1. n \in Numbers
  BY <1>0, ReceiveTypes, HeadBsn, NumbersAreThese DEF AInv
<1>2. ~resetting /\ UNCHANGED hostState
  BY <1>0, Received
<1>3. Agrees(c, termState[c], hs, upline, downline, outputQ[c])
  BY <1>2 DEF AInv, Agreed, AgreesNow
<1>4. upline' = Append(upline, Msg("BACK", cn, n)) /\ Msg("BACK", cn, n) \in UplineMessages
  BY <1>1, UplineKinds DEF Mark, Reply
<1> HIDE DEF n
<1>5. CASE c = cn
  <2>1. Taken(downline, downline', c, "MARK") /\ Sent(upline, upline', c, "BACK")
    BY <1>0, <1>4, <1>5, Received, Replied
  <2>2. /\ Agrees(c, termState[c], hs, upline, downline', outputQ[c])
        /\ hs # "idle" /\ \A k \in {"ICN/R", "TCN/N", "TERM"} : ~Has(upline, {k}, c)
    BY <1>3, <2>1, DataArrives DEF DownData
  <2>3. Agrees(c, termState[c], hs, upline', downline', outputQ[c])
    BY <2>1, <2>2, AcknowledgesBlock
  <2> QED BY <1>0, <1>2, <2>3 DEF AgreesNow
<1>6. CASE c # cn
  BY <1>0, <1>4, <1>6, BystanderAgrees
<1> QED BY <1>5, <1>6

LEMMA InterruptAgrees ==
    ASSUME AInv, NEW cn \in Cns, Interrupt(cn), NEW c \in Cns
    PROVE  AgreesNow(c)'
<1> DEFINE ts == termState[c]
           hs == hostState[c]
<1>0. /\ Receive("ICMD", cn) /\ UNCHANGED termState
      /\ upline' = upline \o Acks(cn, outputQ[cn]) /\ outputQ' = [outputQ EXCEPT ![cn] = <<>>]
  BY DEF Interrupt
<1>2. ~resetting /\ UNCHANGED hostState
  BY <1>0, Received
<1>3. Agrees(c, ts, hs, upline, downline, outputQ[c])
  BY <1>2 DEF AInv, Agreed, AgreesNow
<1>4. outputQ \in [Cns -> Seq(OutputBuffers)] /\ upline \in Seq(UplineMessages)
  BY DEF AInv, TInv, QueuesOK
<1>5. /\ Agrees(c, ts, hs, upline, downline', outputQ[c])
      /\ c = cn => ts # "Idle"
  <2>1. CASE c = cn
    <3>1. /\ Agrees(c, ts, hs, upline, downline', outputQ[c])
          /\ ts \in {"Connected", "NpuRequestDisconnect"}
      BY <1>0, <1>3, <2>1, Received, DataArrives DEF DownData
    <3> QED BY <3>1
  <2>2. CASE c # cn
    BY <1>0, <1>3, <2>2, Received, NothingChanges, SameIsSameAbout, SameAboutItself
  <2> QED BY <2>1, <2>2
<1>6. Agrees(c, ts, hs, upline', downline', outputQ[c])
  <2>1. outputQ[cn] \in Seq(OutputBuffers)
    BY <1>4
  <2> QED BY <1>0, <1>4, <1>5, <2>1, AcksAgree
<1>7. outputQ'[c] \in {outputQ[c], <<>>}
  BY <1>0, <1>4
<1>8. Agrees(c, ts, hs, upline', downline', outputQ'[c])
  BY <1>6, <1>7, NothingChanges, SameAboutItself
<1> QED BY <1>0, <1>2, <1>8 DEF AgreesNow

LEMMA DownlineAgrees ==
    ASSUME AInv, ProcessDownline, NEW c \in Cns
    PROVE  AgreesNow(c)'
  BY SupervisionAgrees, ConfigurationAgrees, ConnectionAgrees, DisconnectRequestAgrees,
     DisconnectReplyAgrees, TermBlockAgrees, DataBlockAgrees, MarkAgrees, InterruptAgrees
     DEF ProcessDownline

-----------------------------------------------------------------------------
(* The host.                                                               *)

LEMMA HostReceived ==
    ASSUME AInv, NEW kind, NEW id, HostReceive(kind, id), NEW c
    PROVE  /\ ~resetting /\ UNCHANGED <<termState, outputQ, breakPending, pcbp, unsettled>>
           /\ IF c = id THEN Taken(upline, upline', c, kind)
              ELSE SameFor(upline, upline', c)
<1>1. /\ upline \in Seq(UplineMessages) /\ upline # <<>> /\ upline' = Tail(upline)
      /\ Head(upline).kind = kind /\ Head(upline).id = id
  BY DEF AInv, TInv, QueuesOK, HostReceive
<1>2. IF c = Head(upline).id THEN Taken(upline, Tail(upline), c, Head(upline).kind)
      ELSE SameFor(upline, Tail(upline), c)
  BY <1>1, TakesFrom
<1> QED BY <1>1, <1>2 DEF HostReceive, termVars, flowVars, netVars

LEMMA HostSent ==
    ASSUME AInv, NEW kind, NEW id, NEW n, Msg(kind, id, n) \in DownlineMessages,
           HostSends(Msg(kind, id, n)), NEW c
    PROVE  IF c = id THEN Sent(downline, downline', c, kind)
           ELSE SameFor(downline, downline', c)
<1>1. downline \in Seq(DownlineMessages)
  BY DEF AInv, TInv, QueuesOK
<1> QED BY <1>1, SendsTo DEF HostSends

LEMMA HostSideAgrees ==
    ASSUME AInv, ~resetting, UNCHANGED <<termState, outputQ>>, NEW c \in Cns,
           hostState'[c] = hostState[c],
           SameAbout(upline, upline', c), SameAbout(downline, downline', c)
    PROVE  AgreesNow(c)'
<1>1. AgreesNow(c)
  BY DEF AInv, Agreed
<1> QED BY <1>1, OtherAgrees

LEMMA HostServesAgrees ==
    ASSUME AInv, NotifyHostRegulation \/ HostSupervises \/ \E p \in Ports : HostConfigures(p),
           NEW c \in Cns
    PROVE  AgreesNow(c)'
<1>1. CASE NotifyHostRegulation
  <2>1. upline' = Append(upline, Msg("SUP/R", Nobody, Nobody))
    BY <1>1 DEF NotifyHostRegulation, Message
  <2>2. Msg("SUP/R", Nobody, Nobody) \in UplineMessages
    BY DEF Msg, UplineMessages
  <2>3. SameFor(upline, upline', c)
    BY <2>1, <2>2, Replied
  <2> QED BY <1>1, <2>3, HostSideAgrees, SameIsSameAbout, SameAboutItself
          DEF NotifyHostRegulation, termVars, flowVars, hostVars
<1>2. CASE HostSupervises
  <2>1. HostSends(Msg("SUP/N", Nobody, Nobody)) /\ Msg("SUP/N", Nobody, Nobody) \in DownlineMessages
    BY <1>2 DEF HostSupervises, Message, Msg, DownlineMessages
  <2>2. SameFor(upline, upline', c) /\ SameFor(downline, downline', c)
    BY <1>2, <2>1, HostReceived, HostSent DEF HostSupervises
  <2> QED BY <1>2, <2>2, HostReceived, HostSideAgrees, SameIsSameAbout
          DEF HostSupervises, hostVars
<1>3. ASSUME NEW p \in Ports, HostConfigures(p) PROVE AgreesNow(c)'
  <2>1. PICK kind \in {"CNF/N", "CNF/E"} : HostSends(Message(kind, p))
    BY <1>3 DEF HostConfigures
  <2>2. HostSends(Msg(kind, p, Nobody)) /\ Msg(kind, p, Nobody) \in DownlineMessages
    BY <2>1, DownlineKinds DEF Message
  <2>3. SameAbout(upline, upline', c)
    BY <1>3, HostReceived, OthersAreApart DEF HostConfigures, OtherKinds
  <2>4. SameAbout(downline, downline', c)
    <3>1. kind \in OtherKinds
      BY DEF OtherKinds
    <3> QED BY <2>2, <3>1, HostSent, OthersAreApart
  <2> QED BY <1>3, <2>3, <2>4, HostReceived, HostSideAgrees DEF HostConfigures, hostVars
<1> QED BY <1>1, <1>2, <1>3

\* A step of the host on connection cn: what it takes, what it answers.
LEMMA HostBystander ==
    ASSUME AInv, ~resetting, UNCHANGED <<termState, outputQ>>, NEW cn \in Cns, NEW c \in Cns, c # cn,
           UNCHANGED upline \/ \E kind : HostReceive(kind, cn),
           \/ UNCHANGED downline
           \/ \E k, n : Msg(k, cn, n) \in DownlineMessages /\ HostSends(Msg(k, cn, n)),
           \/ UNCHANGED hostState \/ \E s : hostState' = [hostState EXCEPT ![cn] = s]
    PROVE  AgreesNow(c)'
<1>1. SameFor(upline, upline', c)
  BY HostReceived, SameForItself
<1>2. SameFor(downline, downline', c)
  BY HostSent, SameForItself
<1>3. hostState'[c] = hostState[c]
  BY DEF AInv, TInv, LinksOK
<1> QED BY <1>1, <1>2, <1>3, HostSideAgrees, SameIsSameAbout

LEMMA HostConnectsAgrees ==
    ASSUME AInv, NEW cn \in Cns, HostConnects(cn), NEW c \in Cns
    PROVE  AgreesNow(c)'
<1> DEFINE ts == termState[c]
           hs == hostState[c]
<1>0. HostReceive("ICN/R", cn)
  BY DEF HostConnects
<1>1. PICK k \in {"ICN/N", "ICN/E"} :
        /\ HostSends(Message(k, cn))
        /\ \/ k = "ICN/N" /\ hostState' = [hostState EXCEPT ![cn] = "connected"]
           \/ k = "ICN/E" /\ UNCHANGED hostState
  BY DEF HostConnects
<1>2. ~resetting /\ UNCHANGED <<termState, outputQ>>
  BY <1>0, HostReceived
<1>3. Agrees(c, ts, hs, upline, downline, outputQ[c])
  BY <1>2 DEF AInv, Agreed, AgreesNow
<1>4. HostSends(Msg(k, cn, Nobody)) /\ Msg(k, cn, Nobody) \in DownlineMessages
  BY <1>1, DownlineKinds DEF Message
<1>5. CASE c = cn
  <2>1. Taken(upline, upline', c, "ICN/R") /\ Sent(downline, downline', c, k)
    BY <1>0, <1>4, <1>5, HostReceived, HostSent
  <2>2. CASE k = "ICN/N"
    <3>1. Agrees(c, ts, "connected", upline', downline', outputQ[c])
      BY <1>3, <2>1, <2>2, HostAccepts
    <3>2. hostState'[c] = "connected"
      BY <1>1, <1>5, <2>2 DEF AInv, TInv, LinksOK
    <3> QED BY <1>2, <3>1, <3>2 DEF AgreesNow
  <2>3. CASE k = "ICN/E"
    <3>1. Agrees(c, ts, hs, upline', downline', outputQ[c])
      BY <1>3, <2>1, <2>3, HostRejects
    <3> QED BY <1>1, <1>2, <2>3, <3>1 DEF AgreesNow
  <2> QED BY <2>2, <2>3
<1>6. CASE c # cn
  BY <1>0, <1>1, <1>2, <1>4, <1>6, HostBystander
<1> QED BY <1>5, <1>6

LEMMA HostDisconnectsAgrees ==
    ASSUME AInv, NEW cn \in Cns, HostDisconnects(cn), NEW c \in Cns
    PROVE  AgreesNow(c)'
<1> DEFINE ts == termState[c]
           hs == hostState[c]
<1>0. hostState \in [Cns -> {"idle", "connected", "hostDisc", "npuDisc"}]
  BY DEF AInv, TInv, LinksOK
<1>1. \A k \in {"TERM", "TCN/N"} : Msg(k, cn, Nobody) \in DownlineMessages
  BY DownlineKinds DEF Message
<1>2. PICK kind \in {"TCN/R", "TERM", "TCN/N"} : HostReceive(kind, cn)
  BY DEF HostDisconnects
<1>3. ~resetting /\ UNCHANGED <<termState, outputQ>>
  BY <1>2, HostReceived
<1>4. Agrees(c, ts, hs, upline, downline, outputQ[c])
  BY <1>3 DEF AInv, Agreed, AgreesNow
<1>5. CASE c # cn
  <2>1. UNCHANGED downline \/ \E k \in {"TERM", "TCN/N"} : HostSends(Msg(k, cn, Nobody))
    BY DEF HostDisconnects, Message
  <2>2. UNCHANGED hostState \/ \E s : hostState' = [hostState EXCEPT ![cn] = s]
    BY DEF HostDisconnects, HostEnds, hostVars
  <2> QED BY <1>1, <1>2, <1>3, <1>5, <2>1, <2>2, HostBystander
<1>6. CASE c = cn
  <2>1. ASSUME HostReceive("TCN/R", cn), hs = "connected", HostSends(Message("TERM", cn)),
               hostState' = [hostState EXCEPT ![cn] = "npuDisc"]
        PROVE  AgreesNow(c)'
    <3>1. Taken(upline, upline', c, "TCN/R") /\ Sent(downline, downline', c, "TERM")
      BY <1>1, <1>6, <2>1, HostReceived, HostSent DEF Message
    <3>2. Agrees(c, ts, "npuDisc", upline', downline', outputQ[c])
      BY <1>4, <2>1, <3>1, HostAgrees
    <3>3. hostState'[c] = "npuDisc"
      BY <1>0, <1>6, <2>1
    <3> QED BY <1>3, <3>2, <3>3 DEF AgreesNow
  <2>2. ASSUME HostReceive("TCN/R", cn), hs # "connected", HostSends(Message("TCN/N", cn)),
               UNCHANGED hostState
        PROVE  AgreesNow(c)'
    <3>1. Taken(upline, upline', c, "TCN/R") /\ Sent(downline, downline', c, "TCN/N")
      BY <1>1, <1>6, <2>2, HostReceived, HostSent DEF Message
    <3>2. Agrees(c, ts, hs, upline', downline', outputQ[c])
      BY <1>4, <2>2, <3>1, HostAlreadyEnding
    <3> QED BY <1>3, <2>2, <3>2 DEF AgreesNow
  <2>3. ASSUME HostReceive("TERM", cn), hs = "npuDisc", HostSends(Message("TCN/N", cn)), HostEnds(cn)
        PROVE  AgreesNow(c)'
    <3>1. Taken(upline, upline', c, "TERM") /\ Sent(downline, downline', c, "TCN/N")
      BY <1>1, <1>6, <2>3, HostReceived, HostSent DEF Message
    <3>2. Agrees(c, ts, "idle", upline', downline', outputQ[c])
      BY <1>4, <2>3, <3>1, HostIsThrough
    <3>3. hostState'[c] = "idle"
      BY <1>0, <1>6, <2>3 DEF HostEnds
    <3> QED BY <1>3, <3>2, <3>3 DEF AgreesNow
  <2>4. ASSUME HostReceive("TERM", cn), hs = "hostDisc", HostSends(Message("TERM", cn)), UNCHANGED hostVars
        PROVE  AgreesNow(c)'
    <3>1. Taken(upline, upline', c, "TERM") /\ Sent(downline, downline', c, "TERM")
      BY <1>1, <1>6, <2>4, HostReceived, HostSent DEF Message
    <3>2. Agrees(c, ts, "hostDisc", upline', downline', outputQ[c])
      BY <1>4, <2>4, <3>1, HostTerminates
    <3> QED BY <1>3, <2>4, <3>2 DEF AgreesNow, hostVars
  <2>5. ASSUME HostReceive("TCN/N", cn), UNCHANGED downline, hs = "hostDisc", HostEnds(cn)
        PROVE  AgreesNow(c)'
    <3>1. Taken(upline, upline', c, "TCN/N")
      BY <1>6, <2>5, HostReceived
    <3>2. Agrees(c, ts, "idle", upline', downline, outputQ[c])
      BY <1>4, <2>5, <3>1, HostForgets
    <3>3. hostState'[c] = "idle"
      BY <1>0, <1>6, <2>5 DEF HostEnds
    <3> QED BY <1>3, <2>5, <3>2, <3>3 DEF AgreesNow
  <2> QED BY <1>6, <2>1, <2>2, <2>3, <2>4, <2>5 DEF HostDisconnects
<1> QED BY <1>5, <1>6

LEMMA HostAnswersAgrees ==
    ASSUME AInv, NEW cn \in Cns, HostAcknowledged(cn) \/ HostMarks(cn), NEW c \in Cns
    PROVE  AgreesNow(c)'
<1> DEFINE ts == termState[c]
           hs == hostState[c]
<1>1. PICK kind \in {"BREAK", "BACK"} : HostReceive(kind, cn)
  BY DEF HostAcknowledged, HostMarks
<1>2. /\ UNCHANGED hostState
      /\ \/ UNCHANGED downline
         \/ hostState[cn] = "connected" /\ HostSends(Msg("MARK", cn, MarkNumber))
  BY DEF HostAcknowledged, HostMarks
<1>3. ~resetting /\ UNCHANGED <<termState, outputQ>>
  BY <1>1, HostReceived
<1>4. Agrees(c, ts, hs, upline, downline, outputQ[c])
  BY <1>3 DEF AInv, Agreed, AgreesNow
<1>5. Msg("MARK", cn, MarkNumber) \in DownlineMessages
  BY DownlineKinds
<1>6. CASE c = cn
  <2>1. Agrees(c, ts, hs, upline', downline, outputQ[c])
    BY <1>1, <1>4, <1>6, HostReceived, AnswerArrives
  <2>2. CASE UNCHANGED downline
    BY <1>2, <1>3, <2>1, <2>2 DEF AgreesNow
  <2>3. CASE hostState[cn] = "connected" /\ HostSends(Msg("MARK", cn, MarkNumber))
    <3>1. Sent(downline, downline', c, "MARK")
      BY <1>5, <1>6, <2>3, HostSent
    <3>2. Agrees(c, ts, hs, upline', downline', outputQ[c])
      BY <1>6, <2>1, <2>3, <3>1, HostSendsData DEF DownData
    <3> QED BY <1>2, <1>3, <3>2 DEF AgreesNow
  <2> QED BY <1>2, <2>2, <2>3
<1>7. CASE c # cn
  BY <1>1, <1>2, <1>3, <1>5, <1>7, HostBystander
<1> QED BY <1>6, <1>7

LEMMA HostActsAgrees ==
    ASSUME AInv, NEW cn \in Cns, HostActs(cn), NEW c \in Cns
    PROVE  AgreesNow(c)'
<1> DEFINE ts == termState[c]
           hs == hostState[c]
<1>1. /\ ~resetting /\ hostState[cn] = "connected"
      /\ UNCHANGED <<termState, outputQ, upline>>
  BY DEF HostActs, termVars, flowVars
<1>2. PICK kind, n : /\ Msg(kind, cn, n) \in DownlineMessages /\ HostSends(Msg(kind, cn, n))
                     /\ \/ /\ kind = "TCN/R" /\ hostState' = [hostState EXCEPT ![cn] = "hostDisc"]
                        \/ kind \in DownData /\ UNCHANGED hostState
  <2>1. CASE HostAsksForEnd(cn)
    <3>1. Msg("TCN/R", cn, Nobody) \in DownlineMessages
      BY DownlineKinds DEF Message
    <3> QED BY <2>1, <3>1 DEF HostAsksForEnd, Message
  <2>2. CASE HostInterrupts(cn)
    <3>1. Msg("ICMD", cn, Nobody) \in DownlineMessages
      BY DownlineKinds DEF Message
    <3> QED BY <2>2, <3>1 DEF HostInterrupts, Message, DownData, hostVars
  <2>3. CASE HostSendsBlock(cn)
    <3> DEFINE unused == (1 .. Window) \ ToSet(unacked[cn])
               m == Min(unused)
    <3>1. unused # {} /\ UNCHANGED hostState /\ HostSends(Msg("MSG", cn, m))
      BY <2>3 DEF HostSendsBlock
    <3>2. m \in 1 .. Window
      <4>1. \A k \in unused : k \in 1 .. Window /\ k \in Nat
        OBVIOUS
      <4> HIDE DEF unused
      <4> QED BY <3>1, <4>1, MinIsOne
    <3> HIDE DEF m
    <3>3. Msg("MSG", cn, m) \in DownlineMessages
      BY <3>2, DownlineKinds
    <3> QED BY <3>1, <3>3 DEF DownData
  <2> QED BY <2>1, <2>2, <2>3 DEF HostActs
<1>3. Agrees(c, ts, hs, upline, downline, outputQ[c])
  BY <1>1 DEF AInv, Agreed, AgreesNow
<1>4. CASE c = cn
  <2>1. Sent(downline, downline', c, kind)
    BY <1>2, <1>4, HostSent
  <2>2. CASE kind = "TCN/R" /\ hostState' = [hostState EXCEPT ![cn] = "hostDisc"]
    <3>1. Agrees(c, ts, "hostDisc", upline, downline', outputQ[c])
      BY <1>1, <1>3, <1>4, <2>1, <2>2, HostAsks
    <3>2. hostState'[c] = "hostDisc"
      BY <1>4, <2>2 DEF AInv, TInv, LinksOK
    <3> QED BY <1>1, <3>1, <3>2 DEF AgreesNow
  <2>3. CASE kind \in DownData /\ UNCHANGED hostState
    <3>1. Agrees(c, ts, "connected", upline, downline', outputQ[c])
      BY <1>1, <1>3, <1>4, <2>1, <2>3, HostSendsData
    <3> QED BY <1>1, <1>4, <2>3, <3>1 DEF AgreesNow
  <2> QED BY <1>2, <2>2, <2>3
<1>5. CASE c # cn
  BY <1>1, <1>2, <1>5, HostBystander
<1> QED BY <1>4, <1>5

LEMMA HostStepAgrees ==
    ASSUME AInv, Host, NEW c \in Cns
    PROVE  AgreesNow(c)'
  BY HostServesAgrees, HostConnectsAgrees, HostDisconnectsAgrees, HostAnswersAgrees,
       HostActsAgrees
     DEF Host, HostProcesses

-----------------------------------------------------------------------------
(* The request for supervision is not lost.                                *)

Asked == Has(upline, {"SUP/R"}, Nobody)

LEMMA HasInLonger ==
    ASSUME NEW T, NEW q \in Seq(T), NEW r \in Seq(T), NEW K, NEW id, Has(q, K, id)
    PROVE  Has(q \o r, K, id)
<1>1. PICK i \in DOMAIN q : q[i].kind \in K /\ q[i].id = id
  BY DEF Has
<1>2. i \in DOMAIN (q \o r) /\ (q \o r)[i] = q[i]
  OBVIOUS
<1> QED BY <1>1, <1>2 DEF Has

LEMMA HasWithOneMore ==
    ASSUME NEW T, NEW q \in Seq(T), NEW m, NEW K, NEW id, Has(q, K, id)
    PROVE  Has(Append(q, m), K, id)
<1>1. PICK i \in DOMAIN q : q[i].kind \in K /\ q[i].id = id
  BY DEF Has
<1>2. i \in DOMAIN Append(q, m) /\ Append(q, m)[i] = q[i]
  OBVIOUS
<1> QED BY <1>1, <1>2 DEF Has

LEMMA TryOutputAsked ==
    ASSUME TInv, NEW p \in Ports, NEW q \in [Cns -> Seq(OutputBuffers)],
           NEW up \in Seq(UplineMessages), TryOutput(p, q, up), Has(up, {"SUP/R"}, Nobody)
    PROVE  Asked'
<1> DEFINE tp == FindTcb(p)
<1>1. tp # Nobody => tp \in Cns
  BY FindTcbIsLive DEF TInv
<1>2. CASE tp = Nobody
  BY <1>2 DEF TryOutput, Asked
<1>3. CASE tp # Nobody
  <2>1. PICK k \in 0 .. Len(q[tp]) : upline' = up \o Acks(tp, SubSeq(q[tp], 1, k))
    BY <1>3 DEF TryOutput
  <2> HIDE DEF tp
  <2>2. SubSeq(q[tp], 1, k) \in Seq(OutputBuffers)
    <3>1. q[tp] \in Seq(OutputBuffers)
      BY <1>1, <1>3
    <3> QED BY <3>1
  <2>3. Acks(tp, SubSeq(q[tp], 1, k)) \in Seq(UplineMessages)
    BY <1>1, <1>3, <2>2, AcksAreMessages
  <2> QED BY <2>1, <2>3, HasInLonger DEF Asked
<1> QED BY <1>2, <1>3

LEMMA NpuAsked ==
    ASSUME TInv, Asked, NetThread \/ User \/ CheckStatus \/ ProcessDownline
    PROVE  Asked'
<1>0. upline \in Seq(UplineMessages) /\ outputQ \in [Cns -> Seq(OutputBuffers)]
  BY DEF TInv, QueuesOK
<1>1. CASE NetThread \/ User
  <2>1. UNCHANGED upline \/ \E m : upline' = Append(upline, m)
    BY <1>1 DEF NetThread, Accept, TakePort, NotifyNetConnect, User, Leave, lineVars
  <2> QED BY <1>0, <2>1, HasWithOneMore DEF Asked
<1>2. ASSUME NEW p \in Ports, CheckStatusOpen(p) PROVE Asked'
  <2> DEFINE tp == FindTcb(p)
             connected == tp # Nobody /\ termState[tp] = "Connected"
  <2>1. connected => tp \in Cns
    BY FindTcbIsLive DEF TInv
  <2>2. PICK q, up : /\ TryOutput(p, q, up)
                     /\ \/ q = outputQ /\ up = upline
                        \/ connected /\ q = [outputQ EXCEPT ![tp] = QueueOutput(@)] /\ up = upline
                        \/ /\ connected /\ q = [outputQ EXCEPT ![tp] = <<>>]
                           /\ up = Append(upline, Message("BREAK", tp)) \o Acks(tp, outputQ[tp])
    BY <1>2 DEF CheckStatusOpen
  <2> HIDE DEF tp
  <2>3. q \in [Cns -> Seq(OutputBuffers)]
    <3>1. connected => QueueOutput(outputQ[tp]) \in Seq(OutputBuffers)
      BY <1>0, <2>1 DEF QueueOutput, OutputBuffers
    <3>2. [outputQ EXCEPT ![tp] = <<>>] \in [Cns -> Seq(OutputBuffers)]
      BY <1>0, Emptied
    <3>3. CASE connected /\ q = [outputQ EXCEPT ![tp] = QueueOutput(@)]
      BY <1>0, <2>1, <3>1, <3>3
    <3> QED BY <1>0, <2>2, <3>2, <3>3
  <2>4. up \in Seq(UplineMessages) /\ Has(up, {"SUP/R"}, Nobody)
    <3>1. CASE connected /\ up = Append(upline, Message("BREAK", tp)) \o Acks(tp, outputQ[tp])
      <4>1. Message("BREAK", tp) \in UplineMessages /\ Acks(tp, outputQ[tp]) \in Seq(UplineMessages)
        BY <1>0, <2>1, <3>1, UplineKinds, AcksAreMessages
      <4>2. Append(upline, Message("BREAK", tp)) \in Seq(UplineMessages)
        BY <1>0, <4>1
      <4>3. Has(Append(upline, Message("BREAK", tp)), {"SUP/R"}, Nobody)
        BY <1>0, HasWithOneMore DEF Asked
      <4>4. up \in Seq(UplineMessages)
        BY <3>1, <4>1, <4>2
      <4> QED BY <3>1, <4>1, <4>2, <4>3, <4>4, HasInLonger
    <3> QED BY <1>0, <2>2, <3>1 DEF Asked
  <2> QED BY <2>2, <2>3, <2>4, TryOutputAsked
<1>3. ASSUME NEW p \in Ports, CheckStatusLeft(p) PROVE Asked'
  <2>1. \/ UNCHANGED upline
        \/ \E m : /\ upline' = Append(upline \o Acks(FindTcb(p), outputQ[FindTcb(p)]), m)
                  /\ FindTcb(p) # Nobody
    BY <1>3 DEF CheckStatusLeft, SendDiscRequest
  <2>2. CASE UNCHANGED upline
    BY <2>2 DEF Asked
  <2>3. CASE FindTcb(p) # Nobody
    <3> DEFINE tp == FindTcb(p)
    <3>1. tp \in Cns
      BY <2>3, FindTcbIsLive DEF TInv
    <3> HIDE DEF tp
    <3>2. outputQ[tp] \in Seq(OutputBuffers)
      BY <1>0, <3>1
    <3>3. Acks(tp, outputQ[tp]) \in Seq(UplineMessages)
      BY <3>1, <3>2, AcksAreMessages
    <3>4. upline \o Acks(tp, outputQ[tp]) \in Seq(UplineMessages)
      BY <1>0, <3>3
    <3>5. Has(upline \o Acks(tp, outputQ[tp]), {"SUP/R"}, Nobody)
      BY <1>0, <3>3, HasInLonger DEF Asked
    <3> QED BY <2>1, <2>2, <3>4, <3>5, HasWithOneMore DEF Asked, tp
  <2> QED BY <2>1, <2>2, <2>3
<1>4. ASSUME NEW cn \in Cns, DataBlock(cn) PROVE Asked'
  <2>1. CASE termState[cn] = "Connected"
    <3> DEFINE n == Head(downline).bsn
               q == [outputQ EXCEPT ![cn] = QueueAck(@, n)]
    <3>1. TryOutput(pcbp[cn], q, upline)
      BY <1>4, <2>1 DEF DataBlock
    <3>2. pcbp[cn] \in Ports
      BY <2>1 DEF TInv, IInv, TiesOK, HasPort
    <3>3. n \in 1 .. Window
      BY <1>4, ReceiveTypes, HeadBsn DEF DataBlock
    <3> HIDE DEF n
    <3>4. QueueAck(outputQ[cn], n) \in Seq(OutputBuffers)
      BY <1>0, <3>3, QueueAckIsQueue
    <3>5. q \in [Cns -> Seq(OutputBuffers)]
      BY <1>0, <3>4
    <3> HIDE DEF q
    <3> QED BY <1>0, <3>1, <3>2, <3>5, TryOutputAsked DEF Asked
  <2>2. CASE termState[cn] # "Connected"
    <3>1. \E m : upline' = Append(upline, m)
      BY <1>4, <2>2 DEF DataBlock, Reply
    <3> QED BY <1>0, <3>1, HasWithOneMore DEF Asked
  <2> QED BY <2>1, <2>2
<1>5. ASSUME NEW cn \in Cns, Interrupt(cn) PROVE Asked'
  <2>1. upline' = upline \o Acks(cn, outputQ[cn])
    BY <1>5 DEF Interrupt
  <2>2. outputQ[cn] \in Seq(OutputBuffers)
    BY <1>0
  <2>3. Acks(cn, outputQ[cn]) \in Seq(UplineMessages)
    BY <2>2, AcksAreMessages
  <2> QED BY <1>0, <2>1, <2>3, HasInLonger DEF Asked
<1>6. CASE SupervisionReply \/ (\E p \in Ports : ConfigurationReply(p))
  <2>1. UNCHANGED upline \/ \E m : upline' = Append(upline, m)
    BY <1>6 DEF SupervisionReply, ConfigurationReply, Reply
  <2> QED BY <1>0, <2>1, HasWithOneMore DEF Asked
<1>7. ASSUME NEW cn \in Cns,
             ConnectionReply(cn) \/ DisconnectRequest(cn) \/ DisconnectReply(cn) \/ TermBlock(cn) \/ Mark(cn)
      PROVE  Asked'
  <2>1. UNCHANGED upline \/ \E m : upline' = Append(upline, m)
    BY <1>7 DEF ConnectionReply, DisconnectRequest, DisconnectReply, TermBlock, Mark, Reply
  <2> QED BY <1>0, <2>1, HasWithOneMore DEF Asked
<1> QED BY <1>1, <1>2, <1>3, <1>4, <1>5, <1>6, <1>7 DEF CheckStatus, ProcessDownline

LEMMA SvmUnchanged ==
    ASSUME NetThread \/ User \/ CheckStatus \/ ProcessDownline, ~SupervisionReply
    PROVE  UNCHANGED <<svmState, resetting>>
<1>1. CASE NetThread \/ User \/ CheckStatus
  BY <1>1 DEF NetThread, Accept, TakePort, NotifyNetConnect, User, Leave, CheckStatus,
       CheckStatusOpen,
              CheckStatusLeft, resetVars
<1>2. CASE ProcessDownline
  BY <1>2 DEF ProcessDownline, ConfigurationReply, ConnectionReply, DisconnectRequest,
       DisconnectReply,
              TermBlock, DataBlock, Mark, Interrupt, EndTerminal, Receive, resetVars
<1> QED BY <1>1, <1>2

LEMMA SupervisedKept ==
    ASSUME AInv, Next
    PROVE  Supervised'
<1>1. CASE SupervisionReply
  BY <1>1 DEF SupervisionReply, Supervised
<1>2. CASE (NetThread \/ User \/ CheckStatus \/ ProcessDownline) /\ ~SupervisionReply
  <2>1. UNCHANGED <<svmState, resetting>>
    BY <1>2, SvmUnchanged
  <2>2. Asked => Asked'
    BY <1>2, NpuAsked DEF AInv
  <2>3. Has(downline, {"SUP/N"}, Nobody) => Has(downline, {"SUP/N"}, Nobody)'
    <3>1. CASE NetThread \/ User \/ CheckStatus
      BY <3>1 DEF NetThread, Accept, TakePort, NotifyNetConnect, User, Leave,
           CheckStatus, CheckStatusOpen,
                  CheckStatusLeft, lineVars
    <3>2. CASE ProcessDownline
      <4>1. \E kind, id : id # Nobody /\ Receive(kind, id)
        <5>1. \A id \in Ports \cup Cns : id # Nobody
          OBVIOUS
        <5> QED BY <1>2, <3>2, <5>1 DEF ProcessDownline, ConfigurationReply,
             ConnectionReply, DisconnectRequest,
                DisconnectReply, TermBlock, DataBlock, Mark, Interrupt
      <4>2. SameFor(downline, downline', Nobody)
        BY <4>1, Received
      <4> QED BY <4>2 DEF SameFor
    <3> QED BY <1>2, <3>1, <3>2
  <2> QED BY <2>1, <2>2, <2>3 DEF AInv, Supervised, Asked
<1>3. CASE NotifyHostRegulation
  <2>1. upline' = Append(upline, Msg("SUP/R", Nobody, Nobody)) /\ Msg("SUP/R", Nobody, Nobody) \in UplineMessages
    BY <1>3 DEF NotifyHostRegulation, Message, Msg, UplineMessages
  <2>2. Sent(upline, upline', Nobody, "SUP/R")
    BY <2>1, Replied
  <2> QED BY <2>2 DEF Sent, Supervised
<1>4. CASE HostSupervises
  <2>1. HostSends(Msg("SUP/N", Nobody, Nobody)) /\ Msg("SUP/N", Nobody, Nobody) \in DownlineMessages
    BY <1>4 DEF HostSupervises, Message, Msg, DownlineMessages
  <2>2. Sent(downline, downline', Nobody, "SUP/N")
    BY <2>1, HostSent
  <2> QED BY <2>2 DEF Sent, Supervised
<1>5. CASE Host /\ ~NotifyHostRegulation /\ ~HostSupervises
  <2>0. downline \in Seq(DownlineMessages)
    BY DEF AInv, TInv, QueuesOK
  <2>1. UNCHANGED <<svmState, resetting>>
    BY <1>5 DEF Host, HostProcesses, HostConfigures, HostConnects, HostDisconnects,
         HostAcknowledged, HostMarks,
                HostReceive, HostActs, resetVars
  <2>2. UNCHANGED downline \/ \E m : downline' = Append(downline, m)
    BY <1>5 DEF Host, HostProcesses, HostConfigures, HostConnects, HostDisconnects,
         HostAcknowledged, HostMarks,
                HostActs, HostAsksForEnd, HostSendsBlock, HostInterrupts, HostSends, hostVars
  <2>3. Has(downline, {"SUP/N"}, Nobody) => Has(downline, {"SUP/N"}, Nobody)'
    BY <2>0, <2>2, HasWithOneMore
  <2>4. UNCHANGED upline \/ \E kind, id : id # Nobody /\ HostReceive(kind, id)
    <3>1. \A id \in Ports \cup Cns : id # Nobody
      OBVIOUS
    <3> QED BY <1>5, <3>1 DEF Host, HostProcesses, HostConfigures, HostConnects,
         HostDisconnects,
                HostAcknowledged, HostMarks, HostActs
  <2>5. SameFor(upline, upline', Nobody)
    BY <2>4, HostReceived, SameForItself
  <2>6. Asked => Asked'
    BY <2>5 DEF SameFor, Asked
  <2> QED BY <2>1, <2>3, <2>6 DEF AInv, Supervised, Asked
<1>6. CASE Reset
  BY <1>6 DEF Reset, NetReset, ResetRest, Supervised
<1> QED BY <1>1, <1>2, <1>3, <1>4, <1>5, <1>6 DEF Next

-----------------------------------------------------------------------------
(* The theorems.                                                           *)

LEMMA EmptyAgrees ==
    ASSUME NEW cn
    PROVE  Agrees(cn, "Idle", "idle", <<>>, <<>>, <<>>)
<1>1. \A K : ~Has(<<>>, K, cn)
  BY DEF Has
<1>2. /\ \A K : Once(<<>>, K, cn)
      /\ \A F, L : NoneBehind(<<>>, F, L, cn)
  BY DEF Once, NoneBehind
<1>3. \A C : Kinds(<<>>, C, cn) = {}
  BY <1>1 DEF Kinds
<1>4. Ordered(cn, "idle", <<>>, <<>>)
  BY <1>2 DEF Ordered
<1>5. DataIsExpected(cn, "Idle", "idle", <<>>, <<>>, <<>>)
  BY <1>1 DEF DataIsExpected
<1>6. <<"Idle", "idle", {}, {}>> \in Phases
  BY DEF Phases
<1> QED BY <1>3, <1>4, <1>5, <1>6 DEF Agrees

LEMMA InitAInv == Init => AInv
<1> SUFFICES ASSUME Init PROVE Agreed /\ Supervised
  BY InitTInv DEF AInv
<1>1. ASSUME NEW c \in Cns PROVE AgreesNow(c)
  <2>1. /\ termState[c] = "Idle" /\ hostState[c] = "idle" /\ upline = <<>> /\ downline = <<>>
        /\ outputQ[c] = <<>>
    BY DEF Init
  <2> QED BY <2>1, EmptyAgrees DEF AgreesNow
<1>2. svmState # "StWaitSupervision"
  BY DEF Init
<1> QED BY <1>1, <1>2 DEF Agreed, Supervised

LEMMA NextAInv == AInv /\ [Next]_vars => AInv'
<1> SUFFICES ASSUME AInv, [Next]_vars PROVE Agreed' /\ Supervised'
  BY NextTInv DEF AInv
<1>1. CASE UNCHANGED vars
  BY <1>1 DEF AInv, Agreed, AgreesNow, Supervised, vars, termVars, flowVars, lineVars,
       resetVars, hostVars
<1>2. CASE Next
  <2>1. Supervised'
    BY <1>2, SupervisedKept
  <2> SUFFICES ASSUME ~resetting', NEW c \in Cns PROVE AgreesNow(c)'
    BY <2>1 DEF Agreed
  <2>2. CASE (NetThread \/ User) /\ ~resetting
    BY <2>2, NetThreadAgrees
  <2>3. CASE CheckStatus
    BY <2>3, CheckStatusOpenAgrees, CheckStatusLeftAgrees DEF CheckStatus
  <2>4. CASE ProcessDownline
    BY <2>4, DownlineAgrees
  <2>5. CASE Host
    BY <2>5, HostStepAgrees
  <2>6. CASE ResetRest
    <3>1. /\ termState'[c] = "Idle" /\ hostState'[c] = "idle" /\ upline' = <<>> /\ downline' = <<>>
          /\ outputQ'[c] = <<>>
      BY <2>6 DEF ResetRest
    <3> QED BY <3>1, EmptyAgrees DEF AgreesNow
  <2>7. ~NetReset
    BY DEF NetReset
  <2>8. NetThread \/ User => UNCHANGED resetting
    BY DEF NetThread, Accept, TakePort, NotifyNetConnect, User, Leave, resetVars
  <2> QED BY <1>2, <2>2, <2>3, <2>4, <2>5, <2>6, <2>7, <2>8 DEF Next, Reset
<1> QED BY <1>1, <1>2

LEMMA PhaseOfQuiet ==
    ASSUME NEW ts, NEW hs, <<ts, hs, {}, {}>> \in Phases
    PROVE  <<ts, hs>> \in {<<"Idle", "idle">>, <<"Connected", "connected">>}
  BY DEF Phases

LEMMA AgreedIsQuiet == AInv => QuietMeansAgreed
<1> SUFFICES ASSUME AInv, upline = <<>>, downline = <<>>, ~resetting
             PROVE  /\ svmState # "StWaitSupervision"
                    /\ \A cn \in Cns : <<termState[cn], hostState[cn]>> \in
                                           {<<"Idle", "idle">>, <<"Connected", "connected">>}
  BY DEF QuietMeansAgreed
<1>1. \A K, id : ~Has(<<>>, K, id)
  BY DEF Has
<1>2. svmState # "StWaitSupervision"
  BY <1>1 DEF AInv, Supervised
<1>3. ASSUME NEW cn \in Cns
      PROVE  <<termState[cn], hostState[cn]>> \in {<<"Idle", "idle">>, <<"Connected", "connected">>}
  <2>1. Kinds(upline, UpControl, cn) = {} /\ Kinds(downline, DownControl, cn) = {}
    BY <1>1 DEF Kinds
  <2>2. <<termState[cn], hostState[cn], {}, {}>> \in Phases
    BY <2>1 DEF AInv, Agreed, AgreesNow, Agrees
  <2> QED BY <2>2, PhaseOfQuiet
<1> QED BY <1>2, <1>3

\* When no message is under way, host and NPU agree on every connection (the replies
\* of npu_svm.c to requests that cross), and the NPU does not wait to be supervised.
THEOREM QuietNpuAgrees == Spec => []QuietMeansAgreed
<1>1. Spec => []AInv
  BY InitAInv, NextAInv, PTL DEF Spec
<1> QED BY <1>1, AgreedIsQuiet, PTL

LEMMA PhaseOfHead ==
    ASSUME NEW ts, NEW hs, NEW U, NEW D, <<ts, hs, U, D>> \in Phases
    PROVE  /\ "ICN/R" \in U /\ "TCN/N" \notin U => hs = "idle"
           /\ "TCN/R" \in U => hs \in {"connected", "hostDisc"}
           /\ "TCN/N" \in U => hs = "hostDisc"
           /\ "TERM" \in U => hs \in {"hostDisc", "npuDisc"}
           /\ "ICN/N" \in D \/ "ICN/E" \in D => ts = "RequestConnection"
           /\ "TCN/R" \in D /\ "ICN/N" \notin D => ts \in {"Connected", "NpuRequestDisconnect"}
           /\ "TCN/N" \in D => ts = "NpuRequestDisconnect"
           /\ "TERM" \in D => ts \in {"HostRequestDisconnect", "NpuRequestDisconnect"}
  BY DEF Phases

LEMMA AgreedIsExpected == AInv => NoUnexpectedMessage
<1> SUFFICES ASSUME AInv, ~resetting PROVE NoUnexpectedMessage
  BY DEF NoUnexpectedMessage
<1> DEFINE others == {"SUP/R", "SUP/N", "CNF/R", "CNF/N", "CNF/E"}
<1>1. ASSUME upline # <<>>, Head(upline).kind \notin others
      PROVE  Head(upline).kind \in HostExpects[hostState[Head(upline).id]]
  <2> DEFINE cn == Head(upline).id
             kind == Head(upline).kind
             hs == hostState[cn]
             ts == termState[cn]
             U == Kinds(upline, UpControl, cn)
             D == Kinds(downline, DownControl, cn)
  <2>0. upline \in Seq(UplineMessages)
    BY DEF AInv, TInv, QueuesOK
  <2>1. Head(upline) \in UplineMessages
    BY <1>1, <2>0
  <2>2. cn \in Cns /\ kind \in UpControl \cup {"BREAK", "BACK"}
    BY <1>1, <2>1 DEF UplineMessages, UpControl
  <2>3. Taken(upline, Tail(upline), cn, kind)
    BY <1>1, <2>0, TakesFrom
  <2>4. Agrees(cn, ts, hs, upline, downline, outputQ[cn])
    BY <2>2 DEF AInv, Agreed, AgreesNow
  <2>5. hs \in {"idle", "connected", "hostDisc", "npuDisc"}
    BY <2>2 DEF AInv, TInv, LinksOK
  <2> HIDE DEF cn, kind
  <2>6. <<ts, hs, U, D>> \in Phases /\ \A k \in UpControl : Has(upline, {k}, cn) <=> k \in U
    BY <2>4 DEF Agrees, Kinds
  <2>7. kind \in UpControl => kind \in U
    BY <2>3, <2>6 DEF Taken
  <2>8. kind = "ICN/R" => "TCN/N" \notin U
    BY <2>3, <2>4, <2>6 DEF Taken, Agrees, Ordered, UpControl
  <2>9. /\ kind = "BREAK" => hs \in {"connected", "hostDisc"}
        /\ kind = "BACK" => hs # "idle"
    BY <2>3, <2>4 DEF Taken, Agrees, DataIsExpected
  <2> HIDE DEF hs, ts, U, D
  <2>10. /\ kind = "ICN/R" => hs = "idle"
         /\ kind = "TCN/R" => hs \in {"connected", "hostDisc"}
         /\ kind = "TCN/N" => hs = "hostDisc"
         /\ kind = "TERM" => hs \in {"hostDisc", "npuDisc"}
    BY <2>6, <2>7, <2>8, PhaseOfHead DEF UpControl
  <2>11. kind \in HostExpects[hs]
    BY <2>2, <2>5, <2>9, <2>10 DEF HostExpects, UpControl
  <2> QED BY <2>11 DEF hs, cn, kind
<1>2. ASSUME downline # <<>>, Head(downline).kind \notin others
      PROVE  Head(downline).kind \in NpuExpects[termState[Head(downline).id]]
  <2> DEFINE cn == Head(downline).id
             kind == Head(downline).kind
             hs == hostState[cn]
             ts == termState[cn]
             U == Kinds(upline, UpControl, cn)
             D == Kinds(downline, DownControl, cn)
  <2>0. downline \in Seq(DownlineMessages)
    BY DEF AInv, TInv, QueuesOK
  <2>1. Head(downline) \in DownlineMessages
    BY <1>2, <2>0
  <2>2. cn \in Cns /\ kind \in DownControl \cup DownData
    BY <1>2, <2>1 DEF DownlineMessages, DownControl, DownData
  <2>3. Taken(downline, Tail(downline), cn, kind)
    BY <1>2, <2>0, TakesFrom
  <2>4. Agrees(cn, ts, hs, upline, downline, outputQ[cn])
    BY <2>2 DEF AInv, Agreed, AgreesNow
  <2>5. ts \in TermStates
    BY <2>2 DEF AInv, TInv, IInv, TiesOK
  <2> HIDE DEF cn, kind
  <2>6. <<ts, hs, U, D>> \in Phases /\ \A k \in DownControl : Has(downline, {k}, cn) <=> k \in D
    BY <2>4 DEF Agrees, Kinds
  <2>7. kind \in DownControl => kind \in D
    BY <2>3, <2>6 DEF Taken
  <2>8. kind = "TCN/R" => "ICN/N" \notin D
    BY <2>3, <2>4, <2>6 DEF Taken, Agrees, Ordered, DownControl
  <2>9. kind \in DownData => ts \in {"Connected", "NpuRequestDisconnect"}
    BY <2>3, <2>4, DataArrives
  <2> HIDE DEF hs, ts, U, D
  <2>10. /\ kind \in {"ICN/N", "ICN/E"} => ts = "RequestConnection"
         /\ kind = "TCN/R" => ts \in {"Connected", "NpuRequestDisconnect"}
         /\ kind = "TCN/N" => ts = "NpuRequestDisconnect"
         /\ kind = "TERM" => ts \in {"HostRequestDisconnect", "NpuRequestDisconnect"}
    BY <2>6, <2>7, <2>8, PhaseOfHead DEF DownControl
  <2>11. kind \in NpuExpects[ts]
    BY <2>2, <2>5, <2>9, <2>10 DEF NpuExpects, DownControl, DownData
  <2> QED BY <2>11 DEF ts, cn, kind
<1> QED BY <1>1, <1>2 DEF NoUnexpectedMessage

\* No message about a connection meets an end that does not expect it (npu_svm.c logs
\* those as unexpected): a connection number is never used anew too early.
THEOREM MessagesAreExpected == Spec => []NoUnexpectedMessage
<1>1. Spec => []AInv
  BY InitAInv, NextAInv, PTL DEF Spec
<1> QED BY <1>1, AgreedIsExpected, PTL

-----------------------------------------------------------------------------
(* A port and its terminal.  The configuration of a port is a token: it is *)
(* with the network thread, on its way up, or on its way down.             *)

Asking == {"CNF/R"}
Answers == {"CNF/N", "CNF/E"}

Opened(p) == netPc = "opened" /\ netPort = p
Expecting(p) == Opened(p) \/ ConfigurationPending(p)
On(cn, p) == termState[cn] # "Idle" /\ pcbp[cn] = p

Tied(p) ==
    /\ Once(upline, Asking, p) /\ Once(downline, Answers, p)
    /\ ~(Has(upline, Asking, p) /\ Has(downline, Answers, p))
    /\ ~(Opened(p) /\ ConfigurationPending(p))
    /\ \A c, d \in Cns : On(c, p) /\ On(d, p) => c = d
    /\ \A c \in Cns : On(c, p) => connFd[p] # "none" /\ ~Expecting(p)
    /\ connFd[p] # "none" => Expecting(p) \/ \E c \in Cns : On(c, p)

AllTied == resetting \/ \A p \in Ports \ unsettled : Tied(p)

\* What is opened while a reset is under way is unsettled.
ClosedInReset == resetting => \A p \in Ports \ unsettled : connFd[p] = "none"

CInv == AInv /\ AllTied /\ ClosedInReset

LEMMA Pending ==
    ASSUME NEW p
    PROVE  ConfigurationPending(p) <=> Has(upline, Asking, p) \/ Has(downline, Answers, p)
  BY DEF ConfigurationPending, Asking, Answers

\* Queue r has the configuration messages of queue q.
Alike(q, r, id) ==
    \A K \in {Asking, Answers} : /\ Has(r, K, id) <=> Has(q, K, id)
                                 /\ Once(q, K, id) => Once(r, K, id)

LEMMA AlikeItself ==
    ASSUME NEW q, NEW id
    PROVE  Alike(q, q, id)
  BY DEF Alike

LEMMA AlikeThen ==
    ASSUME NEW q, NEW r, NEW s, NEW id, Alike(q, r, id), Alike(r, s, id)
    PROVE  Alike(q, s, id)
  BY DEF Alike

LEMMA OthersAreAlike ==
    ASSUME NEW q, NEW r, NEW id, NEW kind, kind \notin Asking \cup Answers,
           SameFor(q, r, id) \/ Sent(q, r, id, kind) \/ Taken(q, r, id, kind)
    PROVE  Alike(q, r, id)
<1>1. kind \notin Asking /\ kind \notin Answers
  OBVIOUS
<1>2. CASE SameFor(q, r, id)
  BY <1>2 DEF SameFor, Alike
<1>3. CASE Sent(q, r, id, kind)
  BY <1>1, <1>3 DEF Sent, Alike
<1>4. CASE Taken(q, r, id, kind)
  BY <1>1, <1>4 DEF Taken, Alike
<1> QED BY <1>2, <1>3, <1>4

LEMMA SameIsAlike ==
    ASSUME NEW q, NEW r, NEW id, SameFor(q, r, id)
    PROVE  Alike(q, r, id)
  BY DEF SameFor, Alike

LEMMA AcksAreAlike ==
    ASSUME NEW q \in Seq(UplineMessages), NEW cn \in Cns, NEW buffers \in Seq(OutputBuffers),
           NEW id
    PROVE  Alike(q, q \o Acks(cn, buffers), id)
<1>1. Acks(cn, buffers) \in Seq(UplineMessages)
  BY AcksAreMessages
<1>2. \/ SameFor(q, q \o Acks(cn, buffers), id)
      \/ Sent(q, q \o Acks(cn, buffers), id, "BACK")
  BY <1>1, AcksAreSent
<1>3. "BACK" \notin Asking \cup Answers
  BY DEF Asking, Answers
<1> DEFINE r == q \o Acks(cn, buffers)
<1> HIDE DEF r
<1> QED BY <1>2, <1>3, OthersAreAlike, SameIsAlike DEF r

LEMMA AppendedIsAlike ==
    ASSUME NEW T, NEW q \in Seq(T), NEW kind, NEW cn, NEW n, Msg(kind, cn, n) \in T,
           kind \notin Asking \cup Answers, NEW id
    PROVE  Alike(q, Append(q, Msg(kind, cn, n)), id)
<1>1. \/ Sent(q, Append(q, Msg(kind, cn, n)), id, kind)
      \/ SameFor(q, Append(q, Msg(kind, cn, n)), id)
  BY SendsTo
<1> QED BY <1>1, OthersAreAlike

\* A port that a step leaves as it is.
LEMMA StaysTied ==
    ASSUME NEW p, Tied(p), Alike(upline, upline', p), Alike(downline, downline', p),
           connFd'[p] = "none" <=> connFd[p] = "none",
           \A c \in Cns : On(c, p)' <=> On(c, p),
           Opened(p)' <=> Opened(p)
    PROVE  Tied(p)'
<1>1. /\ Has(upline, Asking, p)' <=> Has(upline, Asking, p)
      /\ Has(downline, Answers, p)' <=> Has(downline, Answers, p)
      /\ Once(upline, Asking, p) => Once(upline, Asking, p)'
      /\ Once(downline, Answers, p) => Once(downline, Answers, p)'
  BY DEF Alike
<1>2. ConfigurationPending(p)' <=> ConfigurationPending(p)
  BY <1>1 DEF ConfigurationPending, Asking, Answers
<1>3. Expecting(p)' <=> Expecting(p)
  BY <1>2 DEF Expecting
<1>4. /\ \A c, d \in Cns : On(c, p)' /\ On(d, p)' => c = d
      /\ \A c \in Cns : On(c, p)' => connFd'[p] # "none" /\ ~Expecting(p)'
      /\ connFd'[p] # "none" => Expecting(p)' \/ \E c \in Cns : On(c, p)'
  BY <1>3 DEF Tied
<1>5. ~(Opened(p)' /\ ConfigurationPending(p)')
  BY <1>2 DEF Tied
<1> QED BY <1>1, <1>4, <1>5 DEF Tied

-----------------------------------------------------------------------------
(* The network thread and the users.                                       *)

LEMMA TakePortTies ==
    ASSUME CInv, TakePort, ~resetting, NEW p \in Ports \ unsettled'
    PROVE  Tied(p)'
<1> DEFINE free == {q \in Ports : connFd[q] = "none"}
           port == Min(free)
<1>1. /\ netPc = "checked" /\ UNCHANGED <<upline, downline, termState, pcbp>>
  BY DEF TakePort, termVars, lineVars
<1>2. /\ \A c \in Cns : On(c, p)' <=> On(c, p)
      /\ Alike(upline, upline', p) /\ Alike(downline, downline', p)
  BY <1>1, AlikeItself DEF On
<1>3. CASE free = {}
  <2>1. UNCHANGED <<connFd, unsettled>> /\ netPc' = "accepting"
    BY <1>3 DEF TakePort
  <2>2. Tied(p)
    BY <2>1 DEF CInv, AllTied
  <2>3. ~Opened(p) /\ ~Opened(p)'
    BY <1>1, <2>1 DEF Opened
  <2> QED BY <1>2, <2>1, <2>2, <2>3, StaysTied
<1>4. CASE free # {}
  <2>1. port \in free
    BY <1>4, MinIsOne
  <2>2. port \in Ports /\ connFd[port] = "none"
    BY <2>1
  <2>3. /\ netPc' = "opened" /\ netPort' = port /\ connFd' = [connFd EXCEPT ![port] = "open"]
        /\ unsettled' = IF ConfigurationPending(port) \/ resetting
                        THEN unsettled \cup {port} ELSE unsettled
    BY <1>4 DEF TakePort
  <2> HIDE DEF port
  <2>4. Tied(p)
    BY <2>3 DEF CInv, AllTied
  <2>5. connFd \in [Ports -> {"none", "open", "left"}]
    BY DEF CInv, AInv, TInv, LinksOK
  <2>6. CASE p # port
    <3>1. ~Opened(p) /\ ~Opened(p)' /\ connFd'[p] = connFd[p]
      BY <1>1, <2>3, <2>5, <2>6 DEF Opened
    <3> QED BY <1>2, <2>4, <3>1, StaysTied
  <2>7. CASE p = port
    <3>1. ~ConfigurationPending(p)
      BY <2>3, <2>7
    <3>2. ~ConfigurationPending(p)'
      BY <1>1, <3>1 DEF ConfigurationPending
    <3>3. Opened(p)' /\ connFd'[p] # "none"
      BY <2>2, <2>3, <2>5, <2>7 DEF Opened
    <3>4. \A c \in Cns : ~On(c, p)'
      BY <1>2, <2>2, <2>4, <2>7 DEF Tied
    <3>5. Once(upline, Asking, p)' /\ Once(downline, Answers, p)'
      BY <1>1, <2>4 DEF Tied, Once
    <3>6. ~Has(upline, Asking, p)'
      BY <3>2 DEF ConfigurationPending, Asking
    <3> QED BY <3>2, <3>3, <3>4, <3>5, <3>6 DEF Tied, Expecting
  <2> QED BY <2>6, <2>7
<1> QED BY <1>3, <1>4

LEMMA NotifyTies ==
    ASSUME CInv, NotifyNetConnect, ~resetting, NEW p \in Ports \ unsettled'
    PROVE  Tied(p)'
<1>1. /\ netPc = "opened" /\ netPc' = "accepting"
      /\ UNCHANGED <<connFd, downline, termState, pcbp, unsettled>>
      /\ upline' = Append(upline, Msg("CNF/R", netPort, Nobody))
  BY DEF NotifyNetConnect, Message
<1>2. Tied(p)
  BY <1>1 DEF CInv, AllTied
<1>3. netPort \in Ports /\ upline \in Seq(UplineMessages)
  BY <1>1 DEF CInv, AInv, TInv, LinksOK, QueuesOK
<1>4. Msg("CNF/R", netPort, Nobody) \in UplineMessages
  BY <1>3, UplineKinds DEF Message
<1>5. IF p = netPort THEN Sent(upline, upline', p, "CNF/R") ELSE SameFor(upline, upline', p)
  BY <1>1, <1>3, <1>4, SendsTo
<1>6. \A c \in Cns : On(c, p)' <=> On(c, p)
  BY <1>1 DEF On
<1>7. ~Opened(p)'
  BY <1>1 DEF Opened
<1>8. CASE p # netPort
  <2>1. ~Opened(p)
    BY <1>8 DEF Opened
  <2>2. Alike(upline, upline', p)
    BY <1>5, <1>8, SameIsAlike
  <2>3. Alike(downline, downline', p) /\ connFd'[p] = connFd[p]
    BY <1>1, AlikeItself
  <2> QED BY <1>2, <1>6, <1>7, <2>1, <2>2, <2>3, StaysTied
<1>9. CASE p = netPort
  <2>1. Opened(p)
    BY <1>1, <1>9 DEF Opened
  <2>2. ~Has(upline, Asking, p) /\ ~Has(downline, Answers, p)
    BY <1>2, <2>1, Pending DEF Tied
  <2>3. Has(upline, Asking, p)' /\ Once(upline, Asking, p)'
    BY <1>2, <1>5, <1>9, <2>2 DEF Tied, Sent, Asking
  <2>4. ~Has(downline, Answers, p)' /\ Once(downline, Answers, p)'
    BY <1>1, <1>2, <2>2 DEF Tied, Has, Once
  <2>5. Expecting(p) /\ Expecting(p)'
    BY <2>1, <2>3 DEF Expecting, ConfigurationPending, Asking
  <2>6. \A c \in Cns : ~On(c, p)'
    BY <1>2, <1>6, <2>5 DEF Tied
  <2> QED BY <1>7, <2>3, <2>4, <2>5, <2>6 DEF Tied
<1> QED BY <1>8, <1>9

LEMMA NetThreadTies ==
    ASSUME CInv, NetThread \/ User, ~resetting, NEW p \in Ports \ unsettled'
    PROVE  Tied(p)'
<1>1. CASE Accept \/ User
  <2>1. /\ UNCHANGED <<upline, downline, termState, pcbp, unsettled>>
        /\ Opened(p)' <=> Opened(p)
    BY <1>1 DEF Accept, User, Leave, termVars, lineVars, netVars, Opened
  <2>2. connFd'[p] = "none" <=> connFd[p] = "none"
    BY <1>1 DEF Accept, User, Leave, portVars, CInv, AInv, TInv, LinksOK
  <2>3. \A c \in Cns : On(c, p)' <=> On(c, p)
    BY <2>1 DEF On
  <2>4. Tied(p)
    BY <2>1 DEF CInv, AllTied
  <2> QED BY <2>1, <2>2, <2>3, <2>4, StaysTied, AlikeItself
<1> QED BY <1>1, TakePortTies, NotifyTies DEF NetThread

-----------------------------------------------------------------------------
(* The poll of the ports.                                                  *)

LEMMA TryOutputAlike ==
    ASSUME TInv, NEW port \in Ports, NEW q \in [Cns -> Seq(OutputBuffers)],
           NEW up \in Seq(UplineMessages), TryOutput(port, q, up), NEW p
    PROVE  Alike(up, upline', p)
<1> DEFINE tp == FindTcb(port)
<1>1. tp # Nobody => tp \in Cns
  BY FindTcbIsLive DEF TInv
<1>2. CASE tp = Nobody
  BY <1>2, AlikeItself DEF TryOutput
<1>3. CASE tp # Nobody
  <2>1. PICK k \in 0 .. Len(q[tp]) : upline' = up \o Acks(tp, SubSeq(q[tp], 1, k))
    BY <1>3 DEF TryOutput
  <2> HIDE DEF tp
  <2>2. SubSeq(q[tp], 1, k) \in Seq(OutputBuffers)
    <3>1. q[tp] \in Seq(OutputBuffers)
      BY <1>1, <1>3
    <3> QED BY <3>1
  <2> QED BY <1>1, <1>3, <2>1, <2>2, AcksAreAlike
<1> QED BY <1>2, <1>3

LEMMA CheckStatusOpenTies ==
    ASSUME CInv, NEW port \in Ports, CheckStatusOpen(port), NEW p \in Ports \ unsettled'
    PROVE  Tied(p)'
<1> DEFINE tp == FindTcb(port)
           connected == tp # Nobody /\ termState[tp] = "Connected"
<1>0. TInv
  BY DEF CInv, AInv
<1>1. /\ ~resetting /\ UNCHANGED <<connFd, termState, pcbp, netPc, netPort, unsettled, downline>>
  BY DEF CheckStatusOpen, netVars
<1>2. connected => tp \in Cns
  BY <1>0, FindTcbIsLive DEF TInv
<1>3. PICK q, up : /\ TryOutput(port, q, up)
                   /\ \/ q = outputQ /\ up = upline
                      \/ /\ connected /\ q = [outputQ EXCEPT ![tp] = QueueOutput(@)]
                         /\ up = upline
                      \/ /\ connected /\ q = [outputQ EXCEPT ![tp] = <<>>]
                         /\ up = Append(upline, Message("BREAK", tp)) \o Acks(tp, outputQ[tp])
  BY DEF CheckStatusOpen
<1> HIDE DEF tp
<1>4. outputQ \in [Cns -> Seq(OutputBuffers)] /\ upline \in Seq(UplineMessages)
  BY <1>0 DEF TInv, QueuesOK
<1>5. q \in [Cns -> Seq(OutputBuffers)]
  <2>1. connected => QueueOutput(outputQ[tp]) \in Seq(OutputBuffers)
    BY <1>2, <1>4 DEF QueueOutput, OutputBuffers
  <2>2. [outputQ EXCEPT ![tp] = <<>>] \in [Cns -> Seq(OutputBuffers)]
    BY <1>4, Emptied
  <2>3. CASE connected /\ q = [outputQ EXCEPT ![tp] = QueueOutput(@)]
    BY <1>2, <1>4, <2>1, <2>3
  <2> QED BY <1>3, <1>4, <2>2, <2>3
<1>6. up \in Seq(UplineMessages) /\ Alike(upline, up, p)
  <2>1. CASE up = upline
    BY <1>4, <2>1, AlikeItself
  <2>2. CASE connected /\ up = Append(upline, Message("BREAK", tp)) \o Acks(tp, outputQ[tp])
    <3> DEFINE mid == Append(upline, Message("BREAK", tp))
    <3>1. Message("BREAK", tp) \in UplineMessages
      BY <1>2, <2>2, UplineKinds
    <3>2. outputQ[tp] \in Seq(OutputBuffers)
      BY <1>2, <1>4, <2>2
    <3>3. Acks(tp, outputQ[tp]) \in Seq(UplineMessages) /\ mid \in Seq(UplineMessages)
      BY <1>2, <1>4, <2>2, <3>1, <3>2, AcksAreMessages
    <3>4. Alike(upline, mid, p)
      BY <1>4, <3>1, AppendedIsAlike DEF Asking, Answers, Message
    <3> HIDE DEF mid
    <3>5. Alike(mid, mid \o Acks(tp, outputQ[tp]), p)
      BY <1>2, <2>2, <3>2, <3>3, AcksAreAlike
    <3>6. up = mid \o Acks(tp, outputQ[tp])
      BY <2>2 DEF mid
    <3> QED BY <3>3, <3>4, <3>5, <3>6, AlikeThen
  <2> QED BY <1>3, <2>1, <2>2
<1>7. Alike(upline, upline', p)
  BY <1>0, <1>3, <1>5, <1>6, TryOutputAlike, AlikeThen
<1>8. Tied(p)
  BY <1>1 DEF CInv, AllTied
<1>9. (\A c \in Cns : On(c, p)' <=> On(c, p)) /\ (Opened(p)' <=> Opened(p))
  BY <1>1 DEF On, Opened
<1> QED BY <1>1, <1>7, <1>8, <1>9, StaysTied, AlikeItself

LEMMA CheckStatusLeftTies ==
    ASSUME CInv, NEW port \in Ports, CheckStatusLeft(port), NEW p \in Ports \ unsettled'
    PROVE  Tied(p)'
<1> DEFINE tp == FindTcb(port)
<1>0. TInv
  BY DEF CInv, AInv
<1>1. ~resetting /\ UNCHANGED <<pcbp, netPc, netPort, unsettled, downline>>
  BY DEF CheckStatusLeft, netVars
<1>2. Tied(p)
  BY <1>1 DEF CInv, AllTied
<1>3. Opened(p)' <=> Opened(p)
  BY <1>1 DEF Opened
<1>4. /\ termState \in [Cns -> TermStates] /\ outputQ \in [Cns -> Seq(OutputBuffers)]
      /\ upline \in Seq(UplineMessages) /\ connFd \in [Ports -> {"none", "open", "left"}]
  BY <1>0 DEF TInv, IInv, TiesOK, LinksOK, QueuesOK
<1>5. CASE tp # Nobody
  <2>1. tp \in Cns
    BY <1>0, <1>5, FindTcbIsLive DEF TInv
  <2>2. connFd'[p] = connFd[p]
    BY <1>5 DEF CheckStatusLeft
  <2>3. CASE termState[tp] = "Connected"
    <3>1. /\ termState' = [termState EXCEPT ![tp] = "NpuRequestDisconnect"]
          /\ upline' = Append(upline \o Acks(tp, outputQ[tp]), Msg("TCN/R", tp, Nobody))
      BY <1>5, <2>3 DEF CheckStatusLeft, SendDiscRequest, Message
    <3> HIDE DEF tp
    <3>2. \A c \in Cns : On(c, p)' <=> On(c, p)
      BY <1>1, <1>4, <2>1, <2>3, <3>1 DEF On
    <3>3. Msg("TCN/R", tp, Nobody) \in UplineMessages /\ outputQ[tp] \in Seq(OutputBuffers)
      BY <1>4, <2>1, UplineKinds DEF Message
    <3> DEFINE mid == upline \o Acks(tp, outputQ[tp])
    <3>4. mid \in Seq(UplineMessages) /\ Alike(upline, mid, p)
      <4>1. Acks(tp, outputQ[tp]) \in Seq(UplineMessages)
        BY <2>1, <3>3, AcksAreMessages
      <4> QED BY <1>4, <2>1, <3>3, <4>1, AcksAreAlike
    <3> HIDE DEF mid
    <3>5. Alike(mid, Append(mid, Msg("TCN/R", tp, Nobody)), p)
      BY <3>3, <3>4, AppendedIsAlike DEF Asking, Answers
    <3>6. Alike(upline, upline', p)
      BY <3>1, <3>4, <3>5, AlikeThen DEF mid
    <3> QED BY <1>1, <1>2, <1>3, <2>2, <3>2, <3>6, StaysTied, AlikeItself
  <2>4. CASE termState[tp] # "Connected"
    <3>1. UNCHANGED <<termState, upline>>
      BY <1>5, <2>4 DEF CheckStatusLeft, SendDiscRequest
    <3>2. \A c \in Cns : On(c, p)' <=> On(c, p)
      BY <1>1, <3>1 DEF On
    <3> QED BY <1>1, <1>2, <1>3, <2>2, <3>1, <3>2, StaysTied, AlikeItself
  <2> QED BY <2>3, <2>4
<1>6. CASE tp = Nobody
  <2>1. /\ UNCHANGED <<termState, upline>> /\ connFd' = [connFd EXCEPT ![port] = "none"]
    BY <1>6 DEF CheckStatusLeft, CloseConnection
  <2>2. \A c \in Cns : On(c, p)' <=> On(c, p)
    BY <1>1, <2>1 DEF On
  <2>3. CASE p # port
    <3>1. connFd'[p] = connFd[p]
      BY <1>4, <2>1, <2>3
    <3> QED BY <1>1, <1>2, <1>3, <2>1, <2>2, <3>1, StaysTied, AlikeItself
  <2>4. CASE p = port
    <3>1. \A c \in Cns : ~On(c, p)
      <4>1. SUFFICES ASSUME NEW c \in Cns, On(c, p) PROVE FALSE
        OBVIOUS
      <4>2. TerminalsOn(port) # {} /\ TerminalsOn(port) \subseteq Nat
        BY <2>4, <4>1 DEF On, TerminalsOn
      <4>3. Min(TerminalsOn(port)) \in TerminalsOn(port)
        BY <4>2, MinIsOne
      <4>4. tp # Nobody
        BY <4>2, <4>3 DEF FindTcb, TerminalsOn
      <4> QED BY <1>6, <4>4
    <3>2. connFd'[p] = "none"
      BY <1>4, <2>1, <2>4
    <3>3. /\ Once(upline, Asking, p)' /\ Once(downline, Answers, p)'
          /\ ~(Has(upline, Asking, p)' /\ Has(downline, Answers, p)')
          /\ ~(Opened(p)' /\ ConfigurationPending(p)')
      BY <1>1, <1>2, <1>3, <2>1 DEF Tied, Has, Once, ConfigurationPending
    <3> QED BY <2>2, <3>1, <3>2, <3>3 DEF Tied
  <2> QED BY <2>3, <2>4
<1> QED BY <1>5, <1>6

-----------------------------------------------------------------------------
(* The messages the host sends.                                            *)

\* A step that takes a message other than an answer to a configuration request, and
\* closes no port and ends no terminal.
LEMMA ReceiveTies ==
    ASSUME CInv, NEW kind, NEW id, Receive(kind, id), kind \notin Asking \cup Answers,
           NEW p \in Ports \ unsettled', Alike(upline, upline', p),
           connFd'[p] = connFd[p], \A c \in Cns : On(c, p)' <=> On(c, p)
    PROVE  Tied(p)'
<1>1. ~resetting /\ UNCHANGED <<netPc, netPort, unsettled>>
  BY DEF Receive, netVars
<1>2. Tied(p)
  BY <1>1 DEF CInv, AllTied
<1>3. SameFor(downline, downline', p) \/ Taken(downline, downline', p, kind)
  BY Received DEF CInv
<1>4. Alike(downline, downline', p)
  BY <1>3, OthersAreAlike, SameIsAlike
<1>5. Opened(p)' <=> Opened(p)
  BY <1>1 DEF Opened
<1> QED BY <1>2, <1>4, <1>5, StaysTied

LEMMA RepliedAlike ==
    ASSUME TInv, NEW kind, NEW cn, NEW n, Msg(kind, cn, n) \in UplineMessages,
           kind \notin Asking \cup Answers, upline' = Append(upline, Msg(kind, cn, n)), NEW p
    PROVE  Alike(upline, upline', p)
<1>1. upline \in Seq(UplineMessages)
  BY DEF TInv, QueuesOK
<1> QED BY <1>1, AppendedIsAlike

\* A terminal ends, and its connection is closed.
LEMMA EndTerminalTies ==
    ASSUME CInv, NEW cn \in Cns, NEW kind, Receive(kind, cn), kind \notin Asking \cup Answers,
           termState[cn] # "Idle", EndTerminal(cn), NEW p \in Ports \ unsettled',
           Alike(upline, upline', p)
    PROVE  Tied(p)'
<1>1. ~resetting /\ UNCHANGED <<netPc, netPort, unsettled>>
  BY DEF Receive, netVars
<1>2. Tied(p)
  BY <1>1 DEF CInv, AllTied
<1>3. /\ termState' = [termState EXCEPT ![cn] = "Idle"] /\ UNCHANGED pcbp
      /\ connFd' = [connFd EXCEPT ![pcbp[cn]] = "none"]
  BY DEF EndTerminal, CloseConnection
<1>4. termState \in [Cns -> TermStates] /\ connFd \in [Ports -> {"none", "open", "left"}]
  BY DEF CInv, AInv, TInv, IInv, TiesOK, LinksOK
<1>5. CASE p # pcbp[cn]
  <2>1. connFd'[p] = connFd[p]
    BY <1>3, <1>4, <1>5
  <2>2. \A c \in Cns : On(c, p)' <=> On(c, p)
    BY <1>3, <1>4, <1>5 DEF On
  <2> QED BY <2>1, <2>2, ReceiveTies
<1>6. CASE p = pcbp[cn]
  <2>1. On(cn, p)
    BY <1>6 DEF On
  <2>2. \A c \in Cns : On(c, p) => c = cn
    BY <1>2, <2>1 DEF Tied
  <2>3. \A c \in Cns : ~On(c, p)'
    BY <1>3, <1>4, <2>2 DEF On
  <2>4. connFd'[p] = "none"
    BY <1>3, <1>4, <1>6
  <2>5. SameFor(downline, downline', p) \/ Taken(downline, downline', p, kind)
    BY Received DEF CInv
  <2>6. Alike(downline, downline', p)
    BY <2>5, OthersAreAlike, SameIsAlike
  <2>7. /\ Has(upline, Asking, p)' <=> Has(upline, Asking, p)
        /\ Has(downline, Answers, p)' <=> Has(downline, Answers, p)
        /\ Once(upline, Asking, p)' /\ Once(downline, Answers, p)'
    BY <1>2, <2>6 DEF Alike, Tied
  <2>8. ~(Opened(p)' /\ ConfigurationPending(p)')
    BY <1>1, <1>2, <2>7 DEF Tied, Opened, ConfigurationPending, Asking, Answers
  <2> QED BY <1>2, <2>3, <2>4, <2>7, <2>8 DEF Tied
<1> QED BY <1>5, <1>6

LEMMA ConfigurationTies ==
    ASSUME CInv, NEW port \in Ports, ConfigurationReply(port), NEW p \in Ports \ unsettled'
    PROVE  Tied(p)'
<1> DEFINE cn == Min(FreeTerminals)
<1>0. TInv /\ AInv
  BY DEF CInv, AInv
<1>1. PICK kind \in Answers : Receive(kind, port)
  BY DEF ConfigurationReply, Answers
<1>2. ~resetting /\ UNCHANGED <<netPc, netPort, unsettled>>
  BY <1>1 DEF Receive, netVars
<1>3. Tied(p) /\ (Opened(p)' <=> Opened(p))
  BY <1>2 DEF CInv, AllTied, Opened
<1>4. IF p = port THEN Taken(downline, downline', p, kind) ELSE SameFor(downline, downline', p)
  BY <1>0, <1>1, Received
<1>5. /\ termState \in [Cns -> TermStates] /\ pcbp \in [Cns -> Ports \cup {Nobody}]
      /\ connFd \in [Ports -> {"none", "open", "left"}]
  BY <1>0 DEF TInv, IInv, TiesOK, LinksOK
<1>6. CASE /\ connFd[port] # "none" /\ FreeTerminals # {} /\ Reply(Message("ICN/R", cn))
           /\ termState' = [termState EXCEPT ![cn] = "RequestConnection"]
           /\ pcbp' = [pcbp EXCEPT ![cn] = port] /\ UNCHANGED connFd
  <2>1. cn \in Cns /\ termState[cn] = "Idle"
    <3>1. cn \in FreeTerminals
      BY <1>6, MinIsOne DEF FreeTerminals
    <3> QED BY <3>1 DEF FreeTerminals
  <2> HIDE DEF cn
  <2>2. Alike(upline, upline', p)
    <3>1. Msg("ICN/R", cn, Nobody) \in UplineMessages
      BY <2>1, UplineKinds DEF Message
    <3> QED BY <1>0, <1>6, <3>1, RepliedAlike DEF Reply, Message, Asking, Answers
  <2>3. CASE p # port
    <3>1. \A c \in Cns : On(c, p)' <=> On(c, p)
      BY <1>5, <1>6, <2>1, <2>3 DEF On
    <3> QED BY <1>3, <1>4, <1>6, <2>2, <2>3, <3>1, StaysTied, SameIsAlike
  <2>4. CASE p = port
    <3>1. Has(downline, Answers, p)
      BY <1>4, <2>4 DEF Taken
    <3>2. ~Has(upline, Asking, p) /\ ~Opened(p) /\ \A c \in Cns : ~On(c, p)
      BY <1>3, <3>1 DEF Tied, Expecting, ConfigurationPending, Answers
    <3>3. ~Has(downline', Answers, p) /\ Once(downline', Answers, p)
      BY <1>3, <1>4, <2>4 DEF Tied, Taken
    <3>4. ~Has(upline', Asking, p) /\ Once(upline', Asking, p)
      BY <1>3, <2>2, <3>2 DEF Tied, Alike
    <3>5. ~Expecting(p)' /\ ~Opened(p)'
      BY <1>3, <3>2, <3>3, <3>4 DEF Expecting, ConfigurationPending, Asking, Answers
    <3>6. \A c \in Cns : On(c, p)' <=> c = cn
      BY <1>5, <1>6, <2>1, <2>4, <3>2 DEF On
    <3>7. connFd'[p] # "none"
      BY <1>6, <2>4
    <3> QED BY <2>1, <3>3, <3>4, <3>5, <3>6, <3>7 DEF Tied
  <2> QED BY <2>3, <2>4
<1>7. CASE CloseConnection(port, outputQ) /\ UNCHANGED <<termState, pcbp, upline>>
  <2>1. connFd' = [connFd EXCEPT ![port] = "none"]
    BY <1>7 DEF CloseConnection
  <2>2. \A c \in Cns : On(c, p)' <=> On(c, p)
    BY <1>7 DEF On
  <2>3. CASE p # port
    <3>1. connFd'[p] = connFd[p]
      BY <1>5, <2>1, <2>3
    <3> QED BY <1>3, <1>4, <1>7, <2>2, <2>3, <3>1, StaysTied, SameIsAlike, AlikeItself
  <2>4. CASE p = port
    <3>1. Has(downline, Answers, p)
      BY <1>4, <2>4 DEF Taken
    <3>2. ~Has(upline, Asking, p) /\ ~Opened(p) /\ \A c \in Cns : ~On(c, p)
      BY <1>3, <3>1 DEF Tied, Expecting, ConfigurationPending, Answers
    <3>3. ~Has(downline', Answers, p) /\ Once(downline', Answers, p)
      BY <1>3, <1>4, <2>4 DEF Tied, Taken
    <3>4. ~Has(upline', Asking, p) /\ Once(upline', Asking, p)
      BY <1>3, <1>7, <3>2 DEF Tied, Has, Once
    <3>5. connFd'[p] = "none" /\ ~Opened(p)'
      BY <1>3, <1>5, <2>1, <2>4, <3>2
    <3> QED BY <2>2, <3>2, <3>3, <3>4, <3>5 DEF Tied
  <2> QED BY <2>3, <2>4
<1> QED BY <1>6, <1>7 DEF ConfigurationReply, Configurable, portVars

LEMMA SupervisionTies ==
    ASSUME CInv, SupervisionReply, NEW p \in Ports \ unsettled'
    PROVE  Tied(p)'
<1>1. Receive("SUP/N", Nobody) /\ UNCHANGED <<upline, connFd, termState, pcbp>>
  BY DEF SupervisionReply, portVars, termVars
<1>2. (\A c \in Cns : On(c, p)' <=> On(c, p)) /\ Alike(upline, upline', p)
  BY <1>1, AlikeItself DEF On
<1>3. "SUP/N" \notin Asking \cup Answers
  BY DEF Asking, Answers
<1> QED BY <1>1, <1>2, <1>3, ReceiveTies

LEMMA ConnectionTies ==
    ASSUME CInv, NEW cn \in Cns,
           ConnectionReply(cn) \/ DisconnectRequest(cn) \/ DisconnectReply(cn) \/ TermBlock(cn),
           NEW p \in Ports \ unsettled'
    PROVE  Tied(p)'
<1>0. TInv /\ termState \in [Cns -> TermStates]
  BY DEF CInv, AInv, TInv, IInv, TiesOK
<1>1. PICK kind \in {"ICN/N", "ICN/E", "TCN/R", "TCN/N", "TERM"} : Receive(kind, cn)
  BY DEF ConnectionReply, DisconnectRequest, DisconnectReply, TermBlock
<1>2. kind \notin Asking \cup Answers
  BY DEF Asking, Answers
<1>3. Alike(upline, upline', p)
  <2>1. \/ UNCHANGED upline
        \/ \E reply \in {"TERM", "TCN/N"} : upline' = Append(upline, Msg(reply, cn, Nobody))
    BY DEF ConnectionReply, DisconnectRequest, DisconnectReply, TermBlock, Reply, Message
  <2>2. ASSUME NEW reply \in {"TERM", "TCN/N"}, upline' = Append(upline, Msg(reply, cn, Nobody))
        PROVE  Alike(upline, upline', p)
    <3>1. Msg(reply, cn, Nobody) \in UplineMessages /\ reply \notin Asking \cup Answers
      BY UplineKinds DEF Message, Asking, Answers
    <3> QED BY <1>0, <2>2, <3>1, RepliedAlike
  <2> QED BY <2>1, <2>2, AlikeItself
<1>4. CASE EndTerminal(cn) /\ termState[cn] # "Idle"
  BY <1>1, <1>2, <1>3, <1>4, EndTerminalTies
<1>5. CASE UNCHANGED <<connFd, termState, pcbp>>
  <2>1. \A c \in Cns : On(c, p)' <=> On(c, p)
    BY <1>5 DEF On
  <2> QED BY <1>1, <1>2, <1>3, <1>5, <2>1, ReceiveTies
<1>6. ASSUME NEW s \in {"Connected", "HostRequestDisconnect"}, termState[cn] # "Idle",
             termState' = [termState EXCEPT ![cn] = s], UNCHANGED <<connFd, pcbp>>
      PROVE  Tied(p)'
  <2>1. \A c \in Cns : On(c, p)' <=> On(c, p)
    BY <1>0, <1>6 DEF On
  <2> QED BY <1>1, <1>2, <1>3, <1>6, <2>1, ReceiveTies
<1>7. CASE ConnectionReply(cn)
  BY <1>4, <1>5, <1>6, <1>7 DEF ConnectionReply, portVars, termVars
<1>8. CASE DisconnectRequest(cn)
  BY <1>5, <1>6, <1>8 DEF DisconnectRequest, portVars
<1>9. CASE DisconnectReply(cn)
  BY <1>4, <1>5, <1>9 DEF DisconnectReply, portVars, termVars
<1>10. CASE TermBlock(cn)
  BY <1>4, <1>5, <1>10 DEF TermBlock, portVars, termVars
<1> QED BY <1>7, <1>8, <1>9, <1>10

LEMMA DataTies ==
    ASSUME CInv, NEW cn \in Cns, DataBlock(cn) \/ Mark(cn) \/ Interrupt(cn),
           NEW p \in Ports \ unsettled'
    PROVE  Tied(p)'
<1>0. TInv /\ AInv
  BY DEF CInv, AInv
<1>1. PICK kind \in {"MSG", "MARK", "ICMD"} : Receive(kind, cn)
  BY DEF DataBlock, Mark, Interrupt
<1>2. kind \notin Asking \cup Answers
  BY DEF Asking, Answers
<1>3. UNCHANGED <<connFd, termState, pcbp>>
  BY DEF DataBlock, Mark, Interrupt, portVars
<1>4. \A c \in Cns : On(c, p)' <=> On(c, p)
  BY <1>3 DEF On
<1> SUFFICES Alike(upline, upline', p)
  BY <1>1, <1>2, <1>3, <1>4, ReceiveTies
<1>5. outputQ \in [Cns -> Seq(OutputBuffers)] /\ upline \in Seq(UplineMessages)
  BY <1>0 DEF TInv, QueuesOK
<1>6. ASSUME NEW n \in Numbers, upline' = Append(upline, Msg("BACK", cn, n))
      PROVE  Alike(upline, upline', p)
  <2>1. Msg("BACK", cn, n) \in UplineMessages /\ "BACK" \notin Asking \cup Answers
    BY UplineKinds DEF Asking, Answers
  <2> QED BY <1>0, <1>6, <2>1, RepliedAlike
<1>7. CASE DataBlock(cn)
  <2> DEFINE n == Head(downline).bsn
  <2>1. n \in 1 .. Window
    BY <1>0, <1>7, ReceiveTypes, HeadBsn DEF DataBlock
  <2>2. CASE termState[cn] = "Connected"
    <3> DEFINE q == [outputQ EXCEPT ![cn] = QueueAck(@, n)]
    <3>1. TryOutput(pcbp[cn], q, upline)
      BY <1>7, <2>2 DEF DataBlock
    <3>2. pcbp[cn] \in Ports
      BY <1>0, <2>2 DEF TInv, IInv, TiesOK, HasPort
    <3> HIDE DEF n
    <3>3. QueueAck(outputQ[cn], n) \in Seq(OutputBuffers)
      BY <1>5, <2>1, QueueAckIsQueue
    <3>4. q \in [Cns -> Seq(OutputBuffers)]
      BY <1>5, <3>3
    <3> QED BY <1>0, <1>5, <3>1, <3>2, <3>4, TryOutputAlike
  <2>3. CASE termState[cn] # "Connected"
    <3>1. upline' = Append(upline, Msg("BACK", cn, n))
      BY <1>7, <2>3 DEF DataBlock, Reply
    <3> QED BY <1>6, <2>1, <3>1, NumbersAreThese
  <2> QED BY <2>2, <2>3
<1>8. CASE Mark(cn)
  <2>1. /\ Head(downline).bsn \in Numbers
        /\ upline' = Append(upline, Msg("BACK", cn, Head(downline).bsn))
    BY <1>0, <1>8, ReceiveTypes, HeadBsn, NumbersAreThese DEF Mark, Reply
  <2> QED BY <1>6, <2>1
<1>9. CASE Interrupt(cn)
  <2>1. upline' = upline \o Acks(cn, outputQ[cn]) /\ outputQ[cn] \in Seq(OutputBuffers)
    BY <1>5, <1>9 DEF Interrupt
  <2> QED BY <1>5, <2>1, AcksAreAlike
<1> QED BY <1>7, <1>8, <1>9

LEMMA DownlineTies ==
    ASSUME CInv, ProcessDownline, NEW p \in Ports \ unsettled'
    PROVE  Tied(p)'
  BY SupervisionTies, ConfigurationTies, ConnectionTies, DataTies DEF ProcessDownline

-----------------------------------------------------------------------------
(* The host, and the reset.                                                *)

LEMMA HostConfiguresTies ==
    ASSUME CInv, NEW port \in Ports, HostConfigures(port), NEW p \in Ports \ unsettled'
    PROVE  Tied(p)'
<1>0. AInv
  BY DEF CInv
<1>1. HostReceive("CNF/R", port)
  BY DEF HostConfigures
<1>2. PICK kind \in Answers : HostSends(Msg(kind, port, Nobody))
  BY DEF HostConfigures, Answers, Message
<1>3. Msg(kind, port, Nobody) \in DownlineMessages
  BY DownlineKinds DEF Message, Answers
<1>4. ~resetting /\ UNCHANGED <<connFd, termState, pcbp, netPc, netPort, unsettled>>
  BY <1>1 DEF HostReceive, portVars, termVars, netVars
<1>5. Tied(p) /\ (Opened(p)' <=> Opened(p)) /\ \A c \in Cns : On(c, p)' <=> On(c, p)
  BY <1>4 DEF CInv, AllTied, Opened, On
<1>6. IF p = port THEN Taken(upline, upline', p, "CNF/R") ELSE SameFor(upline, upline', p)
  BY <1>0, <1>1, HostReceived
<1>7. IF p = port THEN Sent(downline, downline', p, kind) ELSE SameFor(downline, downline', p)
  BY <1>0, <1>2, <1>3, HostSent
<1>8. CASE p # port
  BY <1>4, <1>5, <1>6, <1>7, <1>8, StaysTied, SameIsAlike
<1>9. CASE p = port
  <2>1. Has(upline, Asking, p)
    BY <1>6, <1>9 DEF Taken, Asking
  <2>2. ~Has(downline, Answers, p)
    BY <1>5, <2>1 DEF Tied
  <2>3. ~Has(upline', Asking, p) /\ Once(upline', Asking, p)
    BY <1>5, <1>6, <1>9 DEF Tied, Taken, Asking
  <2>4. Has(downline', Answers, p) /\ Once(downline', Answers, p)
    <3>1. kind # "BACK"
      BY DEF Answers
    <3> QED BY <1>5, <1>7, <1>9, <2>2, <3>1 DEF Tied, Sent
  <2>5. ConfigurationPending(p) /\ ConfigurationPending(p)'
    BY <2>1, <2>4 DEF ConfigurationPending, Asking, Answers
  <2>6. Expecting(p) /\ Expecting(p)'
    BY <2>5 DEF Expecting
  <2> QED BY <1>4, <1>5, <2>3, <2>4, <2>5, <2>6 DEF Tied
<1> QED BY <1>8, <1>9

\* A step of the host that has nothing to do with configurations.
LEMMA HostSideTies ==
    ASSUME CInv, ~resetting, UNCHANGED <<connFd, termState, pcbp, netPc, netPort, unsettled>>,
           \/ UNCHANGED upline
           \/ \E kind, id : HostReceive(kind, id) /\ kind \notin Asking \cup Answers
           \/ upline' = Append(upline, Msg("SUP/R", Nobody, Nobody)),
           \/ UNCHANGED downline
           \/ \E k, id, n : /\ Msg(k, id, n) \in DownlineMessages /\ HostSends(Msg(k, id, n))
                            /\ k \notin Asking \cup Answers,
           NEW p \in Ports \ unsettled'
    PROVE  Tied(p)'
<1>0. AInv
  BY DEF CInv
<1>1. Tied(p) /\ (Opened(p)' <=> Opened(p)) /\ \A c \in Cns : On(c, p)' <=> On(c, p)
  BY DEF CInv, AllTied, Opened, On
<1>2. Alike(upline, upline', p)
  <2>1. ASSUME NEW kind, NEW id, HostReceive(kind, id), kind \notin Asking \cup Answers
        PROVE  Alike(upline, upline', p)
    <3>1. SameFor(upline, upline', p) \/ Taken(upline, upline', p, kind)
      BY <1>0, <2>1, HostReceived
    <3> QED BY <2>1, <3>1, OthersAreAlike, SameIsAlike
  <2>2. CASE upline' = Append(upline, Msg("SUP/R", Nobody, Nobody))
    <3>1. Msg("SUP/R", Nobody, Nobody) \in UplineMessages
      BY DEF Msg, UplineMessages
    <3> QED BY <1>0, <2>2, <3>1, RepliedAlike DEF AInv, Asking, Answers
  <2> QED BY <2>1, <2>2, AlikeItself
<1>3. Alike(downline, downline', p)
  <2>1. ASSUME NEW k, NEW id, NEW n, Msg(k, id, n) \in DownlineMessages,
               HostSends(Msg(k, id, n)), k \notin Asking \cup Answers
        PROVE  Alike(downline, downline', p)
    <3>1. SameFor(downline, downline', p) \/ Sent(downline, downline', p, k)
      BY <1>0, <2>1, HostSent
    <3> QED BY <2>1, <3>1, OthersAreAlike, SameIsAlike
  <2> QED BY <2>1, AlikeItself
<1> QED BY <1>1, <1>2, <1>3, StaysTied

LEMMA HostTies ==
    ASSUME CInv, Host, NEW p \in Ports \ unsettled'
    PROVE  Tied(p)'
<1>0. \A K : K \in {"SUP/N", "ICN/N", "ICN/E", "TCN/R", "TCN/N", "TERM", "ICMD", "MSG", "MARK",
                    "ICN/R", "SUP/R", "BREAK", "BACK"} => K \notin Asking \cup Answers
  BY DEF Asking, Answers
<1>1. /\ Msg("SUP/N", Nobody, Nobody) \in DownlineMessages
      /\ \A cn \in Cns : /\ Msg("MARK", cn, MarkNumber) \in DownlineMessages
                         /\ \A k \in {"ICN/N", "ICN/E", "TCN/R", "TCN/N", "TERM", "ICMD"} :
                              Msg(k, cn, Nobody) \in DownlineMessages
                         /\ \A n \in 1 .. Window : Msg("MSG", cn, n) \in DownlineMessages
  <2>1. Msg("SUP/N", Nobody, Nobody) \in DownlineMessages
    BY DEF Msg, DownlineMessages
  <2> QED BY <2>1, DownlineKinds DEF Message
<1>2. ASSUME NEW port \in Ports, HostConfigures(port) PROVE Tied(p)'
  BY <1>2, HostConfiguresTies
<1>3. CASE NotifyHostRegulation
  BY <1>3, HostSideTies DEF NotifyHostRegulation, Message, portVars, termVars, netVars
<1>4. CASE HostSupervises
  <2>1. HostReceive("SUP/R", Nobody) /\ HostSends(Msg("SUP/N", Nobody, Nobody))
    BY <1>4 DEF HostSupervises, Message
  <2>2. ~resetting /\ UNCHANGED <<connFd, termState, pcbp, netPc, netPort, unsettled>>
    BY <2>1 DEF HostReceive, portVars, termVars, netVars
  <2>3. \E kind, id : HostReceive(kind, id) /\ kind \notin Asking \cup Answers
    BY <1>0, <2>1
  <2>4. \E k, id, n : /\ Msg(k, id, n) \in DownlineMessages /\ HostSends(Msg(k, id, n))
                      /\ k \notin Asking \cup Answers
    BY <1>0, <1>1, <2>1
  <2> QED BY <2>2, <2>3, <2>4, HostSideTies
<1>5. ASSUME NEW cn \in Cns,
             HostConnects(cn) \/ HostDisconnects(cn) \/ HostAcknowledged(cn) \/ HostMarks(cn)
      PROVE  Tied(p)'
  <2>1. PICK kind \in {"ICN/R", "TCN/R", "TERM", "TCN/N", "BACK", "BREAK"} :
          HostReceive(kind, cn)
    BY <1>5 DEF HostConnects, HostDisconnects, HostAcknowledged, HostMarks
  <2>2. ~resetting /\ UNCHANGED <<connFd, termState, pcbp, netPc, netPort, unsettled>>
    BY <2>1 DEF HostReceive, portVars, termVars, netVars
  <2>3. \E k, id : HostReceive(k, id) /\ k \notin Asking \cup Answers
    BY <1>0, <2>1
  <2>4. \/ UNCHANGED downline
        \/ \E k \in {"ICN/N", "ICN/E", "TERM", "TCN/N"} : HostSends(Msg(k, cn, Nobody))
        \/ HostSends(Msg("MARK", cn, MarkNumber))
    BY <1>5 DEF HostConnects, HostDisconnects, HostAcknowledged, HostMarks, Message
  <2>5. \/ UNCHANGED downline
        \/ \E k, id, n : /\ Msg(k, id, n) \in DownlineMessages /\ HostSends(Msg(k, id, n))
                         /\ k \notin Asking \cup Answers
    BY <1>0, <1>1, <2>4
  <2> QED BY <2>2, <2>3, <2>5, HostSideTies
<1>6. ASSUME NEW cn \in Cns, HostActs(cn) PROVE Tied(p)'
  <2>1. ~resetting /\ UNCHANGED <<connFd, termState, pcbp, netPc, netPort, unsettled, upline>>
    BY <1>6 DEF HostActs, portVars, termVars, netVars
  <2>2. PICK k, n : /\ k \in {"TCN/R", "ICMD", "MSG"}
                    /\ Msg(k, cn, n) \in DownlineMessages /\ HostSends(Msg(k, cn, n))
    <3>1. CASE HostAsksForEnd(cn) \/ HostInterrupts(cn)
      BY <1>1, <3>1 DEF HostAsksForEnd, HostInterrupts, Message
    <3>2. CASE HostSendsBlock(cn)
      <4> DEFINE unused == (1 .. Window) \ ToSet(unacked[cn])
                 m == Min(unused)
      <4>1. unused # {} /\ HostSends(Msg("MSG", cn, m))
        BY <3>2 DEF HostSendsBlock
      <4>2. m \in 1 .. Window
        <5>1. \A k \in unused : k \in 1 .. Window /\ k \in Nat
          OBVIOUS
        <5> HIDE DEF unused
        <5> QED BY <4>1, <5>1, MinIsOne
      <4> HIDE DEF m
      <4> QED BY <1>1, <4>1, <4>2
    <3> QED BY <1>6, <3>1, <3>2 DEF HostActs
  <2>3. k \notin Asking \cup Answers
    BY <2>2 DEF Asking, Answers
  <2> QED BY <2>1, <2>2, <2>3, HostSideTies
<1> QED BY <1>2, <1>3, <1>4, <1>5, <1>6 DEF Host, HostProcesses

LEMMA ResetRestTies ==
    ASSUME CInv, ResetRest, NEW p \in Ports \ unsettled'
    PROVE  Tied(p)'
<1>1. /\ upline' = <<>> /\ downline' = <<>> /\ termState' = [c \in Cns |-> "Idle"]
      /\ resetting /\ UNCHANGED <<connFd, unsettled>>
  BY DEF ResetRest, portVars, netVars
<1>2. connFd'[p] = "none"
  BY <1>1 DEF CInv, ClosedInReset
<1>3. \A c \in Cns : ~On(c, p)'
  BY <1>1 DEF On
<1>4. /\ \A K : ~Has(upline', K, p) /\ ~Has(downline', K, p)
      /\ \A K : Once(upline', K, p) /\ Once(downline', K, p)
  BY <1>1 DEF Has, Once
<1>5. ~ConfigurationPending(p)'
  BY <1>4 DEF ConfigurationPending
<1> QED BY <1>2, <1>3, <1>4, <1>5 DEF Tied

LEMMA ClosedInResetKept ==
    ASSUME CInv, Next
    PROVE  ClosedInReset'
<1> SUFFICES ASSUME resetting', NEW p \in Ports \ unsettled' PROVE connFd'[p] = "none"
  BY DEF ClosedInReset
<1>1. CASE NetReset
  BY <1>1 DEF NetReset
<1>2. CASE ~NetReset
  <2>1. resetting /\ (NetThread \/ User)
    <3>1. CASE CheckStatus
      BY <3>1 DEF CheckStatus, CheckStatusOpen, CheckStatusLeft, resetVars
    <3>2. CASE ProcessDownline
      BY <3>2 DEF ProcessDownline, SupervisionReply, ConfigurationReply, ConnectionReply,
           DisconnectRequest, DisconnectReply, TermBlock, DataBlock, Mark, Interrupt, Receive,
           resetVars
    <3>3. CASE Host
      BY <3>3 DEF Host, HostProcesses, NotifyHostRegulation, HostSupervises, HostConfigures,
           HostConnects, HostDisconnects, HostAcknowledged, HostMarks, HostActs, HostReceive,
           resetVars
    <3>4. CASE NetThread \/ User
      BY <3>4 DEF NetThread, Accept, TakePort, NotifyNetConnect, User, Leave, resetVars
    <3>5. CASE ResetRest
      BY <3>5 DEF ResetRest
    <3> QED BY <1>2, <3>1, <3>2, <3>3, <3>4, <3>5 DEF Next, Reset
  <2>2. connFd \in [Ports -> {"none", "open", "left"}]
    BY DEF CInv, AInv, TInv, LinksOK
  <2>3. CASE Accept \/ NotifyNetConnect
    BY <2>1, <2>3 DEF Accept, NotifyNetConnect, portVars, CInv, ClosedInReset
  <2>4. CASE User
    BY <2>1, <2>2, <2>4 DEF User, Leave, netVars, CInv, ClosedInReset
  <2>5. CASE TakePort
    <3>1. \/ UNCHANGED <<connFd, unsettled>>
          \/ \E q : /\ connFd' = [connFd EXCEPT ![q] = "open"]
                    /\ unsettled' = unsettled \cup {q}
      BY <2>1, <2>5 DEF TakePort
    <3> QED BY <2>1, <2>2, <3>1 DEF CInv, ClosedInReset
  <2> QED BY <2>1, <2>3, <2>4, <2>5 DEF NetThread
<1> QED BY <1>1, <1>2

LEMMA InitCInv == Init => CInv
<1> SUFFICES ASSUME Init PROVE AllTied /\ ClosedInReset
  BY InitAInv DEF CInv
<1>1. ASSUME NEW p \in Ports PROVE Tied(p)
  <2>1. /\ upline = <<>> /\ downline = <<>> /\ connFd[p] = "none"
        /\ \A c \in Cns : ~On(c, p)
    BY DEF Init, On
  <2>2. /\ \A K : ~Has(upline, K, p) /\ ~Has(downline, K, p)
        /\ \A K : Once(upline, K, p) /\ Once(downline, K, p)
    BY <2>1 DEF Has, Once
  <2> QED BY <2>1, <2>2 DEF Tied, ConfigurationPending
<1> QED BY <1>1 DEF AllTied, ClosedInReset, Init

LEMMA NextCInv == CInv /\ [Next]_vars => CInv'
<1> SUFFICES ASSUME CInv, [Next]_vars PROVE AllTied' /\ ClosedInReset'
  BY NextAInv DEF CInv
<1>1. CASE UNCHANGED vars
  <2>1. UNCHANGED <<upline, downline, connFd, termState, pcbp, netPc, netPort, unsettled,
                    resetting>>
    BY <1>1 DEF vars, portVars, termVars, netVars, lineVars, resetVars
  <2>2. ClosedInReset'
    BY <2>1 DEF CInv, ClosedInReset
  <2>3. ASSUME ~resetting', NEW p \in Ports \ unsettled' PROVE Tied(p)'
    <3>1. Tied(p) /\ (Opened(p)' <=> Opened(p)) /\ \A c \in Cns : On(c, p)' <=> On(c, p)
      BY <2>1, <2>3 DEF CInv, AllTied, Opened, On
    <3> QED BY <2>1, <3>1, StaysTied, AlikeItself
  <2> QED BY <2>2, <2>3 DEF AllTied
<1>2. CASE Next
  <2>1. ClosedInReset'
    BY <1>2, ClosedInResetKept
  <2> SUFFICES ASSUME ~resetting', NEW p \in Ports \ unsettled' PROVE Tied(p)'
    BY <2>1 DEF AllTied
  <2>2. CASE NetThread \/ User
    <3>1. UNCHANGED resetting
      BY <2>2 DEF NetThread, Accept, TakePort, NotifyNetConnect, User, Leave, resetVars
    <3> QED BY <2>2, <3>1, NetThreadTies
  <2>3. CASE CheckStatus
    BY <2>3, CheckStatusOpenTies, CheckStatusLeftTies DEF CheckStatus
  <2>4. CASE ProcessDownline
    BY <2>4, DownlineTies
  <2>5. CASE Host
    BY <2>5, HostTies
  <2>6. CASE ResetRest
    BY <2>6, ResetRestTies
  <2>7. ~NetReset
    BY DEF NetReset
  <2> QED BY <1>2, <2>2, <2>3, <2>4, <2>5, <2>6, <2>7 DEF Next, Reset
<1> QED BY <1>1, <1>2

LEMMA TiedHasTerminal == CInv => ConnectionHasTerminal
<1> SUFFICES ASSUME CInv, ~resetting, NEW p \in Ports \ unsettled
             PROVE  \/ connFd[p] = "none" /\ TerminalsOn(p) = {}
                    \/ connFd[p] # "none" /\ TerminalsOn(p) = {} /\ Expecting(p)
                    \/ connFd[p] # "none" /\ Cardinality(TerminalsOn(p)) = 1 /\ ~Expecting(p)
  BY DEF ConnectionHasTerminal, Expecting, Opened
<1>1. Tied(p)
  BY DEF CInv, AllTied
<1>2. \A c : c \in TerminalsOn(p) <=> c \in Cns /\ On(c, p)
  BY DEF TerminalsOn, On
<1>3. CASE \A c \in Cns : ~On(c, p)
  <2>1. TerminalsOn(p) = {}
    BY <1>2, <1>3
  <2> QED BY <1>1, <1>3, <2>1 DEF Tied
<1>4. ASSUME NEW c \in Cns, On(c, p)
      PROVE  connFd[p] # "none" /\ Cardinality(TerminalsOn(p)) = 1 /\ ~Expecting(p)
  <2>1. TerminalsOn(p) = {c}
    BY <1>1, <1>2, <1>4 DEF Tied
  <2>2. Cardinality({c}) = 1
    BY FS_Singleton
  <2> QED BY <1>1, <1>4, <2>1, <2>2 DEF Tied
<1> QED BY <1>3, <1>4

\* Every terminal in use has the connection of its port to itself, and every
\* connection a terminal, or its configuration is on the way, but never both (what
\* npuSvmConnectTerminal and npuNetCloseConnection keep in step), for any number of
\* ports, terminals, users and resets.
THEOREM ConnectionsHaveTerminals == Spec => []ConnectionHasTerminal
<1>1. Spec => []CInv
  BY InitCInv, NextCInv, PTL DEF Spec
<1> QED BY <1>1, TiedHasTerminal, PTL

-----------------------------------------------------------------------------
(* What is selected from sequences of numbers, and from queues.            *)

LEMMA SelectedAll ==
    ASSUME NEW T, NEW s \in Seq(T), NEW S, T \subseteq S
    PROVE  Selected(s, S) = s
<1> DEFINE X == {q \in Seq(T) : Selected(q, S) = q}
<1>1. <<>> \in X
  BY SelectedOfEmpty
<1>2. ASSUME NEW q \in Seq(T), NEW e \in T, q \in X PROVE Append(q, e) \in X
  <2>1. Selected(Append(q, e), S) = Append(q, e)
    BY <1>2, SelectedOfAppend
  <2> QED BY <2>1
<1>3. Seq(T) \subseteq X
  <2> HIDE DEF X
  <2> QED BY <1>1, <1>2, InductionOnSequences
<1> QED BY <1>3

LEMMA SelectedNone ==
    ASSUME NEW T, NEW s \in Seq(T), NEW S, \A i \in DOMAIN s : s[i] \notin S
    PROVE  Selected(s, S) = <<>>
<1>1. s \in Seq(T \ S)
  <2>1. \A i \in 1 .. Len(s) : s[i] \in T \ S
    OBVIOUS
  <2> QED BY <2>1
<1>2. Selected(s, S) \in Seq(S \cap (T \ S))
  BY <1>1, SelectedIsSequence
<1>3. S \cap (T \ S) = {}
  OBVIOUS
<1> QED BY <1>2, <1>3

\* A number that is not there need not be left out.
LEMMA SelectedWithout ==
    ASSUME NEW T, NEW s \in Seq(T), NEW S, NEW n, Selected(s, {n}) = <<>>
    PROVE  Selected(s, S \ {n}) = Selected(s, S)
<1> DEFINE X == {q \in Seq(T) : Selected(q, {n}) = <<>> => Selected(q, S \ {n}) = Selected(q, S)}
<1>1. <<>> \in X
  BY SelectedOfEmpty
<1>2. ASSUME NEW q \in Seq(T), NEW e \in T, q \in X PROVE Append(q, e) \in X
  <2> SUFFICES ASSUME Selected(Append(q, e), {n}) = <<>>
               PROVE  Selected(Append(q, e), S \ {n}) = Selected(Append(q, e), S)
    OBVIOUS
  <2>1. Selected(Append(q, e), {n}) = IF e \in {n} THEN Append(Selected(q, {n}), e)
                                      ELSE Selected(q, {n})
    BY SelectedOfAppend
  <2>2. Append(Selected(q, {n}), e) # <<>>
    <3> DEFINE r == Selected(q, {n})
    <3>1. r \in Seq(T)
      BY SelectedIsSequence
    <3> HIDE DEF r
    <3>2. Append(r, e) # <<>>
      BY <3>1
    <3> QED BY <3>2 DEF r
  <2>3. e # n /\ Selected(q, {n}) = <<>>
    BY <2>1, <2>2
  <2>4. /\ Selected(Append(q, e), S) = IF e \in S THEN Append(Selected(q, S), e)
                                       ELSE Selected(q, S)
        /\ Selected(Append(q, e), S \ {n}) = IF e \in S \ {n} THEN Append(Selected(q, S \ {n}), e)
                                             ELSE Selected(q, S \ {n})
    BY SelectedOfAppend
  <2>5. Selected(q, S \ {n}) = Selected(q, S)
    BY <1>2, <2>3
  <2> QED BY <2>3, <2>4, <2>5
<1>3. Seq(T) \subseteq X
  <2> HIDE DEF X
  <2> QED BY <1>1, <1>2, InductionOnSequences
<1> QED BY <1>3

LEMMA SelectedOfOne ==
    ASSUME NEW e, NEW S
    PROVE  Selected(<<e>>, S) = IF e \in S THEN <<e>> ELSE <<>>
<1> DEFINE T == {e}
           s == <<>>
<1>1. s \in Seq(T) /\ e \in T /\ Append(<<>>, e) = <<e>>
  OBVIOUS
<1>2. Selected(Append(s, e), S) = IF e \in S THEN Append(Selected(s, S), e)
                                  ELSE Selected(s, S)
  <2> HIDE DEF T, s
  <2> QED BY <1>1, SelectedOfAppend
<1> QED BY <1>1, <1>2, SelectedOfEmpty

LEMMA HeadThenTail ==
    ASSUME NEW T, NEW s \in Seq(T), s # <<>>
    PROVE  /\ s = <<Head(s)>> \o Tail(s) /\ Head(s) \in T /\ Tail(s) \in Seq(T)
           /\ <<Head(s)>> \in Seq(T)
<1>1. Head(s) \in T /\ Tail(s) \in Seq(T) /\ <<Head(s)>> \in Seq(T)
  OBVIOUS
<1>2. s = <<Head(s)>> \o Tail(s)
  <2> DEFINE r == <<Head(s)>> \o Tail(s)
  <2>1. r \in Seq(T) /\ Len(r) = Len(s)
    BY <1>1
  <2>2. \A i \in 1 .. Len(s) : r[i] = s[i]
    BY <1>1
  <2> QED BY <2>1, <2>2, SeqEqual
<1> QED BY <1>1, <1>2

LEMMA SelectedOfTail ==
    ASSUME NEW T, NEW s \in Seq(T), s # <<>>, NEW S
    PROVE  Selected(s, S) = IF Head(s) \in S THEN <<Head(s)>> \o Selected(Tail(s), S)
                            ELSE Selected(Tail(s), S)
<1>1. /\ s = <<Head(s)>> \o Tail(s) /\ Tail(s) \in Seq(T) /\ <<Head(s)>> \in Seq(T)
  BY HeadThenTail
<1> DEFINE h == Head(s)
           t == Tail(s)
           o == <<h>>
<1>2. Selected(<<h>> \o t, S) = Selected(<<h>>, S) \o Selected(t, S)
  <2>1. o \in Seq(T) /\ t \in Seq(T)
    BY <1>1
  <2> HIDE DEF o, t
  <2>2. Selected(o \o t, S) = Selected(o, S) \o Selected(t, S)
    BY <2>1, SelectedOfConcat
  <2> QED BY <2>2 DEF o
<1> HIDE DEF h, t
<1>3. Selected(t, S) \in Seq(T)
  BY <1>1, SelectedIsSequence DEF t
<1>4. <<>> \o Selected(t, S) = Selected(t, S)
  BY <1>3
<1> QED BY <1>1, <1>2, <1>4, SelectedOfOne DEF h, t

-----------------------------------------------------------------------------
(* The numbers of a connection's blocks in a queue.                        *)

Block(K, cn) == [kind : K, id : {cn}, bsn : Numbers]

LEMMA BlockMessage ==
    ASSUME NEW kind, NEW id, NEW n, NEW K, NEW cn
    PROVE  /\ Msg(kind, id, n) \in Block(K, cn) <=> kind \in K /\ id = cn /\ n \in Numbers
           /\ Msg(kind, id, n).bsn = n /\ Msg(kind, id, n).kind = kind /\ Msg(kind, id, n).id = id
  BY DEF Msg, Block

LEMMA AMessage ==
    ASSUME NEW m \in UplineMessages \cup DownlineMessages
    PROVE  m = Msg(m.kind, m.id, m.bsn)
  BY DEF Msg, UplineMessages, DownlineMessages

LEMMA NumbersInQueue ==
    ASSUME NEW T, NEW q \in Seq(T), NEW K, NEW cn
    PROVE  LET blocks == Selected(q, Block(K, cn))
           IN  /\ blocks \in Seq(Block(K, cn))
               /\ NumbersIn(q, K, cn) = [i \in 1 .. Len(blocks) |-> blocks[i].bsn]
               /\ NumbersIn(q, K, cn) \in Seq(Numbers)
               /\ Len(NumbersIn(q, K, cn)) = Len(blocks)
<1> DEFINE blocks == Selected(q, Block(K, cn))
<1>1. blocks \in Seq(Block(K, cn) \cap T)
  BY SelectedIsSequence
<1> HIDE DEF blocks
<1>2. blocks \in Seq(Block(K, cn))
  <2>1. Block(K, cn) \cap T \subseteq Block(K, cn)
    OBVIOUS
  <2> QED BY <1>1, <2>1, SeqMonotonic
<1>3. DOMAIN blocks = 1 .. Len(blocks) /\ Len(blocks) \in Nat
  BY <1>2
<1>4. \A i \in 1 .. Len(blocks) : blocks[i].bsn \in Numbers
  <2>1. \A m \in Block(K, cn) : m.bsn \in Numbers
    BY DEF Block
  <2> QED BY <1>2, <2>1
<1>5. NumbersIn(q, K, cn) = [i \in 1 .. Len(blocks) |-> blocks[i].bsn]
  BY <1>3 DEF NumbersIn, blocks, Block
<1> DEFINE ns == [i \in 1 .. Len(blocks) |-> blocks[i].bsn]
<1>6. ns \in Seq(Numbers) /\ Len(ns) = Len(blocks)
  <2>1. ns \in [1 .. Len(blocks) -> Numbers]
    BY <1>4
  <2> HIDE DEF ns
  <2> QED BY <1>3, <2>1
<1> QED BY <1>2, <1>5, <1>6 DEF blocks

LEMMA NumbersOfConcat ==
    ASSUME NEW T, NEW q \in Seq(T), NEW r \in Seq(T), NEW K, NEW cn
    PROVE  NumbersIn(q \o r, K, cn) = NumbersIn(q, K, cn) \o NumbersIn(r, K, cn)
<1> DEFINE a == Selected(q, Block(K, cn))
           b == Selected(r, Block(K, cn))
           x == NumbersIn(q, K, cn)
           y == NumbersIn(r, K, cn)
           z == NumbersIn(q \o r, K, cn)
<1>1. q \o r \in Seq(T) /\ Selected(q \o r, Block(K, cn)) = a \o b
  BY SelectedOfConcat
<1>2. /\ a \in Seq(Block(K, cn)) /\ x = [i \in 1 .. Len(a) |-> a[i].bsn]
      /\ x \in Seq(Numbers) /\ Len(x) = Len(a)
  BY NumbersInQueue
<1>3. /\ b \in Seq(Block(K, cn)) /\ y = [i \in 1 .. Len(b) |-> b[i].bsn]
      /\ y \in Seq(Numbers) /\ Len(y) = Len(b)
  BY NumbersInQueue
<1>4. /\ z = [i \in 1 .. Len(a \o b) |-> (a \o b)[i].bsn] /\ z \in Seq(Numbers)
      /\ Len(z) = Len(a \o b)
  <2> DEFINE p == q \o r
  <2>0. p \in Seq(T)
    BY <1>1
  <2>1. Selected(p, Block(K, cn)) = a \o b
    BY <1>1
  <2> HIDE DEF p, a, b
  <2> DEFINE c == Selected(p, Block(K, cn))
  <2>3. /\ NumbersIn(p, K, cn) = [i \in 1 .. Len(c) |-> c[i].bsn]
        /\ NumbersIn(p, K, cn) \in Seq(Numbers)
        /\ Len(NumbersIn(p, K, cn)) = Len(c)
    BY <2>0, NumbersInQueue
  <2> HIDE DEF c
  <2>4. c = a \o b
    BY <2>1 DEF c
  <2>2. /\ NumbersIn(p, K, cn) = [i \in 1 .. Len(a \o b) |-> (a \o b)[i].bsn]
        /\ NumbersIn(p, K, cn) \in Seq(Numbers)
        /\ Len(NumbersIn(p, K, cn)) = Len(a \o b)
    BY <2>3, <2>4
  <2> QED BY <2>2 DEF p
<1> HIDE DEF a, b, x, y, z
<1>5. x \o y \in Seq(Numbers) /\ Len(x \o y) = Len(z)
  BY <1>2, <1>3, <1>4
<1>6. \A i \in 1 .. Len(z) : (x \o y)[i] = z[i]
  <2> TAKE i \in 1 .. Len(z)
  <2>1. Len(z) = Len(a) + Len(b) /\ Len(a) \in Nat /\ Len(b) \in Nat
    BY <1>2, <1>3, <1>4
  <2>4. z[i] = (a \o b)[i].bsn
    BY <1>4
  <2>2. CASE i <= Len(a)
    <3>1. i \in 1 .. Len(a) /\ (a \o b)[i] = a[i] /\ (x \o y)[i] = x[i]
      BY <1>2, <1>3, <2>1, <2>2
    <3>2. x[i] = a[i].bsn
      BY <1>2, <3>1
    <3> QED BY <2>4, <3>1, <3>2
  <2>3. CASE i > Len(a)
    <3>1. i - Len(a) \in 1 .. Len(b)
      BY <2>1, <2>3
    <3>2. (a \o b)[i] = b[i - Len(a)] /\ (x \o y)[i] = y[i - Len(a)]
      BY <1>2, <1>3, <2>1, <2>3
    <3>3. y[i - Len(a)] = b[i - Len(a)].bsn
      BY <1>3, <3>1
    <3> QED BY <2>4, <3>2, <3>3
  <2>5. i <= Len(a) \/ i > Len(a)
    BY <2>1
  <2> QED BY <2>2, <2>3, <2>5
<1>7. x \o y = z
  BY <1>4, <1>5, <1>6, SeqEqual
<1> QED BY <1>7 DEF x, y, z

LEMMA NumbersOfOne ==
    ASSUME NEW m, NEW K, NEW cn
    PROVE  NumbersIn(<<m>>, K, cn) = IF m \in Block(K, cn) THEN <<m.bsn>> ELSE <<>>
<1>1. Selected(<<m>>, Block(K, cn)) = IF m \in Block(K, cn) THEN <<m>> ELSE <<>>
  BY SelectedOfOne
<1> DEFINE blocks == Selected(<<m>>, Block(K, cn))
<1>2. NumbersIn(<<m>>, K, cn) = [i \in DOMAIN blocks |-> blocks[i].bsn]
  BY DEF NumbersIn, Block
<1> HIDE DEF blocks
<1>3. CASE m \in Block(K, cn)
  <2>1. blocks = <<m>>
    BY <1>1, <1>3 DEF blocks
  <2>2. NumbersIn(<<m>>, K, cn) = [i \in 1 .. 1 |-> <<m>>[i].bsn]
    BY <1>2, <2>1
  <2>3. \A i \in 1 .. 1 : <<m>>[i].bsn = <<m.bsn>>[i]
    OBVIOUS
  <2>4. [i \in 1 .. 1 |-> <<m.bsn>>[i]] = <<m.bsn>>
    OBVIOUS
  <2> QED BY <1>3, <2>2, <2>3, <2>4
<1>4. CASE m \notin Block(K, cn)
  <2>1. blocks = <<>>
    BY <1>1, <1>4 DEF blocks
  <2>2. [i \in {} |-> blocks[i].bsn] = <<>>
    OBVIOUS
  <2> QED BY <1>2, <1>4, <2>1, <2>2
<1> QED BY <1>3, <1>4

\* Those of them in S.
Nums(q, K, cn, S) == Selected(NumbersIn(q, K, cn), S)

Piece(n, S) == IF n \in S THEN <<n>> ELSE <<>>

LEMMA PieceIsSequence ==
    ASSUME NEW n \in Numbers, NEW S
    PROVE  Piece(n, S) \in Seq(Numbers)
  BY DEF Piece

LEMMA NumsIsSequence ==
    ASSUME NEW T, NEW q \in Seq(T), NEW K, NEW cn, NEW S
    PROVE  Nums(q, K, cn, S) \in Seq(Numbers)
<1>1. NumbersIn(q, K, cn) \in Seq(Numbers)
  BY NumbersInQueue
<1> QED BY <1>1, SelectedIsSequence DEF Nums

LEMMA NumsOfConcat ==
    ASSUME NEW T, NEW q \in Seq(T), NEW r \in Seq(T), NEW K, NEW cn, NEW S
    PROVE  Nums(q \o r, K, cn, S) = Nums(q, K, cn, S) \o Nums(r, K, cn, S)
<1> DEFINE x == NumbersIn(q, K, cn)
           y == NumbersIn(r, K, cn)
<1>1. x \in Seq(Numbers) /\ y \in Seq(Numbers)
  BY NumbersInQueue
<1>2. NumbersIn(q \o r, K, cn) = x \o y
  BY NumbersOfConcat
<1> HIDE DEF x, y
<1>3. Selected(x \o y, S) = Selected(x, S) \o Selected(y, S)
  BY <1>1, SelectedOfConcat
<1> QED BY <1>2, <1>3 DEF Nums, x, y

LEMMA NumsOfOne ==
    ASSUME NEW kind, NEW id, NEW n, NEW K, NEW cn, NEW S, S \subseteq Numbers
    PROVE  Nums(<<Msg(kind, id, n)>>, K, cn, S) = IF kind \in K /\ id = cn THEN Piece(n, S) ELSE <<>>
<1> DEFINE m == Msg(kind, id, n)
<1>1. m \in Block(K, cn) <=> kind \in K /\ id = cn /\ n \in Numbers
  BY BlockMessage
<1>2. m.bsn = n
  BY BlockMessage
<1> HIDE DEF m
<1>3. NumbersIn(<<m>>, K, cn) = IF m \in Block(K, cn) THEN <<n>> ELSE <<>>
  BY <1>2, NumbersOfOne
<1>4. CASE m \in Block(K, cn)
  BY <1>1, <1>3, <1>4, SelectedOfOne DEF Nums, Piece, m
<1>5. CASE m \notin Block(K, cn)
  <2>1. Nums(<<m>>, K, cn, S) = <<>>
    BY <1>3, <1>5, SelectedOfEmpty DEF Nums
  <2> QED BY <1>1, <1>5, <2>1 DEF Piece, m
<1> QED BY <1>4, <1>5

LEMMA NumsOfAppend ==
    ASSUME NEW T, NEW q \in Seq(T), NEW kind, NEW id, NEW n, Msg(kind, id, n) \in T,
           NEW K, NEW cn, NEW S, S \subseteq Numbers
    PROVE  Nums(Append(q, Msg(kind, id, n)), K, cn, S)
             = IF kind \in K /\ id = cn THEN Nums(q, K, cn, S) \o Piece(n, S) ELSE Nums(q, K, cn, S)
<1> DEFINE m == Msg(kind, id, n)
           o == <<m>>
<1>1. Append(q, m) = q \o o /\ o \in Seq(T)
  BY AppendIsConcat
<1>2. Nums(o, K, cn, S) = IF kind \in K /\ id = cn THEN Piece(n, S) ELSE <<>>
  BY NumsOfOne
<1>3. Nums(q, K, cn, S) \in Seq(Numbers)
  BY NumsIsSequence
<1> HIDE DEF o
<1>4. Nums(q \o o, K, cn, S) = Nums(q, K, cn, S) \o Nums(o, K, cn, S)
  BY <1>1, NumsOfConcat
<1>5. Nums(q, K, cn, S) \o <<>> = Nums(q, K, cn, S)
  BY <1>3, ConcatEmptySeq
<1> QED BY <1>1, <1>2, <1>4, <1>5

LEMMA NumsOfTail ==
    ASSUME NEW q, q \in Seq(UplineMessages) \/ q \in Seq(DownlineMessages), q # <<>>,
           NEW K, NEW cn, NEW S, S \subseteq Numbers
    PROVE  Nums(q, K, cn, S)
             = IF Head(q).kind \in K /\ Head(q).id = cn
               THEN Piece(Head(q).bsn, S) \o Nums(Tail(q), K, cn, S) ELSE Nums(Tail(q), K, cn, S)
<1> DEFINE M == UplineMessages \cup DownlineMessages
           m == Head(q)
           o == <<m>>
           t == Tail(q)
<1>0. q \in Seq(M)
  <2>1. UplineMessages \subseteq M /\ DownlineMessages \subseteq M
    OBVIOUS
  <2> HIDE DEF M
  <2> QED BY <2>1, SeqMonotonic
<1> HIDE DEF M
<1>1. q = o \o t /\ m \in M /\ t \in Seq(M) /\ o \in Seq(M)
  BY <1>0, HeadThenTail
<1>2. m = Msg(m.kind, m.id, m.bsn)
  BY <1>1, AMessage DEF M
<1> HIDE DEF m
<1>3. Nums(<<Msg(m.kind, m.id, m.bsn)>>, K, cn, S)
        = IF m.kind \in K /\ m.id = cn THEN Piece(m.bsn, S) ELSE <<>>
  BY NumsOfOne
<1>4. Nums(o, K, cn, S) = IF m.kind \in K /\ m.id = cn THEN Piece(m.bsn, S) ELSE <<>>
  BY <1>2, <1>3
<1> HIDE DEF o, t
<1>5. Nums(o \o t, K, cn, S) = Nums(o, K, cn, S) \o Nums(t, K, cn, S)
  BY <1>1, NumsOfConcat
<1>6. <<>> \o Nums(t, K, cn, S) = Nums(t, K, cn, S)
  BY <1>1, NumsIsSequence, ConcatEmptySeq
<1> QED BY <1>1, <1>4, <1>5, <1>6 DEF m, t

\* The acknowledgements of a connection's buffers.
LEMMA NumsOfAcks ==
    ASSUME NEW id, NEW T, NEW b \in Seq(T), NEW cn, NEW S, S \subseteq Numbers
    PROVE  Nums(Acks(id, b), {"BACK"}, cn, S) = IF id = cn THEN Selected(b, S) ELSE <<>>
<1> DEFINE numbered == Selected(b, Numbers)
           a == Acks(id, b)
           A == Block({"BACK"}, id)
<1>1. numbered \in Seq(Numbers)
  <2>1. numbered \in Seq(Numbers \cap T) /\ Numbers \cap T \subseteq Numbers
    BY SelectedIsSequence
  <2> HIDE DEF numbered
  <2> QED BY <2>1, SeqMonotonic
<1>2. a = [i \in DOMAIN numbered |-> Msg("BACK", id, numbered[i])]
  BY DEF Acks
<1>3. Selected(numbered, S) = Selected(b, S)
  <2>1. Selected(numbered, S) = Selected(b, Numbers \cap S)
    BY SelectedOfSelected
  <2>2. Numbers \cap S = S
    OBVIOUS
  <2> QED BY <2>1, <2>2
<1> HIDE DEF numbered, a
<1>4. DOMAIN numbered = 1 .. Len(numbered) /\ Len(numbered) \in Nat
  BY <1>1
<1>5. \A i \in 1 .. Len(numbered) : numbered[i] \in Numbers
  BY <1>1
<1>6. a \in Seq(A) /\ Len(a) = Len(numbered)
  <2>1. \A i \in 1 .. Len(numbered) : Msg("BACK", id, numbered[i]) \in A
    BY <1>5, BlockMessage
  <2> HIDE DEF A
  <2>2. a \in [1 .. Len(numbered) -> A]
    BY <1>2, <1>4, <2>1
  <2> QED BY <1>4, <2>2
<1> DEFINE blocks == Selected(a, Block({"BACK"}, cn))
           x == NumbersIn(a, {"BACK"}, cn)
<1>9. x = [i \in 1 .. Len(blocks) |-> blocks[i].bsn] /\ x \in Seq(Numbers) /\ Len(x) = Len(blocks)
  <2> DEFINE K == {"BACK"}
  <2> HIDE DEF A, K
  <2>1. LET c == Selected(a, Block(K, cn))
        IN  /\ NumbersIn(a, K, cn) = [i \in 1 .. Len(c) |-> c[i].bsn]
            /\ NumbersIn(a, K, cn) \in Seq(Numbers)
            /\ Len(NumbersIn(a, K, cn)) = Len(c)
    BY <1>6, NumbersInQueue
  <2> QED BY <2>1 DEF K
<1>10. x = <<>> => Nums(a, {"BACK"}, cn, S) = <<>>
  BY SelectedOfEmpty DEF Nums
<1>11. x = numbered => Nums(a, {"BACK"}, cn, S) = Selected(b, S)
  BY <1>3 DEF Nums
<1> HIDE DEF x
<1>7. CASE id = cn
  <2>1. blocks = a
    BY <1>6, <1>7, SelectedAll
  <2> HIDE DEF blocks
  <2>3. \A i \in 1 .. Len(numbered) : a[i].bsn = numbered[i]
    <3> TAKE i \in 1 .. Len(numbered)
    <3>1. a[i] = Msg("BACK", id, numbered[i])
      BY <1>2, <1>4
    <3> QED BY <3>1, BlockMessage
  <2>4. \A i \in 1 .. Len(x) : x[i] = numbered[i]
    BY <1>6, <1>9, <2>1, <2>3
  <2>5. x = numbered
    BY <1>1, <1>6, <1>9, <2>1, <2>4, SeqEqual
  <2> QED BY <1>7, <1>11, <2>5 DEF a
<1>8. CASE id # cn
  <2>1. \A i \in DOMAIN a : a[i] \notin Block({"BACK"}, cn)
    <3> TAKE i \in DOMAIN a
    <3>1. a[i] = Msg("BACK", id, numbered[i])
      BY <1>2
    <3> QED BY <1>8, <3>1, BlockMessage
  <2>2. blocks = <<>>
    BY <1>6, <2>1, SelectedNone
  <2> HIDE DEF blocks
  <2>3. x = <<>>
    BY <1>9, <2>2
  <2> QED BY <1>8, <1>10, <2>3 DEF a
<1> QED BY <1>7, <1>8

LEMMA NumsWithAcks ==
    ASSUME NEW q \in Seq(UplineMessages), NEW id \in Cns, NEW T, NEW b \in Seq(T), NEW cn,
           NEW S, S \subseteq Numbers
    PROVE  Nums(q \o Acks(id, b), {"BACK"}, cn, S)
             = IF id = cn THEN Nums(q, {"BACK"}, cn, S) \o Selected(b, S) ELSE Nums(q, {"BACK"}, cn, S)
<1> DEFINE a == Acks(id, b)
<1>1. a \in Seq(UplineMessages)
  BY AcksAreMessages
<1>2. Nums(a, {"BACK"}, cn, S) = IF id = cn THEN Selected(b, S) ELSE <<>>
  BY NumsOfAcks
<1> HIDE DEF a
<1>3. Nums(q \o a, {"BACK"}, cn, S) = Nums(q, {"BACK"}, cn, S) \o Nums(a, {"BACK"}, cn, S)
  BY <1>1, NumsOfConcat
<1>4. Nums(q, {"BACK"}, cn, S) \o <<>> = Nums(q, {"BACK"}, cn, S)
  BY NumsIsSequence, ConcatEmptySeq
<1> QED BY <1>2, <1>3, <1>4 DEF a

-----------------------------------------------------------------------------
(* Breaks, their answers, and what tells the host that those are through.  *)

Break(cn)   == Msg("BREAK", cn, Nobody)
Answer(cn)  == Msg("MARK", cn, MarkNumber)
Through(cn) == Msg("BACK", cn, MarkNumber)
BreakUp(q, cn)   == Selected(q, {Break(cn), Through(cn)})
BreakDown(q, cn) == Selected(q, {Answer(cn)})

LEMMA MessagesEqual ==
    ASSUME NEW k, NEW i, NEW n, NEW l, NEW j, NEW o
    PROVE  Msg(k, i, n) = Msg(l, j, o) <=> k = l /\ i = j /\ n = o
  BY DEF Msg

LEMMA BreakWithAcks ==
    ASSUME NEW q \in Seq(UplineMessages), NEW id \in Cns, NEW b \in Seq(OutputBuffers), NEW cn
    PROVE  BreakUp(q \o Acks(id, b), cn) = BreakUp(q, cn)
<1> DEFINE numbered == Selected(b, Numbers)
           a == Acks(id, b)
           S == {Break(cn), Through(cn)}
<1>1. numbered \in Seq(1 .. Window)
  <2>1. numbered \in Seq(Numbers \cap OutputBuffers)
    BY SelectedIsSequence
  <2>2. Numbers \cap OutputBuffers = 1 .. Window
    BY NumbersAreThese DEF OutputBuffers
  <2> QED BY <2>1, <2>2
<1>2. a = [i \in DOMAIN numbered |-> Msg("BACK", id, numbered[i])]
  BY DEF Acks
<1>3. a \in Seq(UplineMessages)
  BY AcksAreMessages
<1> HIDE DEF numbered, a
<1>4. \A i \in DOMAIN a : a[i] \notin S
  <2> TAKE i \in DOMAIN a
  <2>1. i \in DOMAIN numbered /\ a[i] = Msg("BACK", id, numbered[i])
    BY <1>2
  <2>2. numbered[i] \in 1 .. Window /\ MarkNumber \notin 1 .. Window
    BY <1>1, <2>1, NumbersAreThese
  <2>3. numbered[i] # MarkNumber
    BY <2>2
  <2> QED BY <2>1, <2>3, MessagesEqual DEF Break, Through
<1> HIDE DEF S
<1>5. Selected(a, S) = <<>>
  BY <1>3, <1>4, SelectedNone
<1>6. Selected(q \o a, S) = Selected(q, S) \o Selected(a, S)
  BY <1>3, SelectedOfConcat
<1>7. Selected(q, S) \o <<>> = Selected(q, S)
  BY SelectedIsSequence, ConcatEmptySeq
<1> QED BY <1>5, <1>6, <1>7 DEF BreakUp, a, S

-----------------------------------------------------------------------------
(* The blocks of a connection, from the host through the NPU and back.     *)

Data  == 1 .. Window
Marks == {MarkNumber}

InOrder(cn, S, up, down, out, un) ==
    Nums(up, {"BACK"}, cn, S) \o Selected(out, S) \o Nums(down, {"MSG", "MARK"}, cn, S)
        = Selected(un, S)

\* What is on the way about breaks: up, down, what the host waits for, and whether the
\* terminal may send no other.
BreakPhases(b, m, k, n) ==
    { << <<>>, <<>>, <<>>, FALSE >>, << <<>>, <<>>, <<>>, TRUE >>,
      << <<b>>, <<>>, <<>>, TRUE >>, << <<>>, <<k>>, <<n>>, TRUE >>,
      << <<m>>, <<>>, <<n>>, FALSE >>, << <<m, b>>, <<>>, <<n>>, TRUE >> }

BreakFlow(cn, up, down, un, bp) ==
    << BreakUp(up, cn), BreakDown(down, cn), Selected(un, Marks), bp >>
        \in BreakPhases(Break(cn), Through(cn), Answer(cn), MarkNumber)

Flows(cn, up, down, out, un, bp, settled) ==
    /\ BreakFlow(cn, up, down, un, bp)
    /\ InOrder(cn, Marks, up, down, out, un)
    /\ settled => InOrder(cn, Data, up, down, out, un)

LEMMA NumberSets ==
    /\ Data \subseteq Numbers /\ Marks \subseteq Numbers
    /\ Data \subseteq OutputBuffers /\ Marks \cap OutputBuffers = {}
    /\ Numbers = Data \cup Marks /\ Data \cap Marks = {} /\ MarkNumber \notin Data
    /\ Nobody \notin Data /\ Nobody \notin Marks /\ MarkNumber \in Numbers
  BY NumbersAreThese DEF Data, Marks, OutputBuffers

\* An output queue holds no mark.
LEMMA NoMarkInOutput ==
    ASSUME NEW out \in Seq(OutputBuffers)
    PROVE  Selected(out, Marks) = <<>>
<1>1. \A i \in DOMAIN out : out[i] \notin Marks
  BY NumberSets
<1> QED BY <1>1, SelectedNone

LEMMA NumbersAssociate ==
    \A a, b, c \in Seq(Numbers) : (a \o b) \o c = a \o (b \o c)
<1> TAKE a, b, c \in Seq(Numbers)
<1> QED BY ConcatAssociative

LEMMA AppendedToOne ==
    ASSUME NEW m, NEW b
    PROVE  Append(<<m>>, b) = <<m, b>>
<1> DEFINE T == {m, b}
<1>1. ASSUME NEW s \in Seq(T), NEW r \in Seq(T), Len(r) = Len(s) + 1, r[Len(s) + 1] = b,
             \A i \in 1 .. Len(s) : r[i] = s[i]
      PROVE  Append(s, b) = r
  <2>1. b \in T
    OBVIOUS
  <2> HIDE DEF T
  <2>2. /\ Append(s, b) \in Seq(T) /\ Len(Append(s, b)) = Len(s) + 1
        /\ \A i \in 1 .. Len(s) : Append(s, b)[i] = s[i]
        /\ Append(s, b)[Len(s) + 1] = b
    BY <2>1, AppendProperties
  <2>3. \A i \in 1 .. Len(r) : i \in 1 .. Len(s) \/ i = Len(s) + 1
    BY <1>1
  <2>4. \A i \in 1 .. Len(r) : Append(s, b)[i] = r[i]
    BY <1>1, <2>2, <2>3
  <2> QED BY <1>1, <2>2, <2>4, SeqEqual
<1>2. /\ <<m>> \in Seq(T) /\ <<m, b>> \in Seq(T) /\ Len(<<m, b>>) = Len(<<m>>) + 1
      /\ <<m, b>>[Len(<<m>>) + 1] = b /\ \A i \in 1 .. Len(<<m>>) : <<m, b>>[i] = <<m>>[i]
  OBVIOUS
<1> HIDE DEF T
<1> QED BY <1>1, <1>2, Zenon

\* Two ways to join the same pieces: what moves from one place to the next stays where
\* it was in the whole.
SameOutput(u, o, e, d) == (u \o o) \o (e \o d) = (u \o (o \o e)) \o d
SameUpline(u, e, o, d) == (u \o (e \o o)) \o d = ((u \o e) \o o) \o d
SameBehind(u, o, d, e) == (u \o o) \o (d \o e) = ((u \o o) \o d) \o e
SameAhead(e, u, o, d)  == ((e \o u) \o o) \o d = e \o ((u \o o) \o d)
SamePast(u, o, e, d)   == (u \o o) \o (e \o d) = ((u \o e) \o o) \o d

LEMMA MovesIntoOutput == \A u, o, e, d \in Seq(Numbers) : SameOutput(u, o, e, d)
<1> TAKE u, o, e, d \in Seq(Numbers)
<1> DEFINE uo == u \o o
<1>1. uo \o e = u \o (o \o e)
  BY NumbersAssociate, SMTT(60)
<1>2. uo \in Seq(Numbers)
  BY ConcatProperties
<1> HIDE DEF uo
<1>3. (uo \o e) \o d = uo \o (e \o d)
  BY <1>2, NumbersAssociate
<1>4. uo \o (e \o d) = (u \o (o \o e)) \o d
  BY <1>1, <1>3
<1> QED BY <1>4 DEF uo, SameOutput

LEMMA MovesUpline == \A u, e, o, d \in Seq(Numbers) : SameUpline(u, e, o, d)
<1> TAKE u, e, o, d \in Seq(Numbers)
<1>1. (u \o e) \o o = u \o (e \o o)
  BY NumbersAssociate
<1> QED BY <1>1 DEF SameUpline

LEMMA MovesBehind == \A u, o, d, e \in Seq(Numbers) : SameBehind(u, o, d, e)
<1> TAKE u, o, d, e \in Seq(Numbers)
<1> DEFINE uo == u \o o
<1>1. uo \in Seq(Numbers)
  BY ConcatProperties
<1> HIDE DEF uo
<1>2. uo \o (d \o e) = (uo \o d) \o e
  BY <1>1, NumbersAssociate
<1> QED BY <1>2 DEF uo, SameBehind

LEMMA MovesAhead == \A e, u, o, d \in Seq(Numbers) : SameAhead(e, u, o, d)
<1> TAKE e, u, o, d \in Seq(Numbers)
<1> DEFINE uo == u \o o
<1>1. (e \o u) \o o = e \o uo
  BY NumbersAssociate, SMTT(60)
<1>2. uo \in Seq(Numbers)
  BY ConcatProperties
<1> HIDE DEF uo
<1>3. (e \o uo) \o d = e \o (uo \o d)
  BY <1>2, NumbersAssociate, ZenonT(60)
<1>4. ((e \o u) \o o) \o d = e \o (uo \o d)
  BY <1>1, <1>3
<1> QED BY <1>4 DEF uo, SameAhead

LEMMA MovesPastOutput ==
    \A u, o, e, d \in Seq(Numbers) : e = <<>> \/ o = <<>> => SamePast(u, o, e, d)
<1> TAKE u, o, e, d \in Seq(Numbers)
<1>1. SUFFICES ASSUME e = <<>> \/ o = <<>> PROVE SamePast(u, o, e, d)
  OBVIOUS
<1> DEFINE uo == u \o o
<1>0. uo \in Seq(Numbers)
  BY ConcatProperties
<1>2. uo \in Seq(Numbers) /\ u \o e \in Seq(Numbers)
  BY ConcatProperties
<1>3. uo \o e = (u \o e) \o o
  <2>1. CASE e = <<>>
    <3>1. uo \o <<>> = uo /\ u \o <<>> = u
      BY <1>2, ConcatEmptySeq
    <3> QED BY <2>1, <3>1
  <2>2. CASE o = <<>>
    <3>1. (u \o e) \o <<>> = u \o e /\ u \o <<>> = u
      BY <1>2, ConcatEmptySeq
    <3> QED BY <2>2, <3>1
  <2> QED BY <1>1, <2>1, <2>2
<1> HIDE DEF uo
<1>4. (uo \o e) \o d = uo \o (e \o d)
  BY <1>0, NumbersAssociate
<1>5. uo \o (e \o d) = ((u \o e) \o o) \o d
  BY <1>3, <1>4
<1> QED BY <1>5 DEF uo, SamePast

\* The steps of a break.
LEMMA BreakSteps ==
    ASSUME NEW b, NEW m, NEW k, NEW n, NEW x, NEW y, NEW z, NEW p, b # m,
           <<x, y, z, p>> \in BreakPhases(b, m, k, n)
    PROVE  /\ ~p => << Append(x, b), y, z, TRUE >> \in BreakPhases(b, m, k, n)
           /\ y # <<>> => << Append(x, m), Tail(y), z, FALSE >> \in BreakPhases(b, m, k, n)
           /\ x # <<>> /\ Head(x) = b =>
                /\ << Tail(x), y, z, p >> \in BreakPhases(b, m, k, n)
                /\ << Tail(x), Append(y, k), Append(z, n), p >> \in BreakPhases(b, m, k, n)
                /\ z = <<>>
           /\ x # <<>> /\ Head(x) = m =>
                /\ << Tail(x), y, <<>>, p >> \in BreakPhases(b, m, k, n)
                /\ z = <<n>>
<1>1. /\ Append(<<>>, b) = <<b>> /\ Append(<<m>>, b) = <<m, b>> /\ Append(<<>>, m) = <<m>>
      /\ Append(<<>>, k) = <<k>> /\ Append(<<>>, n) = <<n>>
      /\ Tail(<<k>>) = <<>> /\ Tail(<<b>>) = <<>> /\ Tail(<<m>>) = <<>> /\ Tail(<<m, b>>) = <<b>>
      /\ Head(<<b>>) = b /\ Head(<<m>>) = m /\ Head(<<m, b>>) = m
  <2>1. \A e : Append(<<>>, e) = <<e>> /\ Tail(<<e>>) = <<>> /\ Head(<<e>>) = e
    OBVIOUS
  <2>2. Append(<<m>>, b) = <<m, b>>
    BY AppendedToOne
  <2>3. Tail(<<m, b>>) = <<b>> /\ Head(<<m, b>>) = m
    OBVIOUS
  <2> QED BY <2>1, <2>2, <2>3
<1>2. \/ x = <<>> /\ y = <<>> /\ z = <<>> /\ p \in BOOLEAN
      \/ x = <<b>> /\ y = <<>> /\ z = <<>> /\ p = TRUE
      \/ x = <<>> /\ y = <<k>> /\ z = <<n>> /\ p = TRUE
      \/ x = <<m>> /\ y = <<>> /\ z = <<n>> /\ p = FALSE
      \/ x = <<m, b>> /\ y = <<>> /\ z = <<n>> /\ p = TRUE
  BY DEF BreakPhases
<1>3. CASE x = <<>> /\ y = <<>> /\ z = <<>> /\ p \in BOOLEAN
  BY <1>1, <1>3 DEF BreakPhases
<1>4. CASE x = <<b>> /\ y = <<>> /\ z = <<>> /\ p = TRUE
  BY <1>1, <1>4 DEF BreakPhases
<1>5. CASE x = <<>> /\ y = <<k>> /\ z = <<n>> /\ p = TRUE
  BY <1>1, <1>5 DEF BreakPhases
<1>6. CASE x = <<m>> /\ y = <<>> /\ z = <<n>> /\ p = FALSE
  BY <1>1, <1>6 DEF BreakPhases
<1>7. CASE x = <<m, b>> /\ y = <<>> /\ z = <<n>> /\ p = TRUE
  BY <1>1, <1>7 DEF BreakPhases
<1> QED BY <1>2, <1>3, <1>4, <1>5, <1>6, <1>7

AnswerPhases(b, m, k, n, x, y, z, p) ==
    /\ << Tail(x), y, z, p >> \in BreakPhases(b, m, k, n)
    /\ << Tail(x), Append(y, k), Append(z, n), p >> \in BreakPhases(b, m, k, n)
    /\ z = <<>>

LEMMA BreakTaken ==
    \A b, m, k, n, x, y, z, p :
        b # m /\ <<x, y, z, p>> \in BreakPhases(b, m, k, n) /\ x # <<>> /\ Head(x) = b
        => AnswerPhases(b, m, k, n, x, y, z, p)
<1> SUFFICES ASSUME NEW b, NEW m, NEW k, NEW n, NEW x, NEW y, NEW z, NEW p, b # m,
                    <<x, y, z, p>> \in BreakPhases(b, m, k, n), x # <<>>, Head(x) = b
             PROVE  AnswerPhases(b, m, k, n, x, y, z, p)
  OBVIOUS
<1>1. << Tail(x), y, z, p >> \in BreakPhases(b, m, k, n)
  BY BreakSteps
<1>2. << Tail(x), Append(y, k), Append(z, n), p >> \in BreakPhases(b, m, k, n)
  BY BreakSteps
<1>3. z = <<>>
  <2>1. Head(<<m>>) = m /\ Head(<<m, b>>) = m
    OBVIOUS
  <2> QED BY <2>1 DEF BreakPhases
<1> QED BY <1>1, <1>2, <1>3 DEF AnswerPhases

\* Queue r has the blocks of queue q, and its messages about breaks.
SameUp(q, r, cn) ==
    /\ \A S : S \subseteq Numbers => Nums(r, {"BACK"}, cn, S) = Nums(q, {"BACK"}, cn, S)
    /\ BreakUp(r, cn) = BreakUp(q, cn)

SameDown(q, r, cn) ==
    /\ \A S : S \subseteq Numbers =>
          Nums(r, {"MSG", "MARK"}, cn, S) = Nums(q, {"MSG", "MARK"}, cn, S)
    /\ BreakDown(r, cn) = BreakDown(q, cn)

LEMMA AppendedUp ==
    ASSUME NEW q \in Seq(UplineMessages), NEW kind, NEW id, NEW n,
           Msg(kind, id, n) \in UplineMessages, NEW cn, kind \notin {"BACK", "BREAK"} \/ id # cn
    PROVE  SameUp(q, Append(q, Msg(kind, id, n)), cn)
<1>1. Msg(kind, id, n) \notin {Break(cn), Through(cn)}
  BY MessagesEqual DEF Break, Through
<1>2. BreakUp(Append(q, Msg(kind, id, n)), cn) = BreakUp(q, cn)
  BY <1>1, SelectedOfAppend DEF BreakUp
<1>3. ASSUME NEW S, S \subseteq Numbers
      PROVE  Nums(Append(q, Msg(kind, id, n)), {"BACK"}, cn, S) = Nums(q, {"BACK"}, cn, S)
  BY <1>3, NumsOfAppend
<1> QED BY <1>2, <1>3 DEF SameUp

LEMMA AppendedDown ==
    ASSUME NEW q \in Seq(DownlineMessages), NEW kind, NEW id, NEW n,
           Msg(kind, id, n) \in DownlineMessages, NEW cn, kind \notin {"MSG", "MARK"} \/ id # cn
    PROVE  SameDown(q, Append(q, Msg(kind, id, n)), cn)
<1>1. Msg(kind, id, n) \notin {Answer(cn)}
  BY MessagesEqual DEF Answer
<1>2. BreakDown(Append(q, Msg(kind, id, n)), cn) = BreakDown(q, cn)
  BY <1>1, SelectedOfAppend DEF BreakDown
<1>3. ASSUME NEW S, S \subseteq Numbers
      PROVE  Nums(Append(q, Msg(kind, id, n)), {"MSG", "MARK"}, cn, S) = Nums(q, {"MSG", "MARK"}, cn, S)
  BY <1>3, NumsOfAppend
<1> QED BY <1>2, <1>3 DEF SameDown

LEMMA TakenUp ==
    ASSUME NEW q \in Seq(UplineMessages), q # <<>>, NEW cn,
           Head(q).kind \notin {"BACK", "BREAK"} \/ Head(q).id # cn
    PROVE  SameUp(q, Tail(q), cn)
<1>1. Head(q) = Msg(Head(q).kind, Head(q).id, Head(q).bsn)
  BY AMessage
<1>2. Head(q) \notin {Break(cn), Through(cn)}
  BY <1>1, MessagesEqual DEF Break, Through
<1>3. BreakUp(Tail(q), cn) = BreakUp(q, cn)
  BY <1>2, SelectedOfTail DEF BreakUp
<1>4. ASSUME NEW S, S \subseteq Numbers
      PROVE  Nums(Tail(q), {"BACK"}, cn, S) = Nums(q, {"BACK"}, cn, S)
  BY <1>4, NumsOfTail
<1> QED BY <1>3, <1>4 DEF SameUp

LEMMA TakenDown ==
    ASSUME NEW q \in Seq(DownlineMessages), q # <<>>, NEW cn,
           Head(q).kind \notin {"MSG", "MARK"} \/ Head(q).id # cn
    PROVE  SameDown(q, Tail(q), cn)
<1>1. Head(q) = Msg(Head(q).kind, Head(q).id, Head(q).bsn)
  BY AMessage
<1>2. Head(q) \notin {Answer(cn)}
  BY <1>1, MessagesEqual DEF Answer
<1>3. BreakDown(Tail(q), cn) = BreakDown(q, cn)
  BY <1>2, SelectedOfTail DEF BreakDown
<1>4. ASSUME NEW S, S \subseteq Numbers
      PROVE  Nums(Tail(q), {"MSG", "MARK"}, cn, S) = Nums(q, {"MSG", "MARK"}, cn, S)
  BY <1>4, NumsOfTail
<1> QED BY <1>3, <1>4 DEF SameDown

LEMMA AcksUp ==
    ASSUME NEW q \in Seq(UplineMessages), NEW id \in Cns, NEW b \in Seq(OutputBuffers), NEW cn,
           id # cn
    PROVE  SameUp(q, q \o Acks(id, b), cn)
<1>1. ASSUME NEW S, S \subseteq Numbers
      PROVE  Nums(q \o Acks(id, b), {"BACK"}, cn, S) = Nums(q, {"BACK"}, cn, S)
  BY <1>1, NumsWithAcks
<1> QED BY <1>1, BreakWithAcks DEF SameUp

LEMMA SameItself ==
    ASSUME NEW q, NEW cn
    PROVE  SameUp(q, q, cn) /\ SameDown(q, q, cn)
  BY DEF SameUp, SameDown

LEMMA SameUpThen ==
    ASSUME NEW q, NEW r, NEW s, NEW cn, SameUp(q, r, cn), SameUp(r, s, cn)
    PROVE  SameUp(q, s, cn)
  BY DEF SameUp

-----------------------------------------------------------------------------
(* What happens to the blocks of a connection.                             *)

LEMMA FlowStays ==
    ASSUME NEW cn, NEW up, NEW down, NEW out \in Seq(OutputBuffers), NEW un, NEW bp, NEW settled,
           Flows(cn, up, down, out, un, bp, settled),
           NEW up2, NEW down2, NEW out2 \in Seq(OutputBuffers), NEW settled2,
           SameUp(up, up2, cn), SameDown(down, down2, cn),
           settled2 => settled /\ Selected(out2, Data) = Selected(out, Data)
    PROVE  Flows(cn, up2, down2, out2, un, bp, settled2)
<1>1. BreakFlow(cn, up2, down2, un, bp)
  BY DEF Flows, BreakFlow, SameUp, SameDown
<1>2. InOrder(cn, Marks, up2, down2, out2, un)
  BY NumberSets, NoMarkInOutput DEF Flows, InOrder, SameUp, SameDown
<1>3. settled2 => InOrder(cn, Data, up2, down2, out2, un)
  BY NumberSets DEF Flows, InOrder, SameUp, SameDown
<1> QED BY <1>1, <1>2, <1>3 DEF Flows

LEMMA SequencesOf ==
    ASSUME NEW up \in Seq(UplineMessages), NEW down \in Seq(DownlineMessages),
           NEW out \in Seq(OutputBuffers), NEW cn, NEW S, S \subseteq Numbers
    PROVE  /\ Nums(up, {"BACK"}, cn, S) \in Seq(Numbers)
           /\ Selected(out, S) \in Seq(Numbers)
           /\ Nums(down, {"MSG", "MARK"}, cn, S) \in Seq(Numbers)
<1>1. Selected(out, S) \in Seq(S \cap OutputBuffers) /\ S \cap OutputBuffers \subseteq Numbers
  BY SelectedIsSequence
<1>2. Selected(out, S) \in Seq(Numbers)
  BY <1>1, SeqMonotonic
<1> QED BY <1>2, NumsIsSequence

\* The first buffers a of the output queue are through.
LEMMA FlowAcked ==
    ASSUME NEW cn \in Cns, NEW up \in Seq(UplineMessages), NEW down \in Seq(DownlineMessages),
           NEW a \in Seq(OutputBuffers), NEW b \in Seq(OutputBuffers), NEW un, NEW bp, NEW settled,
           Flows(cn, up, down, a \o b, un, bp, settled)
    PROVE  Flows(cn, up \o Acks(cn, a), down, b, un, bp, settled)
<1>1. BreakFlow(cn, up \o Acks(cn, a), down, un, bp)
  BY BreakWithAcks, ZenonT(60) DEF Flows, BreakFlow
<1>2. ASSUME NEW S, S \subseteq Numbers, InOrder(cn, S, up, down, a \o b, un)
      PROVE  InOrder(cn, S, up \o Acks(cn, a), down, b, un)
  <2> DEFINE u == Nums(up, {"BACK"}, cn, S)
             d == Nums(down, {"MSG", "MARK"}, cn, S)
             e == Selected(a, S)
             o == Selected(b, S)
  <2>1. u \in Seq(Numbers) /\ d \in Seq(Numbers) /\ e \in Seq(Numbers) /\ o \in Seq(Numbers)
    BY <1>2, SequencesOf
  <2>2. Nums(up \o Acks(cn, a), {"BACK"}, cn, S) = u \o e
    BY <1>2, NumsWithAcks
  <2>3. Selected(a \o b, S) = e \o o
    BY SelectedOfConcat
  <2>4. (u \o (e \o o)) \o d = Selected(un, S)
    BY <1>2, <2>3 DEF InOrder
  <2> HIDE DEF u, d, e, o
  <2>6. SameUpline(u, e, o, d)
    BY <2>1, MovesUpline
  <2>5. (u \o (e \o o)) \o d = ((u \o e) \o o) \o d
    BY <2>6 DEF SameUpline
  <2> QED BY <2>2, <2>4, <2>5 DEF InOrder, d, o
<1> QED BY <1>1, <1>2, NumberSets DEF Flows

LEMMA QueueOutputSame ==
    ASSUME NEW q \in Seq(OutputBuffers), NEW n \in Data, NEW S, S \subseteq Numbers
    PROVE  /\ Selected(QueueOutput(q), S) = Selected(q, S)
           /\ Selected(QueueAck(q, n), S) = Selected(q, S) \o Piece(n, S)
<1> DEFINE r == QueueOutput(q)
           l == Len(r)
           f == SubSeq(r, 1, l - 1)
<1>0. Nobody \notin S /\ Nobody \in OutputBuffers /\ n \in OutputBuffers
  BY NumbersAreThese, NumberSets DEF OutputBuffers, Data
<1>1. r \in Seq(OutputBuffers) /\ r # <<>>
  BY <1>0 DEF QueueOutput
<1>2. Selected(r, S) = Selected(q, S)
  BY <1>0, SelectedOfAppend DEF QueueOutput
<1>3. r[l] = Nobody
  <2>1. CASE q # <<>> /\ Last(q) = Nobody
    BY <2>1 DEF QueueOutput, Last
  <2>2. CASE ~(q # <<>> /\ Last(q) = Nobody)
    BY <1>0, <2>2 DEF QueueOutput
  <2> QED BY <2>1, <2>2
<1>4. QueueAck(q, n) = [r EXCEPT ![l] = n]
  BY DEF QueueAck
<1> HIDE DEF r
<1>6. l \in Nat \ {0} /\ DOMAIN r = 1 .. l
  BY <1>1
<1>5. f \in Seq(OutputBuffers) /\ Len(f) = l - 1 /\ \A i \in 1 .. l - 1 : f[i] = r[i]
  <2>1. l - 1 \in 0 .. l /\ l = Len(r)
    BY <1>6
  <2> HIDE DEF l
  <2>2. 1 \in 1 .. Len(r) + 1 /\ l - 1 \in 1 - 1 .. Len(r) /\ l - 1 - 1 + 1 = l - 1
    BY <1>6, <2>1
  <2> QED BY <1>1, <1>6, <2>1, <2>2, SubSeqProperties
<1> HIDE DEF f
<1>7. r = Append(f, Nobody)
  <2> DEFINE g == Append(f, Nobody)
  <2>1. g \in Seq(OutputBuffers) /\ Len(g) = l
    BY <1>0, <1>5, <1>6
  <2>2. \A i \in 1 .. l : g[i] = r[i]
    BY <1>3, <1>5, <1>6
  <2> HIDE DEF g
  <2>3. r = g
    BY <1>1, <2>1, <2>2, SeqEqual
  <2> QED BY <2>3 DEF g
<1>8. [r EXCEPT ![l] = n] = Append(f, n)
  <2> DEFINE g == Append(f, n)
             h == [r EXCEPT ![l] = n]
  <2>1. g \in Seq(OutputBuffers) /\ Len(g) = l
    BY <1>0, <1>5, <1>6
  <2>2. h \in Seq(OutputBuffers) /\ Len(h) = l /\ \A i \in 1 .. l : h[i] = IF i = l THEN n ELSE r[i]
    BY <1>0, <1>1, <1>6, ExceptSeq
  <2>3. \A i \in 1 .. l : g[i] = h[i]
    BY <1>5, <1>6, <2>2
  <2> HIDE DEF g, h
  <2>4. h = g
    BY <2>1, <2>2, <2>3, SeqEqual
  <2> QED BY <2>4 DEF g, h
<1>9. Selected(f, S) = Selected(q, S)
  <2>1. Selected(Append(f, Nobody), S) = Selected(f, S)
    BY <1>0, <1>5, SelectedOfAppend
  <2> QED BY <1>2, <1>7, <2>1 DEF r
<1>10. Selected(Append(f, n), S) = IF n \in S THEN Append(Selected(f, S), n) ELSE Selected(f, S)
  BY <1>0, <1>5, SelectedOfAppend
<1>11. Selected(f, S) \in Seq(OutputBuffers)
  BY <1>5, SelectedIsSequence
<1>12. Selected(Append(f, n), S) = Selected(f, S) \o Piece(n, S)
  <2> DEFINE x == Selected(f, S)
  <2>1. x \in Seq(OutputBuffers)
    BY <1>11
  <2>2. x \o <<>> = x /\ Append(x, n) = x \o <<n>>
    BY <1>0, <2>1, ConcatEmptySeq, AppendIsConcat
  <2> QED BY <1>10, <2>2 DEF Piece
<1> QED BY <1>2, <1>4, <1>8, <1>9, <1>12 DEF r

LEMMA QueueOutputIs ==
    ASSUME NEW q \in Seq(OutputBuffers)
    PROVE  QueueOutput(q) \in Seq(OutputBuffers)
  BY DEF QueueOutput, OutputBuffers

LEMMA QueueOutputAny ==
    ASSUME NEW q \in Seq(OutputBuffers), NEW S, S \subseteq Numbers
    PROVE  Selected(QueueOutput(q), S) = Selected(q, S)
<1>1. 1 \in Data
  BY NumbersAreThese, WindowAssumption DEF Data
<1> QED BY <1>1, QueueOutputSame

\* All of the output is through.
LEMMA FlowEmptied ==
    ASSUME NEW cn \in Cns, NEW up \in Seq(UplineMessages), NEW down \in Seq(DownlineMessages),
           NEW out \in Seq(OutputBuffers), NEW un, NEW bp, NEW settled,
           Flows(cn, up, down, out, un, bp, settled)
    PROVE  Flows(cn, up \o Acks(cn, out), down, <<>>, un, bp, settled)
<1>1. out \o <<>> = out /\ <<>> \in Seq(OutputBuffers)
  BY ConcatEmptySeq
<1>2. Flows(cn, up, down, out \o <<>>, un, bp, settled)
  BY <1>1
<1> QED BY <1>1, <1>2, FlowAcked

\* Whatever is first in the order.
LEMMA FirstAndRest ==
    ASSUME NEW T, NEW n \in T, NEW t \in Seq(T)
    PROVE  <<n>> \o t # <<>> /\ Head(<<n>> \o t) = n /\ Tail(<<n>> \o t) = t
<1> DEFINE s == <<n>>
           r == s \o t
<1>1. s \in Seq(T) /\ Len(s) = 1 /\ s[1] = n
  OBVIOUS
<1> HIDE DEF s
<1>0. r \in Seq(T) /\ Len(r) = Len(s) + Len(t)
      /\ \A i \in 1 .. Len(s) + Len(t) : r[i] = IF i <= Len(s) THEN s[i] ELSE t[i - Len(s)]
  BY <1>1, ConcatProperties
<1>2. /\ r \in Seq(T) /\ Len(r) = 1 + Len(t)
      /\ \A i \in 1 .. Len(r) : r[i] = IF i <= 1 THEN s[i] ELSE t[i - 1]
  BY <1>0, <1>1
<1> HIDE DEF r
<1>3. r # <<>> /\ Len(t) \in Nat
  BY <1>2
<1>4. Head(r) = n
  BY <1>1, <1>2, <1>3
<1> DEFINE q == Tail(r)
<1>5. q \in Seq(T) /\ Len(q) = Len(t) /\ \A i \in 1 .. Len(t) : q[i] = r[i + 1]
  BY <1>2, <1>3, HeadTailProperties
<1> HIDE DEF q
<1>6. \A i \in 1 .. Len(t) : q[i] = t[i]
  BY <1>2, <1>3, <1>5, SMTT(60)
<1>7. q = t
  BY <1>5, <1>6, SeqEqual
<1> QED BY <1>3, <1>4, <1>7 DEF q, r, s

LEMMA FirstLeaves ==
    ASSUME NEW un \in Seq(Numbers), NEW S, S \subseteq Numbers, NEW n \in S,
           NEW t \in Seq(Numbers), <<n>> \o t = Selected(un, S),
           Selected(un, {n}) \in {<<>>, <<n>>}
    PROVE  t = Selected(un, S \ {n})
<1> DEFINE w == Selected(un, S)
<1>1. w \in Seq(S)
  <2>1. w \in Seq(S \cap Numbers) /\ S \cap Numbers = S
    BY SelectedIsSequence
  <2> QED BY <2>1
<1>2. Selected(w, {n}) = Selected(un, {n}) /\ Selected(w, S \ {n}) = Selected(un, S \ {n})
  <2>1. \A X : X \subseteq S => Selected(w, X) = Selected(un, X)
    BY SelectedOfSelected
  <2> QED BY <2>1
<1>3. w # <<>> /\ Head(w) = n /\ Tail(w) = t
  BY FirstAndRest
<1> HIDE DEF w
<1>4. t \in Seq(S)
  BY <1>1, <1>3, SMTT(60)
<1>5. Selected(w, {n}) = <<n>> \o Selected(t, {n})
  BY <1>1, <1>3, SelectedOfTail
<1>6. Selected(t, {n}) = <<>>
  <2> DEFINE v == Selected(t, {n})
  <2>1. v \in Seq(Numbers)
    BY SelectedIsSequence
  <2>2. <<n>> \o v # <<>> /\ Tail(<<n>> \o v) = v
    BY <2>1, FirstAndRest
  <2>3. <<n>> \o v \in {<<>>, <<n>>}
    BY <1>2, <1>5
  <2>4. Tail(<<n>>) = <<>>
    OBVIOUS
  <2> QED BY <2>2, <2>3, <2>4
<1>7. Selected(w, S \ {n}) = Selected(t, S \ {n})
  BY <1>1, <1>3, SelectedOfTail
<1>8. Selected(t, S \ {n}) = Selected(t, S) /\ Selected(t, S) = t
  BY <1>4, <1>6, SelectedWithout, SelectedAll, ZenonT(60)
<1> QED BY <1>2, <1>7, <1>8

-----------------------------------------------------------------------------
(* The order of the numbers of a connection as they move.                  *)

\* A block is sent.
LEMMA OrderSent ==
    ASSUME NEW cn \in Cns, NEW up \in Seq(UplineMessages), NEW down \in Seq(DownlineMessages),
           NEW out \in Seq(OutputBuffers), NEW un \in Seq(Numbers), NEW S, S \subseteq Numbers,
           InOrder(cn, S, up, down, out, un),
           NEW kind \in {"MSG", "MARK"}, NEW n \in Numbers, Msg(kind, cn, n) \in DownlineMessages
    PROVE  InOrder(cn, S, up, Append(down, Msg(kind, cn, n)), out, Append(un, n))
<1> DEFINE u == Nums(up, {"BACK"}, cn, S)
           o == Selected(out, S)
           d == Nums(down, {"MSG", "MARK"}, cn, S)
           e == Piece(n, S)
           w == Selected(un, S)
<1>1. u \in Seq(Numbers) /\ o \in Seq(Numbers) /\ d \in Seq(Numbers) /\ e \in Seq(Numbers)
  BY SequencesOf, PieceIsSequence
<1>2. Nums(Append(down, Msg(kind, cn, n)), {"MSG", "MARK"}, cn, S) = d \o e
  BY NumsOfAppend
<1>3. Selected(Append(un, n), S) = w \o e
  <2>1. Selected(Append(un, n), S) = IF n \in S THEN Append(w, n) ELSE w
    BY SelectedOfAppend
  <2>2. w \in Seq(Numbers)
    BY SelectedIsSequence
  <2> HIDE DEF w
  <2>3. Append(w, n) = w \o <<n>> /\ w \o <<>> = w
    BY <2>2, AppendIsConcat, ConcatEmptySeq
  <2> QED BY <2>1, <2>3 DEF Piece
<1>4. (u \o o) \o d = w
  BY DEF InOrder
<1> HIDE DEF u, o, d, e, w
<1>5. SameBehind(u, o, d, e)
  BY <1>1, MovesBehind
<1>6. (u \o o) \o (d \o e) = w \o e
  BY <1>4, <1>5 DEF SameBehind
<1> QED BY <1>2, <1>3, <1>6 DEF InOrder, u, o

\* A data block arrives and goes into the output queue.
LEMMA OrderArrives ==
    ASSUME NEW cn \in Cns, NEW up \in Seq(UplineMessages), NEW down \in Seq(DownlineMessages),
           NEW out \in Seq(OutputBuffers), NEW un, NEW S, S \subseteq Numbers,
           InOrder(cn, S, up, down, out, un),
           down # <<>>, Head(down).kind = "MSG", Head(down).id = cn
    PROVE  InOrder(cn, S, up, Tail(down), QueueAck(out, Head(down).bsn), un)
<1> DEFINE n == Head(down).bsn
           u == Nums(up, {"BACK"}, cn, S)
           o == Selected(out, S)
           d == Nums(Tail(down), {"MSG", "MARK"}, cn, S)
           e == Piece(n, S)
<1>0. n \in Data /\ n \in Numbers
  <2>1. Head(down) \in DownlineMessages
    OBVIOUS
  <2> QED BY <2>1, HeadBsn, NumberSets DEF Data
<1>1. u \in Seq(Numbers) /\ o \in Seq(Numbers) /\ d \in Seq(Numbers) /\ e \in Seq(Numbers)
  <2>1. Tail(down) \in Seq(DownlineMessages)
    OBVIOUS
  <2>2. d \in Seq(Numbers)
    BY <2>1, NumsIsSequence
  <2> QED BY <1>0, <2>2, SequencesOf, PieceIsSequence
<1>2. Nums(down, {"MSG", "MARK"}, cn, S) = e \o d
  BY NumsOfTail
<1>3. Selected(QueueAck(out, n), S) = o \o e
  BY <1>0, QueueOutputSame
<1>4. (u \o o) \o (e \o d) = Selected(un, S)
  BY <1>2 DEF InOrder
<1> HIDE DEF u, o, d, e
<1>5. SameOutput(u, o, e, d)
  BY <1>1, MovesIntoOutput
<1>6. (u \o (o \o e)) \o d = Selected(un, S)
  BY <1>4, <1>5 DEF SameOutput
<1> QED BY <1>3, <1>6 DEF InOrder, u, d

\* A block is acknowledged at once.
LEMMA OrderPasses ==
    ASSUME NEW cn \in Cns, NEW up \in Seq(UplineMessages), NEW down \in Seq(DownlineMessages),
           NEW out \in Seq(OutputBuffers), NEW un, NEW S, S \subseteq Numbers,
           InOrder(cn, S, up, down, out, un),
           down # <<>>, Head(down).kind \in {"MSG", "MARK"}, Head(down).id = cn,
           Head(down).bsn \notin S \/ Selected(out, S) = <<>>
    PROVE  InOrder(cn, S, Append(up, Msg("BACK", cn, Head(down).bsn)), Tail(down), out, un)
<1> DEFINE n == Head(down).bsn
           u == Nums(up, {"BACK"}, cn, S)
           o == Selected(out, S)
           d == Nums(Tail(down), {"MSG", "MARK"}, cn, S)
           e == Piece(n, S)
<1>0. n \in Numbers /\ Msg("BACK", cn, n) \in UplineMessages
  <2>1. Head(down) \in DownlineMessages
    OBVIOUS
  <2>2. n \in Numbers
    BY <2>1, HeadBsn, NumberSets DEF Data
  <2> QED BY <2>2 DEF Msg, UplineMessages
<1>1. u \in Seq(Numbers) /\ o \in Seq(Numbers) /\ d \in Seq(Numbers) /\ e \in Seq(Numbers)
  <2>1. Tail(down) \in Seq(DownlineMessages)
    OBVIOUS
  <2>2. d \in Seq(Numbers)
    BY <2>1, NumsIsSequence
  <2> QED BY <1>0, <2>2, SequencesOf, PieceIsSequence
<1>2. Nums(down, {"MSG", "MARK"}, cn, S) = e \o d
  BY NumsOfTail
<1>3. Nums(Append(up, Msg("BACK", cn, n)), {"BACK"}, cn, S) = u \o e
  BY <1>0, NumsOfAppend
<1>4. (u \o o) \o (e \o d) = Selected(un, S)
  BY <1>2 DEF InOrder
<1>5. e = <<>> \/ o = <<>>
  BY DEF Piece
<1> HIDE DEF u, o, d, e
<1>6. SamePast(u, o, e, d)
  BY <1>1, <1>5, MovesPastOutput
<1>7. ((u \o e) \o o) \o d = Selected(un, S)
  BY <1>4, <1>6 DEF SamePast
<1> QED BY <1>3, <1>7 DEF InOrder, o, d

\* The host gets an acknowledgement.
LEMMA OrderAcknowledged ==
    ASSUME NEW cn \in Cns, NEW up \in Seq(UplineMessages), NEW down \in Seq(DownlineMessages),
           NEW out \in Seq(OutputBuffers), NEW un \in Seq(Numbers), NEW S, S \subseteq Numbers,
           InOrder(cn, S, up, down, out, un),
           up # <<>>, Head(up).kind = "BACK", Head(up).id = cn, Head(up).bsn \in Numbers,
           Selected(un, {Head(up).bsn}) \in {<<>>, <<Head(up).bsn>>}
    PROVE  InOrder(cn, S, Tail(up), down, out, Selected(un, Numbers \ {Head(up).bsn}))
<1> DEFINE n == Head(up).bsn
           u == Nums(Tail(up), {"BACK"}, cn, S)
           o == Selected(out, S)
           d == Nums(down, {"MSG", "MARK"}, cn, S)
           e == Piece(n, S)
           t == (u \o o) \o d
<1>0. n \in Numbers
  OBVIOUS
<1>1. u \in Seq(Numbers) /\ o \in Seq(Numbers) /\ d \in Seq(Numbers) /\ e \in Seq(Numbers)
  <2>1. Tail(up) \in Seq(UplineMessages)
    OBVIOUS
  <2>2. u \in Seq(Numbers)
    BY <2>1, NumsIsSequence
  <2> QED BY <1>0, <2>2, SequencesOf, PieceIsSequence
<1>2. Nums(up, {"BACK"}, cn, S) = e \o u
  <2>1. Nums(up, {"BACK"}, cn, S)
          = IF Head(up).kind \in {"BACK"} /\ Head(up).id = cn
            THEN Piece(Head(up).bsn, S) \o Nums(Tail(up), {"BACK"}, cn, S)
            ELSE Nums(Tail(up), {"BACK"}, cn, S)
    BY NumsOfTail
  <2> QED BY <2>1
<1>3. Selected(Selected(un, Numbers \ {n}), S) = Selected(un, S \ {n})
  <2>1. Selected(Selected(un, Numbers \ {n}), S) = Selected(un, (Numbers \ {n}) \cap S)
    BY SelectedOfSelected
  <2>2. (Numbers \ {n}) \cap S = S \ {n}
    OBVIOUS
  <2> QED BY <2>1, <2>2
<1>4. ((e \o u) \o o) \o d = Selected(un, S)
  BY <1>2 DEF InOrder
<1>5. t \in Seq(Numbers)
  BY <1>1, ConcatProperties
<1>6. e \o t = Selected(un, S)
  <2> HIDE DEF u, o, d, e
  <2>1. SameAhead(e, u, o, d)
    BY <1>1, MovesAhead
  <2>2. ((e \o u) \o o) \o d = e \o ((u \o o) \o d)
    BY <2>1 DEF SameAhead
  <2> QED BY <1>4, <2>2 DEF t
<1>7. t = Selected(un, S \ {n})
  <2>1. CASE n \in S
    <3> HIDE DEF t
    <3>1. <<n>> \o t = Selected(un, S)
      BY <1>6, <2>1 DEF Piece
    <3> QED BY <1>5, <2>1, <3>1, FirstLeaves
  <2>2. CASE n \notin S
    <3> HIDE DEF t
    <3>1. e \o t = t
      BY <1>5, <2>2, ConcatEmptySeq DEF Piece
    <3>2. S \ {n} = S
      BY <2>2
    <3> QED BY <1>6, <3>1, <3>2
  <2> QED BY <2>1, <2>2
<1> QED BY <1>3, <1>7 DEF InOrder

LEMMA SelectedHead ==
    ASSUME NEW T, NEW s \in Seq(T), s # <<>>, NEW S
    PROVE  /\ Head(s) \in S => /\ Selected(s, S) # <<>> /\ Head(Selected(s, S)) = Head(s)
                               /\ Tail(Selected(s, S)) = Selected(Tail(s), S)
           /\ Head(s) \notin S => Selected(Tail(s), S) = Selected(s, S)
<1> DEFINE h == Head(s)
           t == Tail(s)
           r == Selected(t, S)
<1>1. h \in T /\ t \in Seq(T)
  OBVIOUS
<1>2. Selected(s, S) = IF h \in S THEN <<h>> \o r ELSE r
  BY SelectedOfTail
<1> HIDE DEF h, t
<1>3. r \in Seq(T)
  BY <1>1, SelectedIsSequence
<1> HIDE DEF r
<1>4. <<h>> \o r # <<>> /\ Head(<<h>> \o r) = h /\ Tail(<<h>> \o r) = r
  BY <1>1, <1>3, FirstAndRest
<1> QED BY <1>2, <1>4 DEF h, t, r

LEMMA HeadIs ==
    ASSUME NEW q, q \in Seq(UplineMessages) \/ q \in Seq(DownlineMessages), q # <<>>
    PROVE  /\ Head(q) = Msg(Head(q).kind, Head(q).id, Head(q).bsn)
           /\ q \in Seq(UplineMessages) => Tail(q) \in Seq(UplineMessages) /\ Head(q) \in UplineMessages
           /\ q \in Seq(DownlineMessages) => Tail(q) \in Seq(DownlineMessages)
                                             /\ Head(q) \in DownlineMessages
<1>1. /\ q \in Seq(UplineMessages) => Tail(q) \in Seq(UplineMessages) /\ Head(q) \in UplineMessages
      /\ q \in Seq(DownlineMessages) => Tail(q) \in Seq(DownlineMessages)
                                        /\ Head(q) \in DownlineMessages
  OBVIOUS
<1> QED BY <1>1, AMessage

\* Data arrives, and waits for output.
LEMMA FlowArrives ==
    ASSUME NEW cn \in Cns, NEW up \in Seq(UplineMessages), NEW down \in Seq(DownlineMessages),
           NEW out \in Seq(OutputBuffers), NEW un, NEW bp, NEW settled,
           Flows(cn, up, down, out, un, bp, settled),
           down # <<>>, Head(down).kind = "MSG", Head(down).id = cn
    PROVE  Flows(cn, up, Tail(down), QueueAck(out, Head(down).bsn), un, bp, settled)
<1>1. BreakDown(Tail(down), cn) = BreakDown(down, cn)
  <2>1. Head(down) # Answer(cn)
    BY HeadIs, MessagesEqual DEF Answer
  <2> QED BY <2>1, SelectedHead DEF BreakDown
<1>2. BreakFlow(cn, up, Tail(down), un, bp)
  BY <1>1 DEF Flows, BreakFlow
<1> QED BY <1>2, OrderArrives, NumberSets DEF Flows

\* Data for a connection that is ending is acknowledged and dropped.
LEMMA FlowRefused ==
    ASSUME NEW cn \in Cns, NEW up \in Seq(UplineMessages), NEW down \in Seq(DownlineMessages),
           NEW un, NEW bp, NEW settled, Flows(cn, up, down, <<>>, un, bp, settled),
           down # <<>>, Head(down).kind = "MSG", Head(down).id = cn
    PROVE  Flows(cn, Append(up, Msg("BACK", cn, Head(down).bsn)), Tail(down), <<>>, un, bp, settled)
<1> DEFINE n == Head(down).bsn
           m == Msg("BACK", cn, n)
<1>1. n \in Data /\ m \in UplineMessages
  <2>1. n \in Data
    BY HeadIs, HeadBsn DEF Data
  <2> QED BY <2>1, NumberSets DEF Msg, UplineMessages
<1>2. BreakDown(Tail(down), cn) = BreakDown(down, cn)
  <2>1. Head(down) # Answer(cn)
    BY HeadIs, MessagesEqual DEF Answer
  <2> QED BY <2>1, SelectedHead DEF BreakDown
<1>3. BreakUp(Append(up, m), cn) = BreakUp(up, cn)
  <2>1. m \notin {Break(cn), Through(cn)}
    BY <1>1, NumberSets, MessagesEqual DEF Break, Through
  <2> HIDE DEF m
  <2> QED BY <1>1, <2>1, SelectedOfAppend DEF BreakUp
<1>4. BreakFlow(cn, Append(up, m), Tail(down), un, bp)
  BY <1>2, <1>3 DEF Flows, BreakFlow
<1>5. \A S : Selected(<<>>, S) = <<>>
  BY SelectedOfEmpty
<1>6. <<>> \in Seq(OutputBuffers)
  OBVIOUS
<1>7. ASSUME NEW S, S \subseteq Numbers, InOrder(cn, S, up, down, <<>>, un)
      PROVE  InOrder(cn, S, Append(up, m), Tail(down), <<>>, un)
  BY <1>5, <1>6, <1>7, OrderPasses
<1> QED BY <1>4, <1>7, NumberSets DEF Flows

\* The answer to a break arrives.
LEMMA FlowMarked ==
    ASSUME NEW cn \in Cns, NEW up \in Seq(UplineMessages), NEW down \in Seq(DownlineMessages),
           NEW out \in Seq(OutputBuffers), NEW un, NEW bp, NEW settled,
           Flows(cn, up, down, out, un, bp, settled),
           down # <<>>, Head(down).kind = "MARK", Head(down).id = cn
    PROVE  Flows(cn, Append(up, Msg("BACK", cn, Head(down).bsn)), Tail(down), out, un, FALSE, settled)
<1> DEFINE m == Msg("BACK", cn, Head(down).bsn)
           x == BreakUp(up, cn)
           y == BreakDown(down, cn)
           z == Selected(un, Marks)
<1>0. Head(down).bsn = MarkNumber
  BY HeadIs, HeadBsn
<1>1. m = Through(cn) /\ m \in UplineMessages
  BY <1>0, NumberSets DEF Through, Msg, UplineMessages
<1>2. y # <<>> /\ Tail(y) = BreakDown(Tail(down), cn)
  <2>1. Head(down) = Answer(cn)
    BY <1>0, HeadIs DEF Answer
  <2> QED BY <2>1, SelectedHead DEF BreakDown
<1>3. BreakUp(Append(up, m), cn) = Append(x, Through(cn))
  BY <1>1, SelectedOfAppend DEF BreakUp
<1>4. BreakFlow(cn, Append(up, m), Tail(down), un, FALSE)
  <2>1. << x, y, z, bp >> \in BreakPhases(Break(cn), Through(cn), Answer(cn), MarkNumber)
    BY DEF Flows, BreakFlow
  <2>2. Break(cn) # Through(cn)
    BY MessagesEqual DEF Break, Through
  <2> HIDE DEF x, y, z
  <2>3. << Append(x, Through(cn)), Tail(y), z, FALSE >>
          \in BreakPhases(Break(cn), Through(cn), Answer(cn), MarkNumber)
    BY <1>2, <2>1, <2>2, BreakSteps
  <2> QED BY <1>2, <1>3, <2>3 DEF BreakFlow, z
<1>5. InOrder(cn, Marks, Append(up, m), Tail(down), out, un)
  <2>1. Selected(out, Marks) = <<>>
    BY NoMarkInOutput
  <2> QED BY <2>1, OrderPasses, NumberSets DEF Flows
<1>6. settled => InOrder(cn, Data, Append(up, m), Tail(down), out, un)
  BY <1>0, OrderPasses, NumberSets DEF Flows
<1> QED BY <1>4, <1>5, <1>6 DEF Flows

\* The terminal sends a break.
LEMMA FlowBreaks ==
    ASSUME NEW cn \in Cns, NEW up \in Seq(UplineMessages), NEW down, NEW out, NEW un, NEW settled,
           Flows(cn, up, down, out, un, FALSE, settled)
    PROVE  Flows(cn, Append(up, Message("BREAK", cn)), down, out, un, TRUE, settled)
<1> DEFINE m == Message("BREAK", cn)
           x == BreakUp(up, cn)
           y == BreakDown(down, cn)
           z == Selected(un, Marks)
<1>1. m = Break(cn) /\ m \in UplineMessages
  BY UplineKinds DEF Break, Message
<1>2. BreakUp(Append(up, m), cn) = Append(x, Break(cn))
  BY <1>1, SelectedOfAppend DEF BreakUp
<1>3. BreakFlow(cn, Append(up, m), down, un, TRUE)
  <2>1. << x, y, z, FALSE >> \in BreakPhases(Break(cn), Through(cn), Answer(cn), MarkNumber)
    BY DEF Flows, BreakFlow
  <2>2. Break(cn) # Through(cn)
    BY MessagesEqual DEF Break, Through
  <2> HIDE DEF x, y, z
  <2>3. << Append(x, Break(cn)), y, z, TRUE >>
          \in BreakPhases(Break(cn), Through(cn), Answer(cn), MarkNumber)
    BY <2>1, <2>2, BreakSteps
  <2> QED BY <1>2, <2>3 DEF BreakFlow, y, z
<1>4. ASSUME NEW S, S \subseteq Numbers
      PROVE  Nums(Append(up, m), {"BACK"}, cn, S) = Nums(up, {"BACK"}, cn, S)
  <2>1. m = Msg("BREAK", cn, Nobody)
    BY DEF Message
  <2> QED BY <1>1, <1>4, <2>1, NumsOfAppend
<1>5. ASSUME NEW S, S \subseteq Numbers, InOrder(cn, S, up, down, out, un)
      PROVE  InOrder(cn, S, Append(up, m), down, out, un)
  BY <1>4, <1>5 DEF InOrder
<1> QED BY <1>3, <1>5, NumberSets DEF Flows

\* Numbers are not used twice.
Distinct(un) == \A n \in Numbers : Selected(un, {n}) \in {<<>>, <<n>>}

LEMMA DistinctLess ==
    ASSUME NEW un \in Seq(Numbers), Distinct(un), NEW k
    PROVE  Distinct(Selected(un, Numbers \ {k}))
<1> DEFINE r == Selected(un, Numbers \ {k})
<1>1. ASSUME NEW n \in Numbers PROVE Selected(r, {n}) \in {<<>>, <<n>>}
  <2>1. Selected(r, {n}) = Selected(un, (Numbers \ {k}) \cap {n})
    BY SelectedOfSelected
  <2>2. CASE n = k
    <3>1. (Numbers \ {k}) \cap {n} = {}
      BY <2>2
    <3>2. Selected(un, {}) = <<>>
      BY SelectedNone
    <3> QED BY <2>1, <3>1, <3>2
  <2>3. CASE n # k
    <3>1. (Numbers \ {k}) \cap {n} = {n}
      BY <2>3
    <3> QED BY <2>1, <3>1 DEF Distinct
  <2> QED BY <2>2, <2>3
<1> QED BY <1>1 DEF Distinct

LEMMA DistinctMore ==
    ASSUME NEW un \in Seq(Numbers), Distinct(un), NEW k \in Numbers, Selected(un, {k}) = <<>>
    PROVE  Distinct(Append(un, k))
<1>1. ASSUME NEW n \in Numbers PROVE Selected(Append(un, k), {n}) \in {<<>>, <<n>>}
  <2>1. Selected(Append(un, k), {n}) = IF k \in {n} THEN Append(Selected(un, {n}), k)
                                       ELSE Selected(un, {n})
    BY SelectedOfAppend
  <2>2. CASE n = k
    <3>1. Append(<<>>, k) = <<k>>
      OBVIOUS
    <3> QED BY <2>1, <2>2, <3>1
  <2>3. CASE n # k
    BY <2>1, <2>3 DEF Distinct
  <2> QED BY <2>2, <2>3
<1> QED BY <1>1 DEF Distinct

LEMMA NotThere ==
    ASSUME NEW un \in Seq(Numbers), NEW n, n \notin ToSet(un)
    PROVE  Selected(un, {n}) = <<>>
<1>1. \A i \in DOMAIN un : un[i] \notin {n}
  BY DEF ToSet
<1> QED BY <1>1, SelectedNone

\* The host gets an acknowledgement.
LEMMA FlowAcknowledged ==
    ASSUME NEW cn \in Cns, NEW up \in Seq(UplineMessages), NEW down \in Seq(DownlineMessages),
           NEW out \in Seq(OutputBuffers), NEW un \in Seq(Numbers), NEW bp, NEW settled,
           Flows(cn, up, down, out, un, bp, settled), Distinct(un),
           up # <<>>, Head(up).kind = "BACK", Head(up).id = cn
    PROVE  Flows(cn, Tail(up), down, out, Selected(un, Numbers \ {Head(up).bsn}), bp, settled)
<1> DEFINE n == Head(up).bsn
           x == BreakUp(up, cn)
           y == BreakDown(down, cn)
           z == Selected(un, Marks)
           r == Selected(un, Numbers \ {n})
<1>0. n \in Numbers /\ Head(up) = Msg("BACK", cn, n)
  <2>1. Head(up) \in UplineMessages /\ Head(up) = Msg(Head(up).kind, Head(up).id, Head(up).bsn)
    BY HeadIs
  <2>2. n \in Numbers
    BY <2>1 DEF UplineMessages
  <2> QED BY <2>1, <2>2
<1>1. Selected(r, Marks) = Selected(un, Marks \ {n})
  <2>1. Selected(r, Marks) = Selected(un, (Numbers \ {n}) \cap Marks)
    BY SelectedOfSelected
  <2>2. (Numbers \ {n}) \cap Marks = Marks \ {n}
    BY NumberSets
  <2> QED BY <2>1, <2>2
<1>2. BreakFlow(cn, Tail(up), down, r, bp)
  <2>1. CASE n = MarkNumber
    <3>1. Selected(r, Marks) = <<>>
      <4>1. Marks \ {n} = {}
        BY <2>1 DEF Marks
      <4>2. Selected(un, {}) = <<>>
        BY SelectedNone
      <4> QED BY <1>1, <4>1, <4>2
    <3>2. x # <<>> /\ Head(x) = Through(cn) /\ Tail(x) = BreakUp(Tail(up), cn)
      <4>1. Head(up) = Through(cn)
        BY <1>0, <2>1 DEF Through
      <4> QED BY <4>1, SelectedHead DEF BreakUp
    <3>3. << x, y, z, bp >> \in BreakPhases(Break(cn), Through(cn), Answer(cn), MarkNumber)
      BY DEF Flows, BreakFlow
    <3>4. Break(cn) # Through(cn)
      BY MessagesEqual DEF Break, Through
    <3> HIDE DEF x, y, z, r
    <3>5. << Tail(x), y, <<>>, bp >>
            \in BreakPhases(Break(cn), Through(cn), Answer(cn), MarkNumber)
      BY <3>2, <3>3, <3>4, BreakSteps
    <3> QED BY <3>1, <3>2, <3>5 DEF BreakFlow, y
  <2>2. CASE n # MarkNumber
    <3>1. BreakUp(Tail(up), cn) = x
      <4>1. Head(up) \notin {Break(cn), Through(cn)}
        BY <1>0, <2>2, MessagesEqual DEF Break, Through
      <4> QED BY <4>1, SelectedHead DEF BreakUp
    <3>2. Marks \ {n} = Marks
      BY <2>2 DEF Marks
    <3> QED BY <1>1, <3>1, <3>2 DEF Flows, BreakFlow
  <2> QED BY <2>1, <2>2
<1>3. Selected(un, {n}) \in {<<>>, <<n>>}
  BY <1>0 DEF Distinct
<1>4. ASSUME NEW S, S \subseteq Numbers, InOrder(cn, S, up, down, out, un)
      PROVE  InOrder(cn, S, Tail(up), down, out, r)
  BY <1>0, <1>3, <1>4, OrderAcknowledged
<1> QED BY <1>2, <1>4, NumberSets DEF Flows

\* The host answers a break, or knows that the connection is ending.
LEMMA FlowAnswered ==
    ASSUME NEW cn \in Cns, NEW up \in Seq(UplineMessages), NEW down \in Seq(DownlineMessages),
           NEW out \in Seq(OutputBuffers), NEW un \in Seq(Numbers), NEW bp, NEW settled,
           Flows(cn, up, down, out, un, bp, settled),
           up # <<>>, Head(up).kind = "BREAK", Head(up).id = cn
    PROVE  /\ Flows(cn, Tail(up), down, out, un, bp, settled)
           /\ Flows(cn, Tail(up), Append(down, Msg("MARK", cn, MarkNumber)), out,
                    Append(un, MarkNumber), bp, settled)
           /\ Selected(un, Marks) = <<>>
<1> DEFINE x == BreakUp(up, cn)
           y == BreakDown(down, cn)
           z == Selected(un, Marks)
           m == Msg("MARK", cn, MarkNumber)
<1>0. Head(up) = Break(cn) /\ Tail(up) \in Seq(UplineMessages)
  <2>1. Head(up) \in UplineMessages /\ Head(up) = Msg(Head(up).kind, Head(up).id, Head(up).bsn)
        /\ Tail(up) \in Seq(UplineMessages)
    BY HeadIs
  <2>2. Head(up).bsn = Nobody
    BY <2>1 DEF UplineMessages
  <2> QED BY <2>1, <2>2 DEF Break
<1>1. x # <<>> /\ Head(x) = Break(cn) /\ Tail(x) = BreakUp(Tail(up), cn)
  BY <1>0, SelectedHead DEF BreakUp
<1>2. << x, y, z, bp >> \in BreakPhases(Break(cn), Through(cn), Answer(cn), MarkNumber)
  BY DEF Flows, BreakFlow
<1>3. Break(cn) # Through(cn)
  BY MessagesEqual DEF Break, Through
<1>4. m = Answer(cn) /\ m \in DownlineMessages
  BY DownlineKinds DEF Answer
<1>5. BreakDown(Append(down, m), cn) = Append(y, Answer(cn))
  <2> DEFINE S == {Answer(cn)}
  <2>1. m \in S
    BY <1>4
  <2> HIDE DEF S, m
  <2>2. Selected(Append(down, m), S) = Append(Selected(down, S), m)
    BY <1>4, <2>1, SelectedOfAppend
  <2> QED BY <1>4, <2>2 DEF BreakDown, S
<1>6. Selected(Append(un, MarkNumber), Marks) = Append(z, MarkNumber)
  <2>1. MarkNumber \in Numbers /\ MarkNumber \in Marks
    BY NumberSets DEF Marks
  <2> QED BY <2>1, SelectedOfAppend
<1>7. /\ << Tail(x), y, z, bp >> \in BreakPhases(Break(cn), Through(cn), Answer(cn), MarkNumber)
      /\ << Tail(x), Append(y, Answer(cn)), Append(z, MarkNumber), bp >>
           \in BreakPhases(Break(cn), Through(cn), Answer(cn), MarkNumber)
      /\ z = <<>>
  <2> DEFINE b == Break(cn)
             t == Through(cn)
             k == Answer(cn)
  <2>1. <<x, y, z, bp>> \in BreakPhases(b, t, k, MarkNumber) /\ b # t /\ x # <<>> /\ Head(x) = b
    BY <1>1, <1>2, <1>3
  <2> HIDE DEF x, y, z, b, t, k
  <2>2. AnswerPhases(b, t, k, MarkNumber, x, y, z, bp)
    BY <2>1, BreakTaken
  <2> QED BY <2>2 DEF AnswerPhases, b, t, k
<1>8. ASSUME NEW S, S \subseteq Numbers, InOrder(cn, S, up, down, out, un)
      PROVE  /\ InOrder(cn, S, Tail(up), down, out, un)
             /\ InOrder(cn, S, Tail(up), Append(down, m), out, Append(un, MarkNumber))
  <2>2. Nums(Tail(up), {"BACK"}, cn, S) = Nums(up, {"BACK"}, cn, S)
    BY <1>8, NumsOfTail
  <2>3. InOrder(cn, S, Tail(up), down, out, un)
    BY <1>8, <2>2 DEF InOrder
  <2>4. "MARK" \in {"MSG", "MARK"} /\ MarkNumber \in Numbers
    BY NumberSets
  <2> QED BY <1>0, <1>4, <1>8, <2>3, <2>4, OrderSent
<1>9. BreakFlow(cn, Tail(up), down, un, bp)
  BY <1>1, <1>7 DEF BreakFlow
<1>10. BreakFlow(cn, Tail(up), Append(down, m), Append(un, MarkNumber), bp)
  BY <1>1, <1>5, <1>6, <1>7 DEF BreakFlow
<1> QED BY <1>7, <1>8, <1>9, <1>10, NumberSets DEF Flows

\* The host sends a block.
LEMMA FlowSent ==
    ASSUME NEW cn \in Cns, NEW up \in Seq(UplineMessages), NEW down \in Seq(DownlineMessages),
           NEW out \in Seq(OutputBuffers), NEW un \in Seq(Numbers), NEW bp, NEW settled,
           Flows(cn, up, down, out, un, bp, settled), NEW n \in Data
    PROVE  Flows(cn, up, Append(down, Msg("MSG", cn, n)), out, Append(un, n), bp, settled)
<1> DEFINE m == Msg("MSG", cn, n)
<1>1. m \in DownlineMessages /\ n \in Numbers
  BY DownlineKinds, NumberSets DEF Data
<1>2. BreakDown(Append(down, m), cn) = BreakDown(down, cn)
  <2>1. m \notin {Answer(cn)}
    BY MessagesEqual DEF Answer
  <2> HIDE DEF m
  <2> QED BY <1>1, <2>1, SelectedOfAppend DEF BreakDown
<1>3. Selected(Append(un, n), Marks) = Selected(un, Marks)
  <2>1. n \notin Marks
    BY NumberSets
  <2> QED BY <1>1, <2>1, SelectedOfAppend
<1>4. BreakFlow(cn, up, Append(down, m), Append(un, n), bp)
  BY <1>2, <1>3 DEF Flows, BreakFlow
<1>5. ASSUME NEW S, S \subseteq Numbers, InOrder(cn, S, up, down, out, un)
      PROVE  InOrder(cn, S, up, Append(down, m), out, Append(un, n))
  <2>1. "MSG" \in {"MSG", "MARK"}
    OBVIOUS
  <2> QED BY <1>1, <1>5, <2>1, OrderSent
<1> QED BY <1>4, <1>5, NumberSets DEF Flows

\* A connection begins with nothing on the way.
LEMMA FlowBegins ==
    ASSUME NEW cn \in Cns, NEW up \in Seq(UplineMessages), NEW down \in Seq(DownlineMessages),
           NEW bp \in BOOLEAN, NEW settled,
           ~Has(up, {"BACK", "BREAK"}, cn), ~Has(down, {"MSG", "MARK"}, cn)
    PROVE  Flows(cn, up, down, <<>>, <<>>, bp, settled)
<1>1. BreakUp(up, cn) = <<>>
  <2>1. \A i \in DOMAIN up : up[i] \notin {Break(cn), Through(cn)}
    BY DEF Has, Break, Through, Msg
  <2> QED BY <2>1, SelectedNone DEF BreakUp
<1>2. BreakDown(down, cn) = <<>>
  <2>1. \A i \in DOMAIN down : down[i] \notin {Answer(cn)}
    BY DEF Has, Answer, Msg
  <2> QED BY <2>1, SelectedNone DEF BreakDown
<1>3. \A S : Selected(<<>>, S) = <<>>
  BY SelectedOfEmpty
<1>4. BreakFlow(cn, up, down, <<>>, bp)
  BY <1>1, <1>2, <1>3 DEF BreakFlow, BreakPhases
<1>5. ASSUME NEW T, NEW q \in Seq(T), NEW K, ~Has(q, K, cn), NEW S
      PROVE  Nums(q, K, cn, S) = <<>>
  <2>1. \A i \in DOMAIN q : q[i] \notin Block(K, cn)
    BY <1>5 DEF Has, Block
  <2> DEFINE b == Selected(q, Block(K, cn))
  <2>2. b = <<>>
    BY <2>1, SelectedNone
  <2> HIDE DEF b
  <2>3. /\ NumbersIn(q, K, cn) \in Seq(Numbers)
        /\ Len(NumbersIn(q, K, cn)) = Len(b)
    BY NumbersInQueue DEF b
  <2>4. NumbersIn(q, K, cn) = <<>>
    BY <2>2, <2>3
  <2> QED BY <1>3, <2>4 DEF Nums
<1>6. ASSUME NEW S PROVE InOrder(cn, S, up, down, <<>>, <<>>)
  <2>1. ~Has(up, {"BACK"}, cn)
    BY DEF Has
  <2>2. Nums(up, {"BACK"}, cn, S) = <<>> /\ Nums(down, {"MSG", "MARK"}, cn, S) = <<>>
    BY <1>5, <2>1
  <2>3. <<>> \o <<>> = <<>>
    OBVIOUS
  <2> QED BY <1>3, <2>2, <2>3 DEF InOrder
<1> QED BY <1>4, <1>6 DEF Flows

-----------------------------------------------------------------------------
(* Every block is in one place.                                            *)

\* The host has accepted the connection, and the NPU knows or is about to.
Live(cn) ==
    /\ hostState[cn] # "idle"
    /\ \/ termState[cn] \in {"Connected", "NpuRequestDisconnect", "HostRequestDisconnect"}
       \/ termState[cn] = "RequestConnection" /\ Has(downline, {"ICN/N"}, cn)

Settled(cn) == pcbp[cn] \notin unsettled

Flow(cn) == Live(cn) => Flows(cn, upline, downline, outputQ[cn], unacked[cn], breakPending[cn],
                              Settled(cn))

Held(cn) == /\ hostState[cn] = "idle" => unacked[cn] = <<>>
            /\ Distinct(unacked[cn])

BInv == CInv /\ (resetting \/ \A cn \in Cns : Flow(cn) /\ Held(cn))

LEMMA BTypes ==
    ASSUME BInv
    PROVE  /\ upline \in Seq(UplineMessages) /\ downline \in Seq(DownlineMessages)
           /\ outputQ \in [Cns -> Seq(OutputBuffers)] /\ unacked \in [Cns -> Seq(Numbers)]
           /\ breakPending \in [Cns -> BOOLEAN] /\ termState \in [Cns -> TermStates]
           /\ hostState \in [Cns -> {"idle", "connected", "hostDisc", "npuDisc"}]
           /\ asyncTp \in [Ports -> Cns \cup {Nobody}]
           /\ pcbp \in [Cns -> Ports \cup {Nobody}]
           /\ AInv /\ TInv /\ IInv
  BY DEF BInv, CInv, AInv, TInv, IInv, TiesOK, QueuesOK, LinksOK

\* A connection whose blocks a step leaves where they are.
LEMMA Untouched ==
    ASSUME BInv, ~resetting, NEW c \in Cns, outputQ'[c] \in Seq(OutputBuffers),
           Live(c)' => Live(c), hostState'[c] = "idle" => hostState[c] = "idle",
           unacked'[c] = unacked[c], breakPending'[c] = breakPending[c],
           SameUp(upline, upline', c), SameDown(downline, downline', c),
           Live(c)' /\ Settled(c)' =>
               Settled(c) /\ Selected(outputQ'[c], Data) = Selected(outputQ[c], Data)
    PROVE  Flow(c)' /\ Held(c)'
<1>1. Flow(c) /\ Held(c)
  BY DEF BInv
<1>2. Held(c)'
  BY <1>1 DEF Held
<1>3. ASSUME Live(c)'
      PROVE  Flows(c, upline', downline', outputQ'[c], unacked'[c], breakPending'[c], Settled(c)')
  <2>1. Flows(c, upline, downline, outputQ[c], unacked[c], breakPending[c], Settled(c))
    BY <1>1, <1>3 DEF Flow
  <2>2. outputQ[c] \in Seq(OutputBuffers)
    BY BTypes
  <2> DEFINE s1 == Settled(c)
             s2 == Settled(c)'
  <2>3. s2 => s1 /\ Selected(outputQ'[c], Data) = Selected(outputQ[c], Data)
    BY <1>3
  <2> HIDE DEF s1, s2
  <2>4. Flows(c, upline, downline, outputQ[c], unacked[c], breakPending[c], s1)
    BY <2>1 DEF s1
  <2>5. Flows(c, upline', downline', outputQ'[c], unacked[c], breakPending[c], s2)
    BY <2>2, <2>3, <2>4, FlowStays
  <2> QED BY <2>5 DEF s2
<1> QED BY <1>2, <1>3 DEF Flow

\* The state of a connection that a step does not change.
LEMMA LiveAsBefore ==
    ASSUME NEW c, termState'[c] = termState[c], hostState'[c] = "idle" \/ hostState[c] # "idle",
           Has(downline', {"ICN/N"}, c) => Has(downline, {"ICN/N"}, c)
    PROVE  Live(c)' => Live(c)
  BY DEF Live

LEMMA ReceiveSame ==
    ASSUME BInv, NEW kind, NEW id, Receive(kind, id), NEW c \in Cns,
           kind \notin {"MSG", "MARK"} \/ id # c
    PROVE  /\ SameDown(downline, downline', c)
           /\ ~resetting /\ UNCHANGED <<hostState, unacked, unsettled>>
           /\ Has(downline', {"ICN/N"}, c) => Has(downline, {"ICN/N"}, c)
<1>1. /\ downline \in Seq(DownlineMessages) /\ downline # <<>> /\ downline' = Tail(downline)
      /\ Head(downline).kind = kind /\ Head(downline).id = id
  BY BTypes DEF Receive
<1>2. SameDown(downline, downline', c)
  BY <1>1, TakenDown
<1>3. /\ ~resetting /\ UNCHANGED <<hostState, unacked, unsettled>>
      /\ IF c = id THEN Taken(downline, downline', c, kind)
         ELSE SameFor(downline, downline', c)
  BY BTypes, Received
<1> QED BY <1>2, <1>3 DEF Taken, SameFor

LEMMA HostReceiveSame ==
    ASSUME BInv, NEW kind, NEW id, HostReceive(kind, id), NEW c \in Cns,
           kind \notin {"BACK", "BREAK"} \/ id # c
    PROVE  /\ SameUp(upline, upline', c) /\ ~resetting
           /\ UNCHANGED <<termState, outputQ, breakPending, pcbp, unsettled>>
<1>1. /\ upline \in Seq(UplineMessages) /\ upline # <<>> /\ upline' = Tail(upline)
      /\ Head(upline).kind = kind /\ Head(upline).id = id
  BY BTypes DEF HostReceive
<1>2. SameUp(upline, upline', c)
  BY <1>1, TakenUp
<1> QED BY <1>2, BTypes, HostReceived

LEMMA HostSendSame ==
    ASSUME BInv, NEW k, NEW id, NEW n, Msg(k, id, n) \in DownlineMessages,
           HostSends(Msg(k, id, n)), NEW c \in Cns, k \notin {"MSG", "MARK"} \/ id # c
    PROVE  /\ SameDown(downline, downline', c)
           /\ Has(downline', {"ICN/N"}, c) => Has(downline, {"ICN/N"}, c) \/ (k = "ICN/N" /\ id = c)
<1>1. downline \in Seq(DownlineMessages) /\ downline' = Append(downline, Msg(k, id, n))
  BY BTypes DEF HostSends
<1>2. SameDown(downline, downline', c)
  BY <1>1, AppendedDown
<1>3. IF c = id THEN Sent(downline, downline', c, k) ELSE SameFor(downline, downline', c)
  BY BTypes, HostSent
<1> QED BY <1>2, <1>3 DEF Sent, SameFor

LEMMA ReplySame ==
    ASSUME BInv, NEW k, NEW id, NEW n, Msg(k, id, n) \in UplineMessages,
           upline' = Append(upline, Msg(k, id, n)), NEW c \in Cns, k \notin {"BACK", "BREAK"} \/ id # c
    PROVE  SameUp(upline, upline', c)
  BY BTypes, AppendedUp

\* The output of a port goes out.
LEMMA TryOutputFlows ==
    ASSUME IInv, NEW p \in Ports, NEW q \in [Cns -> Seq(OutputBuffers)],
           NEW up \in Seq(UplineMessages), NEW down \in Seq(DownlineMessages), TryOutput(p, q, up),
           NEW c \in Cns, NEW un, NEW bp, NEW settled,
           Flows(c, up, down, q[c], un, bp, settled)
    PROVE  Flows(c, upline', down, outputQ'[c], un, bp, settled)
<1> DEFINE tp == FindTcb(p)
<1>1. tp # Nobody => tp \in Cns
  BY FindTcbIsLive
<1>2. CASE tp = Nobody
  BY <1>2 DEF TryOutput
<1>3. CASE tp # Nobody
  <2>1. PICK k \in 0 .. Len(q[tp]) :
          /\ outputQ' = [q EXCEPT ![tp] = SubSeq(@, k + 1, Len(@))]
          /\ upline' = up \o Acks(tp, SubSeq(q[tp], 1, k))
    BY <1>3 DEF TryOutput
  <2>0. tp \in Cns
    BY <1>1, <1>3
  <2> HIDE DEF tp
  <2> DEFINE s == q[tp]
             a == SubSeq(s, 1, k)
             b == SubSeq(s, k + 1, Len(s))
  <2>2. s \in Seq(OutputBuffers) /\ k \in 0 .. Len(s)
    BY <2>0
  <2>3. outputQ' = [q EXCEPT ![tp] = b] /\ upline' = up \o Acks(tp, a)
    BY <2>1
  <2> HIDE DEF s
  <2>4. a \in Seq(OutputBuffers) /\ b \in Seq(OutputBuffers) /\ s = a \o b
    <3>1. a \in Seq(OutputBuffers) /\ b \in Seq(OutputBuffers)
      BY <2>2
    <3>2. /\ Len(s) \in Nat /\ 1 \in 1 .. Len(s) + 1 /\ k \in 1 - 1 .. Len(s)
          /\ Len(s) \in k .. Len(s)
      BY <2>2
    <3>3. SubSeq(s, 1, k) \o SubSeq(s, k + 1, Len(s)) = SubSeq(s, 1, Len(s))
      BY <2>2, <3>2, ConcatAdjacentSubSeq
    <3>4. SubSeq(s, 1, Len(s)) = s
      BY <2>2, SubSeqFull
    <3> QED BY <3>1, <3>3, <3>4
  <2> HIDE DEF a, b
  <2>5. CASE c = tp
    <3>1. outputQ'[c] = b
      BY <2>3, <2>5
    <3>2. Flows(c, up, down, a \o b, un, bp, settled)
      BY <2>4, <2>5 DEF s
    <3>3. Flows(c, up \o Acks(c, a), down, b, un, bp, settled)
      BY <2>4, <3>2, FlowAcked
    <3> QED BY <2>3, <2>5, <3>1, <3>3
  <2>6. CASE c # tp
    <3>1. outputQ'[c] = q[c] /\ q[c] \in Seq(OutputBuffers)
      BY <2>3, <2>6
    <3>2. SameUp(up, upline', c)
      BY <2>0, <2>3, <2>4, <2>6, AcksUp
    <3> QED BY <3>1, <3>2, FlowStays, SameItself
  <2> QED BY <2>5, <2>6
<1> QED BY <1>2, <1>3

\* A port whose terminal has its connection to itself.
LEMMA AloneOnPort ==
    ASSUME BInv, ~resetting, NEW p \in Ports, p \notin unsettled
    PROVE  /\ \A c, d \in Cns : On(c, p) /\ On(d, p) => c = d
           /\ Opened(p) \/ ConfigurationPending(p) => \A c \in Cns : ~On(c, p)
<1>1. Tied(p)
  BY DEF BInv, CInv, AllTied
<1> QED BY <1>1 DEF Tied, Expecting

\* The connection of a port is closed: the output of its terminal is dropped.
LEMMA Dropped ==
    ASSUME BInv, NEW p, NEW c \in Cns,
           outputQ' = (IF asyncTp[p] = Nobody THEN outputQ ELSE [outputQ EXCEPT ![asyncTp[p]] = <<>>])
    PROVE  /\ outputQ'[c] \in Seq(OutputBuffers)
           /\ p \in Ports /\ ~On(c, p) => outputQ'[c] = outputQ[c]
<1>1. outputQ \in [Cns -> Seq(OutputBuffers)] /\ RemembersLiveTerminal
  BY BTypes DEF IInv
<1>2. outputQ'[c] \in Seq(OutputBuffers)
  <2>1. <<>> \in Seq(OutputBuffers)
    OBVIOUS
  <2> QED BY <1>1, <2>1
<1>3. ASSUME p \in Ports, ~On(c, p) PROVE outputQ'[c] = outputQ[c]
  <2>1. asyncTp[p] # c \/ asyncTp[p] = Nobody
    BY <1>1, <1>3 DEF RemembersLiveTerminal, On
  <2> QED BY <1>1, <2>1
<1> QED BY <1>2, <1>3

LEMMA NetThreadFlows ==
    ASSUME BInv, CInv', ~resetting, NetThread \/ User, NEW c \in Cns
    PROVE  Flow(c)' /\ Held(c)'
<1>0. UNCHANGED <<termState, hostState, unacked, breakPending, downline, pcbp>>
  BY DEF NetThread, User, Accept, TakePort, NotifyNetConnect, Leave, termVars, flowVars, lineVars,
         hostVars
<1>1. (Live(c)' => Live(c)) /\ SameDown(downline, downline', c)
  BY <1>0, SameItself DEF Live
<1>2. outputQ[c] \in Seq(OutputBuffers)
  BY BTypes
<1>3. CASE Accept \/ TakePort \/ User
  <2>1. UNCHANGED <<outputQ, upline>> /\ unsettled \subseteq unsettled'
    BY <1>3 DEF Accept, TakePort, User, Leave, termVars, flowVars, lineVars, netVars
  <2>2. SameUp(upline, upline', c) /\ (Settled(c)' => Settled(c))
    BY <1>0, <2>1, SameItself DEF Settled
  <2> QED BY <1>0, <1>1, <1>2, <2>1, <2>2, Untouched
<1>4. CASE NotifyNetConnect
  <2>1. /\ netPc = "opened" /\ upline' = Append(upline, Message("CNF/R", netPort))
        /\ outputQ' = (IF asyncTp[netPort] = Nobody THEN outputQ
                       ELSE [outputQ EXCEPT ![asyncTp[netPort]] = <<>>])
        /\ UNCHANGED unsettled
    BY <1>4 DEF NotifyNetConnect
  <2>2. netPort \in Ports /\ Opened(netPort)
    BY <2>1, BTypes DEF TInv, LinksOK, Opened
  <2>3. SameUp(upline, upline', c)
    <3>1. Msg("CNF/R", netPort, Nobody) \in UplineMessages
      BY <2>2, UplineKinds DEF Message
    <3> QED BY <2>1, <3>1, ReplySame DEF Message
  <2>4. /\ outputQ'[c] \in Seq(OutputBuffers)
        /\ ~On(c, netPort) => outputQ'[c] = outputQ[c]
    BY <2>1, <2>2, Dropped
  <2>5. Live(c)' /\ Settled(c)' => Settled(c) /\ outputQ'[c] = outputQ[c]
    <3>1. Settled(c)' => Settled(c)
      BY <1>0, <2>1 DEF Settled
    <3>2. Settled(c) => ~On(c, netPort)
      BY <2>2, AloneOnPort DEF Settled, On
    <3> QED BY <2>4, <3>1, <3>2
  <2> QED BY <1>0, <1>1, <2>3, <2>4, <2>5, Untouched
<1> QED BY <1>3, <1>4 DEF NetThread

LEMMA CheckStatusOpenFlows ==
    ASSUME BInv, CInv', NEW p \in Ports, CheckStatusOpen(p), NEW c \in Cns
    PROVE  Flow(c)' /\ Held(c)'
<1> DEFINE tp == FindTcb(p)
           un == unacked[c]
           s == Settled(c)
<1>0. /\ ~resetting /\ UNCHANGED <<termState, hostState, unacked, downline, pcbp, unsettled>>
  BY DEF CheckStatusOpen, netVars, hostVars
<1>1. (Live(c)' <=> Live(c)) /\ (Settled(c)' <=> s)
  BY <1>0 DEF Live, Settled
<1>2. Flow(c) /\ Held(c)
  BY <1>0 DEF BInv
<1>3. Held(c)'
  BY <1>0, <1>2 DEF Held
<1>4. /\ upline \in Seq(UplineMessages) /\ downline \in Seq(DownlineMessages)
      /\ outputQ \in [Cns -> Seq(OutputBuffers)] /\ outputQ[c] \in Seq(OutputBuffers)
      /\ breakPending \in [Cns -> BOOLEAN] /\ IInv
  BY BTypes
<1> SUFFICES ASSUME Live(c)
             PROVE  Flows(c, upline', downline, outputQ'[c], un, breakPending'[c], s)
  BY <1>0, <1>1, <1>3 DEF Flow, Settled
<1>5. Flows(c, upline, downline, outputQ[c], un, breakPending[c], s)
  BY <1>2 DEF Flow
<1> HIDE DEF un, s
<1>6. CASE TryOutput(p, outputQ, upline) /\ UNCHANGED breakPending
  BY <1>4, <1>5, <1>6, TryOutputFlows
<1>7. CASE /\ tp # Nobody /\ UNCHANGED breakPending
           /\ TryOutput(p, [outputQ EXCEPT ![tp] = QueueOutput(@)], upline)
  <2> DEFINE q == [outputQ EXCEPT ![tp] = QueueOutput(@)]
  <2>1. tp \in Cns
    BY <1>4, <1>7, FindTcbIsLive
  <2>2. q \in [Cns -> Seq(OutputBuffers)]
    <3>1. QueueOutput(outputQ[tp]) \in Seq(OutputBuffers)
      BY <1>4, <2>1, QueueOutputIs
    <3> QED BY <1>4, <2>1, <3>1
  <2>3. Selected(q[c], Data) = Selected(outputQ[c], Data)
    <3>1. c = tp => q[c] = QueueOutput(outputQ[c])
      BY <1>4, <2>1
    <3>2. c # tp => q[c] = outputQ[c]
      BY <1>4, <2>1
    <3>3. Selected(QueueOutput(outputQ[c]), Data) = Selected(outputQ[c], Data)
      BY <1>4, NumberSets, QueueOutputAny
    <3> QED BY <3>1, <3>2, <3>3
  <2>4. TryOutput(p, q, upline)
    BY <1>7
  <2> HIDE DEF q, tp
  <2>5. Flows(c, upline, downline, q[c], un, breakPending[c], s)
    <3>1. q[c] \in Seq(OutputBuffers)
      BY <2>2
    <3> QED BY <1>4, <1>5, <2>3, <3>1, FlowStays, SameItself
  <2>6. Flows(c, upline', downline, outputQ'[c], un, breakPending[c], s)
    BY <1>4, <2>2, <2>4, <2>5, TryOutputFlows
  <2> QED BY <1>7, <2>6
<1>8. CASE /\ tp # Nobody /\ ~breakPending[tp]
           /\ breakPending' = [breakPending EXCEPT ![tp] = TRUE]
           /\ TryOutput(p, [outputQ EXCEPT ![tp] = <<>>],
                        Append(upline, Message("BREAK", tp)) \o Acks(tp, outputQ[tp]))
  <2> DEFINE q == [outputQ EXCEPT ![tp] = <<>>]
             mid == Append(upline, Message("BREAK", tp))
             up == mid \o Acks(tp, outputQ[tp])
  <2>1. tp \in Cns
    BY <1>4, <1>8, FindTcbIsLive
  <2>2. /\ q \in [Cns -> Seq(OutputBuffers)] /\ mid \in Seq(UplineMessages)
        /\ up \in Seq(UplineMessages) /\ outputQ[tp] \in Seq(OutputBuffers)
    <3>1. q \in [Cns -> Seq(OutputBuffers)]
      BY <1>4, Emptied
    <3>2. outputQ[tp] \in Seq(OutputBuffers)
      BY <1>4, <2>1
    <3>3. Acks(tp, outputQ[tp]) \in Seq(UplineMessages) /\ Message("BREAK", tp) \in UplineMessages
      BY <2>1, <3>2, AcksAreMessages, UplineKinds
    <3>4. mid \in Seq(UplineMessages)
      BY <1>4, <3>3
    <3> HIDE DEF mid
    <3>5. up \in Seq(UplineMessages)
      BY <3>3, <3>4
    <3> QED BY <3>1, <3>2, <3>4, <3>5
  <2>3. TryOutput(p, q, up)
    BY <1>8
  <2>4. c = tp => q[c] = <<>> /\ breakPending'[c] = TRUE /\ breakPending[c] = FALSE
    BY <1>4, <1>8, <2>1
  <2>5. c # tp => q[c] = outputQ[c] /\ breakPending'[c] = breakPending[c]
    BY <1>4, <1>8, <2>1
  <2>6. Flows(c, up, downline, q[c], un, breakPending'[c], s)
    <3>1. CASE c = tp
      <4>1. Flows(c, mid, downline, outputQ[c], un, TRUE, s)
        BY <1>4, <1>5, <2>4, <3>1, FlowBreaks
      <4> HIDE DEF mid, q
      <4>2. Flows(c, mid \o Acks(c, outputQ[c]), downline, <<>>, un, TRUE, s)
        BY <1>4, <2>2, <4>1, FlowEmptied
      <4> QED BY <2>4, <3>1, <4>2
    <3>2. CASE c # tp
      <4>1. SameUp(upline, mid, c)
        <5>1. Msg("BREAK", tp, Nobody) \in UplineMessages
          BY <2>1, UplineKinds DEF Message
        <5> QED BY <1>4, <3>2, <5>1, AppendedUp DEF Message
      <4> HIDE DEF mid, q
      <4>2. SameUp(mid, up, c)
        BY <2>1, <2>2, <3>2, AcksUp
      <4> HIDE DEF up
      <4>3. SameUp(upline, up, c)
        BY <4>1, <4>2, SameUpThen
      <4>4. Flows(c, up, downline, outputQ[c], un, breakPending[c], s)
        BY <1>4, <1>5, <4>3, FlowStays, SameItself
      <4> QED BY <2>5, <3>2, <4>4
    <3> QED BY <3>1, <3>2
  <2> HIDE DEF mid, up, q
  <2> QED BY <1>4, <2>2, <2>3, <2>6, TryOutputFlows
<1> QED BY <1>6, <1>7, <1>8 DEF CheckStatusOpen

LEMMA CheckStatusLeftFlows ==
    ASSUME BInv, CInv', NEW p \in Ports, CheckStatusLeft(p), NEW c \in Cns
    PROVE  Flow(c)' /\ Held(c)'
<1> DEFINE tp == FindTcb(p)
<1>0. /\ ~resetting
      /\ UNCHANGED <<hostState, unacked, breakPending, downline, pcbp, unsettled>>
  BY DEF CheckStatusLeft, netVars, hostVars
<1>2. Flow(c) /\ Held(c)
  BY <1>0 DEF BInv
<1>3. Held(c)'
  BY <1>0, <1>2 DEF Held
<1>4. /\ upline \in Seq(UplineMessages) /\ downline \in Seq(DownlineMessages)
      /\ outputQ \in [Cns -> Seq(OutputBuffers)] /\ outputQ[c] \in Seq(OutputBuffers)
      /\ termState \in [Cns -> TermStates] /\ IInv
  BY BTypes
<1>5. CASE tp # Nobody /\ termState[tp] = "Connected"
  <2>1. tp \in Cns
    BY <1>4, <1>5, FindTcbIsLive
  <2>2. /\ termState' = [termState EXCEPT ![tp] = "NpuRequestDisconnect"]
        /\ outputQ' = [outputQ EXCEPT ![tp] = <<>>]
        /\ upline' = Append(upline \o Acks(tp, outputQ[tp]), Message("TCN/R", tp))
    BY <1>5 DEF CheckStatusLeft, SendDiscRequest
  <2>3. Live(c)' => Live(c)
    <3>1. c = tp => termState[c] = "Connected"
      BY <1>5
    <3>2. c # tp => termState'[c] = termState[c]
      BY <1>4, <2>2
    <3> QED BY <1>0, <3>1, <3>2 DEF Live
  <2> HIDE DEF tp
  <2> DEFINE mid == upline \o Acks(tp, outputQ[tp])
  <2>4. outputQ[tp] \in Seq(OutputBuffers) /\ Msg("TCN/R", tp, Nobody) \in UplineMessages
    BY <1>4, <2>1, UplineKinds DEF Message
  <2>5. mid \in Seq(UplineMessages)
    <3>1. Acks(tp, outputQ[tp]) \in Seq(UplineMessages)
      BY <2>1, <2>4, AcksAreMessages
    <3> QED BY <1>4, <3>1
  <2>6. upline' = Append(mid, Msg("TCN/R", tp, Nobody))
    BY <2>2 DEF Message
  <2>7. CASE c = tp
    <3> DEFINE s == Settled(c)
    <3>1. SUFFICES ASSUME Live(c)'
                   PROVE  Flows(c, upline', downline, outputQ'[c], unacked[c], breakPending[c], s)
      BY <1>0, <1>3 DEF Flow, Settled
    <3>2. Flows(c, upline, downline, outputQ[c], unacked[c], breakPending[c], s)
      BY <1>2, <2>3, <3>1 DEF Flow
    <3> HIDE DEF s
    <3>3. Flows(c, mid, downline, <<>>, unacked[c], breakPending[c], s)
      BY <1>4, <2>7, <3>2, FlowEmptied
    <3> HIDE DEF mid
    <3>4. SameUp(mid, upline', c)
      BY <2>4, <2>5, <2>6, AppendedUp
    <3>5. outputQ'[c] = <<>> /\ <<>> \in Seq(OutputBuffers)
      BY <1>4, <2>2, <2>7
    <3>6. Flows(c, upline', downline, <<>>, unacked[c], breakPending[c], s)
      BY <3>3, <3>4, <3>5, FlowStays, SameItself
    <3> QED BY <3>5, <3>6
  <2>8. CASE c # tp
    <3>1. SameUp(upline, mid, c)
      BY <1>4, <2>1, <2>4, <2>8, AcksUp
    <3> HIDE DEF mid
    <3>2. SameUp(mid, upline', c)
      BY <2>4, <2>5, <2>6, AppendedUp
    <3>3. SameUp(upline, upline', c) /\ SameDown(downline, downline', c)
      BY <1>0, <3>1, <3>2, SameUpThen, SameItself
    <3>4. outputQ'[c] = outputQ[c] /\ (Settled(c)' => Settled(c))
      BY <1>0, <1>4, <2>2, <2>8 DEF Settled
    <3> QED BY <1>0, <1>4, <2>3, <3>3, <3>4, Untouched
  <2> QED BY <2>7, <2>8
<1>6. CASE ~(tp # Nobody /\ termState[tp] = "Connected")
  <2>1. UNCHANGED <<termState, upline, outputQ>>
    <3>1. CASE tp # Nobody
      BY <1>6, <3>1 DEF CheckStatusLeft, SendDiscRequest
    <3>2. CASE tp = Nobody
      <4>1. asyncTp[p] = Nobody
        BY <3>2 DEF FindTcb
      <4> QED BY <3>2, <4>1 DEF CheckStatusLeft, CloseConnection
    <3> QED BY <3>1, <3>2
  <2>2. /\ SameUp(upline, upline', c) /\ SameDown(downline, downline', c)
        /\ (Live(c)' => Live(c)) /\ (Settled(c)' => Settled(c))
    BY <1>0, <2>1, SameItself DEF Live, Settled
  <2> QED BY <1>0, <1>4, <2>1, <2>2, Untouched
<1> QED BY <1>5, <1>6

LEMMA SupervisionFlows ==
    ASSUME BInv, CInv', SupervisionReply, NEW c \in Cns
    PROVE  Flow(c)' /\ Held(c)'
<1>1. /\ Receive("SUP/N", Nobody)
      /\ UNCHANGED <<upline, termState, pcbp, outputQ, breakPending>>
  BY DEF SupervisionReply, termVars, flowVars
<1>2. /\ SameDown(downline, downline', c)
      /\ ~resetting /\ UNCHANGED <<hostState, unacked, unsettled>>
      /\ Has(downline', {"ICN/N"}, c) => Has(downline, {"ICN/N"}, c)
  BY <1>1, ReceiveSame
<1>3. SameUp(upline, upline', c) /\ (Live(c)' => Live(c)) /\ (Settled(c)' => Settled(c))
  BY <1>1, <1>2, SameItself DEF Live, Settled
<1> QED BY <1>1, <1>2, <1>3, BTypes, Untouched

\* No connection is live before the host has been asked.
LEMMA IdleIsNotAccepted ==
    ASSUME BInv, ~resetting, NEW c \in Cns, termState[c] = "Idle"
    PROVE  ~Has(downline, {"ICN/N"}, c)
<1> DEFINE U == Kinds(upline, UpControl, c)
           D == Kinds(downline, DownControl, c)
<1>1. <<termState[c], hostState[c], U, D>> \in Phases
  BY BTypes DEF AInv, Agreed, AgreesNow, Agrees
<1>2. D = {}
  <2> HIDE DEF U, D
  <2> QED BY <1>1, PhaseOfConfigured
<1> QED BY <1>2 DEF Kinds, DownControl

LEMMA ConfigurationFlows ==
    ASSUME BInv, CInv', NEW p \in Ports, ConfigurationReply(p), NEW c \in Cns
    PROVE  Flow(c)' /\ Held(c)'
<1> DEFINE cn == Min(FreeTerminals)
<1>1. PICK kind \in {"CNF/N", "CNF/E"} : Receive(kind, p)
  BY DEF ConfigurationReply
<1>2. /\ SameDown(downline, downline', c)
      /\ ~resetting /\ UNCHANGED <<hostState, unacked, unsettled>>
      /\ Has(downline', {"ICN/N"}, c) => Has(downline, {"ICN/N"}, c)
  BY <1>1, ReceiveSame
<1>3. /\ termState \in [Cns -> TermStates] /\ outputQ \in [Cns -> Seq(OutputBuffers)]
      /\ pcbp \in [Cns -> Ports \cup {Nobody}] /\ breakPending \in [Cns -> BOOLEAN]
      /\ upline \in Seq(UplineMessages)
  BY BTypes
<1>4. CASE /\ FreeTerminals # {} /\ Reply(Message("ICN/R", cn))
           /\ termState' = [termState EXCEPT ![cn] = "RequestConnection"]
           /\ pcbp' = [pcbp EXCEPT ![cn] = p]
           /\ outputQ' = [outputQ EXCEPT ![cn] = <<>>]
           /\ breakPending' = [breakPending EXCEPT ![cn] = FALSE]
  <2>1. cn \in Cns /\ termState[cn] = "Idle"
    <3>1. cn \in FreeTerminals
      BY <1>4, MinIsOne DEF FreeTerminals
    <3> QED BY <3>1 DEF FreeTerminals
  <2> HIDE DEF cn
  <2>2. CASE c = cn
    <3>1. ~Has(downline', {"ICN/N"}, c) /\ termState'[c] = "RequestConnection"
      BY <1>2, <1>3, <1>4, <2>1, <2>2, IdleIsNotAccepted
    <3>2. ~Live(c)'
      BY <3>1 DEF Live
    <3>3. Held(c)'
      BY <1>2 DEF BInv, Held
    <3> QED BY <3>2, <3>3 DEF Flow
  <2>3. CASE c # cn
    <3>1. /\ termState'[c] = termState[c] /\ outputQ'[c] = outputQ[c] /\ pcbp'[c] = pcbp[c]
          /\ breakPending'[c] = breakPending[c]
      BY <1>3, <1>4, <2>3
    <3>2. SameUp(upline, upline', c)
      <4>1. Msg("ICN/R", cn, Nobody) \in UplineMessages
        BY <2>1, UplineKinds DEF Message
      <4> QED BY <1>4, <4>1, ReplySame DEF Reply, Message
    <3>3. (Live(c)' => Live(c)) /\ (Settled(c)' => Settled(c))
      BY <1>2, <3>1 DEF Live, Settled
    <3> QED BY <1>2, <1>3, <3>1, <3>2, <3>3, Untouched
  <2> QED BY <2>2, <2>3
<1>5. CASE CloseConnection(p, outputQ) /\ UNCHANGED <<termState, pcbp, breakPending, upline>>
  <2>1. /\ outputQ'[c] \in Seq(OutputBuffers)
        /\ ~On(c, p) => outputQ'[c] = outputQ[c]
    BY <1>5, Dropped DEF CloseConnection
  <2>2. ConfigurationPending(p)
    BY <1>1, <1>2, BTypes DEF Receive, ConfigurationPending, Has
  <2>3. Live(c)' /\ Settled(c)' => Settled(c) /\ outputQ'[c] = outputQ[c]
    <3>1. Settled(c)' => Settled(c)
      BY <1>2, <1>5 DEF Settled
    <3>2. Settled(c) => ~On(c, p)
      BY <1>2, <2>2, AloneOnPort DEF Settled, On
    <3> QED BY <2>1, <3>1, <3>2
  <2>4. SameUp(upline, upline', c) /\ (Live(c)' => Live(c))
    BY <1>2, <1>5, SameItself DEF Live
  <2> QED BY <1>2, <1>5, <2>1, <2>3, <2>4, Untouched
<1> QED BY <1>4, <1>5 DEF ConfigurationReply, Configurable

\* A terminal ends, and its port's connection: what output is dropped is its own.
LEMMA EndTerminalFlows ==
    ASSUME BInv, NEW cn \in Cns, NEW kind, Receive(kind, cn), kind \notin {"MSG", "MARK"},
           termState[cn] # "Idle", EndTerminal(cn), NEW c \in Cns, SameUp(upline, upline', c)
    PROVE  Flow(c)' /\ Held(c)'
<1>1. /\ SameDown(downline, downline', c)
      /\ ~resetting /\ UNCHANGED <<hostState, unacked, unsettled>>
      /\ Has(downline', {"ICN/N"}, c) => Has(downline, {"ICN/N"}, c)
  BY ReceiveSame
<1>2. /\ termState' = [termState EXCEPT ![cn] = "Idle"] /\ UNCHANGED <<pcbp, breakPending>>
      /\ outputQ' = (IF asyncTp[pcbp[cn]] = Nobody THEN outputQ
                     ELSE [outputQ EXCEPT ![asyncTp[pcbp[cn]]] = <<>>])
  BY DEF EndTerminal, CloseConnection
<1>3. termState \in [Cns -> TermStates] /\ pcbp[cn] \in Ports
  BY BTypes DEF IInv, HasPort
<1>4. CASE c = cn
  <2>1. termState'[c] = "Idle"
    BY <1>2, <1>3, <1>4
  <2>2. ~Live(c)'
    BY <2>1 DEF Live
  <2>3. Held(c)'
    BY <1>1 DEF BInv, Held
  <2> QED BY <2>2, <2>3 DEF Flow
<1>5. CASE c # cn
  <2>1. termState'[c] = termState[c]
    BY <1>2, <1>3, <1>5
  <2>2. /\ outputQ'[c] \in Seq(OutputBuffers)
        /\ ~On(c, pcbp[cn]) => outputQ'[c] = outputQ[c]
    BY <1>2, <1>3, Dropped
  <2>3. Live(c)' /\ Settled(c)' => Settled(c) /\ outputQ'[c] = outputQ[c]
    <3>1. Settled(c)' => Settled(c)
      BY <1>1, <1>2 DEF Settled
    <3>2. On(cn, pcbp[cn])
      BY DEF On
    <3>3. Settled(c) => ~On(c, pcbp[cn])
      BY <1>1, <1>3, <1>5, <3>2, AloneOnPort DEF Settled, On
    <3> QED BY <2>2, <3>1, <3>3
  <2>4. Live(c)' => Live(c)
    BY <1>1, <2>1 DEF Live
  <2> QED BY <1>1, <1>2, <2>2, <2>3, <2>4, Untouched
<1> QED BY <1>4, <1>5

\* A step that changes neither ports nor blocks.
LEMMA ControlFlows ==
    ASSUME BInv, NEW cn \in Cns, NEW kind, Receive(kind, cn), kind \notin {"MSG", "MARK"},
           UNCHANGED <<pcbp, outputQ, breakPending>>, NEW c \in Cns,
           \/ termState'[c] = termState[c]
           \/ termState[c] = "Connected"
           \/ termState[c] = "RequestConnection" /\ kind = "ICN/N" /\ c = cn,
           \/ UNCHANGED upline
           \/ \E k \in {"TERM", "TCN/N"} : upline' = Append(upline, Message(k, cn))
    PROVE  Flow(c)' /\ Held(c)'
<1>1. /\ SameDown(downline, downline', c)
      /\ ~resetting /\ UNCHANGED <<hostState, unacked, unsettled>>
      /\ Has(downline', {"ICN/N"}, c) => Has(downline, {"ICN/N"}, c)
  BY ReceiveSame
<1>2. SameUp(upline, upline', c)
  <2>1. CASE UNCHANGED upline
    BY <2>1, SameItself
  <2>2. ASSUME NEW k \in {"TERM", "TCN/N"}, upline' = Append(upline, Message(k, cn))
        PROVE  SameUp(upline, upline', c)
    <3>1. Msg(k, cn, Nobody) \in UplineMessages
      BY <2>2, UplineKinds DEF Message
    <3> QED BY <2>2, <3>1, ReplySame DEF Message
  <2> QED BY <2>1, <2>2
<1>3. Live(c)' => Live(c)
  <2>1. kind = "ICN/N" /\ c = cn => Has(downline, {"ICN/N"}, c)
    <3>1. downline \in Seq(DownlineMessages) /\ downline # <<>>
          /\ Head(downline).kind = kind /\ Head(downline).id = cn
      BY BTypes DEF Receive
    <3>2. 1 \in DOMAIN downline /\ Head(downline) = downline[1]
      BY <3>1
    <3> QED BY <3>1, <3>2 DEF Has
  <2> QED BY <1>1, <2>1 DEF Live
<1>4. Settled(c)' => Settled(c)
  BY <1>1 DEF Settled
<1> QED BY <1>1, <1>2, <1>3, <1>4, BTypes, Untouched

LEMMA ConnectionFlows ==
    ASSUME BInv, CInv', NEW cn \in Cns, ConnectionReply(cn), NEW c \in Cns
    PROVE  Flow(c)' /\ Held(c)'
<1>1. termState \in [Cns -> TermStates]
  BY BTypes
<1>2. CASE /\ Receive("ICN/N", cn) /\ termState[cn] = "RequestConnection"
           /\ termState' = [termState EXCEPT ![cn] = "Connected"]
           /\ UNCHANGED <<upline, pcbp, flowVars>>
  <2>1. c # cn => termState'[c] = termState[c]
    BY <1>1, <1>2
  <2> QED BY <1>2, <2>1, ControlFlows DEF flowVars
<1>3. CASE /\ Receive("ICN/E", cn) /\ termState[cn] = "RequestConnection" /\ EndTerminal(cn)
           /\ UNCHANGED upline
  BY <1>3, EndTerminalFlows, SameItself
<1>4. CASE /\ Receive("ICN/N", cn) \/ Receive("ICN/E", cn)
           /\ UNCHANGED <<upline, termVars>>
  BY <1>4, ControlFlows DEF termVars, flowVars
<1> QED BY <1>2, <1>3, <1>4 DEF ConnectionReply

LEMMA DisconnectRequestFlows ==
    ASSUME BInv, CInv', NEW cn \in Cns, DisconnectRequest(cn), NEW c \in Cns
    PROVE  Flow(c)' /\ Held(c)'
<1>1. termState \in [Cns -> TermStates]
  BY BTypes
<1>2. /\ Receive("TCN/R", cn) /\ UNCHANGED <<pcbp, flowVars>>
      /\ \E k \in {"TERM", "TCN/N"} : upline' = Append(upline, Message(k, cn))
  BY DEF DisconnectRequest, Reply
<1>3. termState'[c] = termState[c] \/ termState[c] = "Connected"
  BY <1>1 DEF DisconnectRequest
<1> QED BY <1>2, <1>3, ControlFlows DEF flowVars

LEMMA DisconnectReplyFlows ==
    ASSUME BInv, CInv', NEW cn \in Cns, DisconnectReply(cn), NEW c \in Cns
    PROVE  Flow(c)' /\ Held(c)'
<1>1. Receive("TCN/N", cn) /\ UNCHANGED upline
  BY DEF DisconnectReply
<1>2. CASE termState[cn] = "NpuRequestDisconnect" /\ EndTerminal(cn)
  BY <1>1, <1>2, EndTerminalFlows, SameItself
<1>3. CASE UNCHANGED termVars
  BY <1>1, <1>3, ControlFlows DEF termVars, flowVars
<1> QED BY <1>2, <1>3 DEF DisconnectReply

LEMMA TermBlockFlows ==
    ASSUME BInv, CInv', NEW cn \in Cns, TermBlock(cn), NEW c \in Cns
    PROVE  Flow(c)' /\ Held(c)'
<1>1. Receive("TERM", cn)
  BY DEF TermBlock
<1>2. CASE /\ termState[cn] = "HostRequestDisconnect" /\ Reply(Message("TCN/N", cn))
           /\ EndTerminal(cn)
  <2>1. SameUp(upline, upline', c)
    <3>1. Msg("TCN/N", cn, Nobody) \in UplineMessages
      BY UplineKinds DEF Message
    <3> QED BY <1>2, <3>1, ReplySame DEF Reply, Message
  <2> QED BY <1>1, <1>2, <2>1, EndTerminalFlows
<1>3. CASE UNCHANGED termVars /\ (Reply(Message("TERM", cn)) \/ UNCHANGED upline)
  BY <1>1, <1>3, ControlFlows DEF termVars, flowVars, Reply
<1> QED BY <1>2, <1>3 DEF TermBlock

\* Data that comes when the connection is ending finds the output empty.
LEMMA NoOutputWhenEnding ==
    ASSUME BInv, ~resetting, NEW cn \in Cns, termState[cn] # "Connected",
           Has(downline, {"MSG"}, cn)
    PROVE  outputQ[cn] = <<>>
<1> DEFINE U == Kinds(upline, UpControl, cn)
           D == Kinds(downline, DownControl, cn)
<1>1. /\ <<termState[cn], hostState[cn], U, D>> \in Phases
      /\ DataIsExpected(cn, termState[cn], hostState[cn], upline, downline, outputQ[cn])
  BY BTypes DEF AInv, Agreed, AgreesNow, Agrees
<1>2. Has(downline, DownData, cn)
  BY DEF Has, DownData
<1>3. termState[cn] = "NpuRequestDisconnect" \/ Has(downline, {"ICN/N"}, cn)
  BY <1>1, <1>2 DEF DataIsExpected
<1>4. Has(downline, {"ICN/N"}, cn) => termState[cn] = "RequestConnection"
  <2>1. Has(downline, {"ICN/N"}, cn) => "ICN/N" \in D
    BY DEF Kinds, DownControl
  <2> HIDE DEF U, D
  <2> QED BY <1>1, <2>1, PhaseOfAccepted
<1> QED BY <1>1, <1>3, <1>4 DEF DataIsExpected

LEMMA DataBlockFlows ==
    ASSUME BInv, CInv', NEW cn \in Cns, DataBlock(cn), NEW c \in Cns
    PROVE  Flow(c)' /\ Held(c)'
<1> DEFINE n == Head(downline).bsn
<1>0. /\ Receive("MSG", cn) /\ UNCHANGED <<termState, pcbp, breakPending>>
  BY DEF DataBlock
<1>1. /\ ~resetting /\ UNCHANGED <<hostState, unacked, unsettled>>
      /\ downline # <<>> /\ downline' = Tail(downline)
      /\ Head(downline).kind = "MSG" /\ Head(downline).id = cn
  BY <1>0 DEF Receive, hostVars, netVars
<1>2. /\ upline \in Seq(UplineMessages) /\ downline \in Seq(DownlineMessages)
      /\ outputQ \in [Cns -> Seq(OutputBuffers)] /\ outputQ[c] \in Seq(OutputBuffers)
      /\ Tail(downline) \in Seq(DownlineMessages) /\ IInv
  BY <1>1, BTypes, HeadIs
<1>3. Has(downline', {"ICN/N"}, c) => Has(downline, {"ICN/N"}, c)
  BY <1>0, BTypes, Received DEF Taken, SameFor
<1>4. (Live(c)' => Live(c)) /\ (Settled(c)' <=> Settled(c))
  BY <1>0, <1>1, <1>3 DEF Live, Settled
<1>5. n \in Data /\ Msg("BACK", cn, n) \in UplineMessages
  <2>1. n \in Data
    BY <1>1, <1>2, HeadIs, HeadBsn DEF Data
  <2> QED BY <2>1, NumberSets DEF Msg, UplineMessages
<1>6. Flow(c) /\ Held(c)
  BY <1>1 DEF BInv
<1>7. Held(c)'
  BY <1>1, <1>6 DEF Held
<1> DEFINE s == Settled(c)
           un == unacked[c]
           bp == breakPending[c]
<1> SUFFICES ASSUME Live(c)'
             PROVE  Flows(c, upline', Tail(downline), outputQ'[c], un, bp, s)
  BY <1>0, <1>1, <1>7 DEF Flow, Settled
<1>8. Flows(c, upline, downline, outputQ[c], un, bp, s)
  BY <1>4, <1>6 DEF Flow
<1> HIDE DEF s, un, bp
<1>9. CASE termState[cn] = "Connected"
  <2> DEFINE q == [outputQ EXCEPT ![cn] = QueueAck(@, n)]
  <2>1. TryOutput(pcbp[cn], q, upline) /\ pcbp[cn] \in Ports
    BY <1>9, BTypes DEF DataBlock, IInv, HasPort
  <2>2. q \in [Cns -> Seq(OutputBuffers)]
    <3>1. QueueAck(outputQ[cn], n) \in Seq(OutputBuffers)
      BY <1>2, <1>5, QueueAckIsQueue DEF Data
    <3> QED BY <1>2, <3>1
  <2>3. Flows(c, upline, Tail(downline), q[c], un, bp, s)
    <3>1. CASE c = cn
      <4>1. q[c] = QueueAck(outputQ[c], n)
        BY <1>2, <3>1
      <4> HIDE DEF q
      <4> QED BY <1>1, <1>2, <1>8, <3>1, <4>1, FlowArrives
    <3>2. CASE c # cn
      <4>1. q[c] = outputQ[c]
        BY <1>2, <3>2
      <4>2. SameDown(downline, Tail(downline), c)
        BY <1>1, <1>2, <3>2, TakenDown
      <4> QED BY <1>2, <1>8, <4>1, <4>2, FlowStays, SameItself
    <3> QED BY <3>1, <3>2
  <2> HIDE DEF q
  <2> QED BY <1>2, <2>1, <2>2, <2>3, TryOutputFlows
<1>10. CASE termState[cn] # "Connected"
  <2>1. upline' = Append(upline, Msg("BACK", cn, n)) /\ UNCHANGED outputQ
    BY <1>10 DEF DataBlock, Reply
  <2>2. CASE c = cn
    <3>1. Has(downline, {"MSG"}, cn)
      <4>1. 1 \in DOMAIN downline /\ Head(downline) = downline[1]
        BY <1>1, <1>2
      <4> QED BY <1>1, <4>1 DEF Has
    <3>2. outputQ[c] = <<>>
      BY <1>1, <1>10, <2>2, <3>1, NoOutputWhenEnding
    <3>3. Flows(c, upline, downline, <<>>, un, bp, s)
      BY <1>8, <3>2
    <3>4. Flows(c, Append(upline, Msg("BACK", c, n)), Tail(downline), <<>>, un, bp, s)
      BY <1>1, <1>2, <2>2, <3>3, FlowRefused
    <3> QED BY <2>1, <2>2, <3>2, <3>4
  <2>3. CASE c # cn
    <3>1. SameUp(upline, upline', c) /\ SameDown(downline, Tail(downline), c)
      BY <1>1, <1>2, <1>5, <2>1, <2>3, AppendedUp, TakenDown
    <3> QED BY <1>2, <1>8, <2>1, <3>1, FlowStays
  <2> QED BY <2>2, <2>3
<1> QED BY <1>9, <1>10

LEMMA MarkFlows ==
    ASSUME BInv, CInv', NEW cn \in Cns, Mark(cn), NEW c \in Cns
    PROVE  Flow(c)' /\ Held(c)'
<1> DEFINE n == Head(downline).bsn
<1>0. /\ Receive("MARK", cn) /\ UNCHANGED <<termState, pcbp, outputQ>>
      /\ breakPending' = [breakPending EXCEPT ![cn] = FALSE]
      /\ upline' = Append(upline, Msg("BACK", cn, n))
  BY DEF Mark, Reply
<1>1. /\ ~resetting /\ UNCHANGED <<hostState, unacked, unsettled>>
      /\ downline # <<>> /\ downline' = Tail(downline)
      /\ Head(downline).kind = "MARK" /\ Head(downline).id = cn
  BY <1>0 DEF Receive, hostVars, netVars
<1>2. /\ upline \in Seq(UplineMessages) /\ downline \in Seq(DownlineMessages)
      /\ outputQ[c] \in Seq(OutputBuffers) /\ breakPending \in [Cns -> BOOLEAN]
  BY BTypes
<1>3. Has(downline', {"ICN/N"}, c) => Has(downline, {"ICN/N"}, c)
  BY <1>0, BTypes, Received DEF Taken, SameFor
<1>4. (Live(c)' => Live(c)) /\ (Settled(c)' => Settled(c))
  BY <1>0, <1>1, <1>3 DEF Live, Settled
<1>5. Msg("BACK", cn, n) \in UplineMessages
  <2>1. n = MarkNumber
    BY <1>1, <1>2, HeadIs, HeadBsn
  <2> QED BY <2>1, NumberSets DEF Msg, UplineMessages
<1>6. Flow(c) /\ Held(c)
  BY <1>1 DEF BInv
<1>7. CASE c = cn
  <2>1. Held(c)'
    BY <1>1, <1>6 DEF Held
  <2> DEFINE s == Settled(c)
  <2>2. breakPending'[c] = FALSE
    BY <1>0, <1>2, <1>7
  <2> SUFFICES ASSUME Live(c)'
               PROVE  Flows(c, Append(upline, Msg("BACK", c, n)), Tail(downline), outputQ[c],
                            unacked[c], FALSE, s)
    BY <1>0, <1>1, <1>7, <2>1, <2>2 DEF Flow, Settled
  <2>3. Flows(c, upline, downline, outputQ[c], unacked[c], breakPending[c], s)
    BY <1>4, <1>6 DEF Flow
  <2> HIDE DEF s
  <2> QED BY <1>1, <1>2, <1>7, <2>3, FlowMarked
<1>8. CASE c # cn
  <2>1. SameUp(upline, upline', c) /\ SameDown(downline, downline', c)
    BY <1>0, <1>1, <1>2, <1>5, <1>8, AppendedUp, TakenDown
  <2>2. breakPending'[c] = breakPending[c]
    BY <1>0, <1>2, <1>8
  <2> QED BY <1>0, <1>1, <1>2, <1>4, <2>1, <2>2, Untouched
<1> QED BY <1>7, <1>8

LEMMA InterruptFlows ==
    ASSUME BInv, CInv', NEW cn \in Cns, Interrupt(cn), NEW c \in Cns
    PROVE  Flow(c)' /\ Held(c)'
<1>0. /\ Receive("ICMD", cn) /\ UNCHANGED <<termState, pcbp, breakPending>>
      /\ upline' = upline \o Acks(cn, outputQ[cn])
      /\ outputQ' = [outputQ EXCEPT ![cn] = <<>>]
  BY DEF Interrupt
<1>1. /\ SameDown(downline, downline', c)
      /\ ~resetting /\ UNCHANGED <<hostState, unacked, unsettled>>
      /\ Has(downline', {"ICN/N"}, c) => Has(downline, {"ICN/N"}, c)
  BY <1>0, ReceiveSame
<1>2. /\ upline \in Seq(UplineMessages) /\ downline \in Seq(DownlineMessages)
      /\ outputQ \in [Cns -> Seq(OutputBuffers)] /\ outputQ[c] \in Seq(OutputBuffers)
      /\ outputQ[cn] \in Seq(OutputBuffers)
  BY BTypes
<1>4. (Live(c)' => Live(c)) /\ (Settled(c)' => Settled(c))
  BY <1>0, <1>1 DEF Live, Settled
<1>6. Flow(c) /\ Held(c)
  BY <1>1 DEF BInv
<1>7. CASE c = cn
  <2>1. Held(c)'
    BY <1>1, <1>6 DEF Held
  <2> DEFINE s == Settled(c)
  <2>2. outputQ'[c] = <<>> /\ <<>> \in Seq(OutputBuffers)
    BY <1>0, <1>2, <1>7
  <2> SUFFICES ASSUME Live(c)'
               PROVE  Flows(c, upline', downline', <<>>, unacked[c], breakPending[c], s)
    BY <1>0, <1>1, <2>1, <2>2 DEF Flow, Settled
  <2>3. Flows(c, upline, downline, outputQ[c], unacked[c], breakPending[c], s)
    BY <1>4, <1>6 DEF Flow
  <2> HIDE DEF s
  <2>4. Flows(c, upline', downline, <<>>, unacked[c], breakPending[c], s)
    BY <1>0, <1>2, <1>7, <2>3, FlowEmptied
  <2> QED BY <1>1, <2>2, <2>4, FlowStays, SameItself
<1>8. CASE c # cn
  <2>1. SameUp(upline, upline', c)
    BY <1>0, <1>2, <1>8, AcksUp
  <2>2. outputQ'[c] = outputQ[c]
    BY <1>0, <1>2, <1>8
  <2> QED BY <1>0, <1>1, <1>2, <1>4, <2>1, <2>2, Untouched
<1> QED BY <1>7, <1>8

LEMMA DownlineFlows ==
    ASSUME BInv, CInv', ProcessDownline, NEW c \in Cns
    PROVE  Flow(c)' /\ Held(c)'
  BY SupervisionFlows, ConfigurationFlows, ConnectionFlows, DisconnectRequestFlows,
     DisconnectReplyFlows, TermBlockFlows, DataBlockFlows, MarkFlows, InterruptFlows
     DEF ProcessDownline

\* A step of the host that concerns no block of connection c, and does not begin it.
LEMMA HostSideFlows ==
    ASSUME BInv, ~resetting, UNCHANGED <<termState, pcbp, outputQ, breakPending, unsettled>>,
           NEW c \in Cns, hostState'[c] = "idle" <=> hostState[c] = "idle", unacked'[c] = unacked[c],
           SameUp(upline, upline', c), SameDown(downline, downline', c),
           Has(downline', {"ICN/N"}, c) => Has(downline, {"ICN/N"}, c) \/ hostState[c] = "idle"
    PROVE  Flow(c)' /\ Held(c)'
<1>1. Live(c)' => Live(c)
  BY DEF Live
<1>2. (Settled(c)' => Settled(c)) /\ outputQ[c] \in Seq(OutputBuffers)
  BY BTypes DEF Settled
<1> QED BY <1>1, <1>2, Untouched

LEMMA HostServesFlows ==
    ASSUME BInv, NotifyHostRegulation \/ HostSupervises \/ \E p \in Ports : HostConfigures(p),
           NEW c \in Cns
    PROVE  Flow(c)' /\ Held(c)'
<1>1. CASE NotifyHostRegulation
  <2>1. /\ ~resetting /\ upline' = Append(upline, Message("SUP/R", Nobody)) /\ UNCHANGED downline
        /\ UNCHANGED <<termState, pcbp, outputQ, breakPending, unsettled, hostState, unacked>>
    BY <1>1 DEF NotifyHostRegulation, termVars, flowVars, netVars, hostVars
  <2>2. SameUp(upline, upline', c)
    <3>1. Msg("SUP/R", Nobody, Nobody) \in UplineMessages
      BY UplineKinds DEF Message
    <3> QED BY <2>1, <3>1, ReplySame DEF Message
  <2> QED BY <2>1, <2>2, SameItself, HostSideFlows
<1>2. ASSUME NEW k, NEW id, NEW j, HostReceive(k, id), HostSends(Message(j, id)),
             k \in {"SUP/R", "CNF/R"}, j \in {"SUP/N", "CNF/N", "CNF/E"},
             Message(j, id) \in DownlineMessages, UNCHANGED hostVars
      PROVE  Flow(c)' /\ Held(c)'
  <2>1. /\ SameUp(upline, upline', c) /\ ~resetting
        /\ UNCHANGED <<termState, pcbp, outputQ, breakPending, unsettled>>
    BY <1>2, HostReceiveSame
  <2>2. /\ SameDown(downline, downline', c)
        /\ Has(downline', {"ICN/N"}, c) => Has(downline, {"ICN/N"}, c)
    BY <1>2, HostSendSame DEF Message
  <2> QED BY <1>2, <2>1, <2>2, HostSideFlows DEF hostVars
<1>3. CASE HostSupervises
  <2>1. Message("SUP/N", Nobody) \in DownlineMessages
    BY DownlineKinds
  <2> QED BY <1>2, <1>3, <2>1 DEF HostSupervises
<1>4. ASSUME NEW p \in Ports, HostConfigures(p)
      PROVE  Flow(c)' /\ Held(c)'
  <2>1. \A k \in {"CNF/N", "CNF/E"} : Message(k, p) \in DownlineMessages
    BY DownlineKinds
  <2> QED BY <1>2, <1>4, <2>1 DEF HostConfigures
<1> QED BY <1>1, <1>3, <1>4

LEMMA PhaseOfRequested ==
    ASSUME NEW ts, NEW hs, NEW U, NEW D, <<ts, hs, U, D>> \in Phases,
           "ICN/R" \in U, "TCN/N" \notin U
    PROVE  hs = "idle" /\ ts = "RequestConnection"
  BY DEF Phases

\* A connection the host gets a request for has nothing on the way.
LEMMA NothingBeforeRequest ==
    ASSUME BInv, NEW cn \in Cns, HostReceive("ICN/R", cn)
    PROVE  /\ hostState[cn] = "idle" /\ outputQ[cn] = <<>> /\ unacked[cn] = <<>>
           /\ ~Has(upline, {"BACK", "BREAK"}, cn) /\ ~Has(downline, {"MSG", "MARK"}, cn)
<1> DEFINE U == Kinds(upline, UpControl, cn)
           D == Kinds(downline, DownControl, cn)
<1>0. /\ upline \in Seq(UplineMessages) /\ upline # <<>> /\ ~resetting
      /\ Head(upline).kind = "ICN/R" /\ Head(upline).id = cn
  BY BTypes DEF HostReceive
<1>1. /\ <<termState[cn], hostState[cn], U, D>> \in Phases
      /\ DataIsExpected(cn, termState[cn], hostState[cn], upline, downline, outputQ[cn])
      /\ NoneBehind(upline, {"ICN/R"}, {"TCN/N"}, cn)
  BY <1>0, BTypes DEF AInv, Agreed, AgreesNow, Agrees, Ordered
<1>2. Taken(upline, upline', cn, "ICN/R")
  BY BTypes, HostReceived
<1>3. Has(upline, {"ICN/R"}, cn)
  BY <1>2 DEF Taken
<1>4. ~Has(upline, {"TCN/N"}, cn)
  BY <1>1, <1>2 DEF Taken
<1>5. hostState[cn] = "idle" /\ termState[cn] = "RequestConnection"
  <2>1. "ICN/R" \in U /\ "TCN/N" \notin U
    BY <1>3, <1>4 DEF Kinds, UpControl
  <2> HIDE DEF U, D
  <2> QED BY <1>1, <2>1, PhaseOfRequested
<1>6. ~Has(upline, {"BACK"}, cn) /\ ~Has(upline, {"BREAK"}, cn) /\ ~Has(downline, DownData, cn)
  BY <1>1, <1>5 DEF DataIsExpected
<1>7. ~Has(upline, {"BACK", "BREAK"}, cn) /\ ~Has(downline, {"MSG", "MARK"}, cn)
  BY <1>6 DEF Has, DownData
<1>8. outputQ[cn] = <<>>
  BY <1>1, <1>5 DEF DataIsExpected
<1>9. unacked[cn] = <<>>
  BY <1>0, <1>5 DEF BInv, Held
<1> QED BY <1>5, <1>7, <1>8, <1>9

LEMMA HostConnectsFlows ==
    ASSUME BInv, NEW cn \in Cns, HostConnects(cn), NEW c \in Cns
    PROVE  Flow(c)' /\ Held(c)'
<1>1. HostReceive("ICN/R", cn) /\ UNCHANGED unacked
  BY DEF HostConnects
<1>2. /\ SameUp(upline, upline', c) /\ ~resetting
      /\ UNCHANGED <<termState, pcbp, outputQ, breakPending, unsettled>>
  BY <1>1, HostReceiveSame
<1>3. PICK k \in {"ICN/N", "ICN/E"} :
        /\ HostSends(Message(k, cn))
        /\ \/ k = "ICN/N" /\ hostState' = [hostState EXCEPT ![cn] = "connected"]
           \/ k = "ICN/E" /\ UNCHANGED hostState
  BY DEF HostConnects
<1>4. /\ SameDown(downline, downline', c)
      /\ Has(downline', {"ICN/N"}, c) => Has(downline, {"ICN/N"}, c) \/ (k = "ICN/N" /\ cn = c)
  <2>1. Msg(k, cn, Nobody) \in DownlineMessages
    BY DownlineKinds DEF Message
  <2> QED BY <1>3, <2>1, HostSendSame DEF Message
<1>5. hostState \in [Cns -> {"idle", "connected", "hostDisc", "npuDisc"}]
  BY BTypes
<1>6. CASE c = cn /\ k = "ICN/N"
  <2>1. /\ hostState[c] = "idle" /\ outputQ[c] = <<>> /\ unacked[c] = <<>>
        /\ ~Has(upline, {"BACK", "BREAK"}, c) /\ ~Has(downline, {"MSG", "MARK"}, c)
    BY <1>1, <1>6, NothingBeforeRequest
  <2>2. /\ upline \in Seq(UplineMessages) /\ downline \in Seq(DownlineMessages)
        /\ breakPending[c] \in BOOLEAN /\ <<>> \in Seq(OutputBuffers)
    BY BTypes
  <2> DEFINE s == Settled(c)'
  <2> HIDE DEF s
  <2>3. Flows(c, upline, downline, <<>>, <<>>, breakPending[c], s)
    BY <2>1, <2>2, FlowBegins
  <2>4. Flows(c, upline', downline', <<>>, <<>>, breakPending[c], s)
    BY <1>2, <1>4, <2>2, <2>3, FlowStays
  <2>5. Flow(c)'
    BY <1>1, <1>2, <2>1, <2>4 DEF Flow, s
  <2>6. Held(c)'
    BY <1>1, <1>2, <2>1 DEF Held, BInv
  <2> QED BY <2>5, <2>6
<1>7. CASE c # cn \/ k = "ICN/E"
  <2>1. hostState'[c] = hostState[c]
    BY <1>3, <1>5, <1>7
  <2> QED BY <1>1, <1>2, <1>4, <1>7, <2>1, HostSideFlows
<1> QED BY <1>3, <1>6, <1>7

LEMMA HostDisconnectsFlows ==
    ASSUME BInv, NEW cn \in Cns, HostDisconnects(cn), NEW c \in Cns
    PROVE  Flow(c)' /\ Held(c)'
<1>1. PICK kind \in {"TCN/R", "TERM", "TCN/N"} : HostReceive(kind, cn)
  BY DEF HostDisconnects
<1>2. /\ SameUp(upline, upline', c) /\ ~resetting
      /\ UNCHANGED <<termState, pcbp, outputQ, breakPending, unsettled>>
  BY <1>1, HostReceiveSame
<1>3. /\ SameDown(downline, downline', c)
      /\ Has(downline', {"ICN/N"}, c) => Has(downline, {"ICN/N"}, c)
  <2>1. UNCHANGED downline \/ \E k \in {"TERM", "TCN/N"} : HostSends(Message(k, cn))
    BY DEF HostDisconnects
  <2>2. ASSUME NEW k \in {"TERM", "TCN/N"}, HostSends(Message(k, cn))
        PROVE  /\ SameDown(downline, downline', c)
               /\ Has(downline', {"ICN/N"}, c) => Has(downline, {"ICN/N"}, c)
    <3>1. Msg(k, cn, Nobody) \in DownlineMessages
      BY DownlineKinds DEF Message
    <3> QED BY <2>2, <3>1, HostSendSame DEF Message
  <2> QED BY <2>1, <2>2, SameItself
<1>4. /\ hostState \in [Cns -> {"idle", "connected", "hostDisc", "npuDisc"}]
      /\ unacked \in [Cns -> Seq(Numbers)]
  BY BTypes
<1>5. CASE HostEnds(cn) /\ c = cn
  <2>1. hostState'[c] = "idle" /\ unacked'[c] = <<>>
    BY <1>4, <1>5 DEF HostEnds
  <2>2. Distinct(<<>>)
    BY SelectedOfEmpty DEF Distinct
  <2> QED BY <2>1, <2>2 DEF Flow, Live, Held
<1>6. CASE HostEnds(cn) /\ c # cn
  <2>1. hostState'[c] = hostState[c] /\ unacked'[c] = unacked[c]
    BY <1>4, <1>6 DEF HostEnds
  <2> QED BY <1>2, <1>3, <2>1, HostSideFlows
<1>7. CASE /\ UNCHANGED unacked
           /\ \/ UNCHANGED hostState
              \/ hostState[cn] = "connected" /\ hostState' = [hostState EXCEPT ![cn] = "npuDisc"]
  <2>1. hostState'[c] = "idle" <=> hostState[c] = "idle"
    BY <1>4, <1>7
  <2> QED BY <1>2, <1>3, <1>7, <2>1, HostSideFlows
<1> QED BY <1>5, <1>6, <1>7 DEF HostDisconnects, hostVars

LEMMA HostAcknowledgedFlows ==
    ASSUME BInv, NEW cn \in Cns, HostAcknowledged(cn), NEW c \in Cns
    PROVE  Flow(c)' /\ Held(c)'
<1>1. /\ HostReceive("BACK", cn) /\ UNCHANGED <<downline, hostState>>
      /\ unacked' = [unacked EXCEPT ![cn] = Selected(@, Numbers \ {Head(upline).bsn})]
  BY DEF HostAcknowledged
<1>2. /\ ~resetting /\ UNCHANGED <<termState, pcbp, outputQ, breakPending, unsettled>>
      /\ upline # <<>> /\ upline' = Tail(upline)
      /\ Head(upline).kind = "BACK" /\ Head(upline).id = cn
  BY <1>1 DEF HostReceive, termVars, flowVars, netVars
<1>3. /\ upline \in Seq(UplineMessages) /\ downline \in Seq(DownlineMessages)
      /\ outputQ[c] \in Seq(OutputBuffers) /\ unacked \in [Cns -> Seq(Numbers)]
      /\ unacked[c] \in Seq(Numbers)
  BY BTypes
<1>4. CASE c = cn
  <2> DEFINE n == Head(upline).bsn
             un == unacked[c]
             r == Selected(un, Numbers \ {n})
             s == Settled(c)
  <2>1. unacked'[c] = r
    BY <1>1, <1>3, <1>4
  <2>2. Flow(c) /\ Held(c)
    BY <1>2 DEF BInv
  <2>3. Held(c)'
    <3>1. Distinct(r)
      BY <1>3, <2>2, DistinctLess DEF Held
    <3>2. hostState[c] = "idle" => r = <<>>
      BY <2>2, SelectedOfEmpty DEF Held
    <3> HIDE DEF r
    <3> QED BY <1>1, <2>1, <3>1, <3>2 DEF Held
  <2>4. Live(c)' => Live(c)
    BY <1>1, <1>2 DEF Live
  <2> SUFFICES ASSUME Live(c)'
               PROVE  Flows(c, upline', downline, outputQ[c], r, breakPending[c], s)
    BY <1>1, <1>2, <2>1, <2>3 DEF Flow, Settled
  <2>5. Flows(c, upline, downline, outputQ[c], un, breakPending[c], s) /\ Distinct(un)
    BY <2>2, <2>4 DEF Flow, Held
  <2> HIDE DEF s, un
  <2>6. un \in Seq(Numbers)
    BY <1>3 DEF un
  <2> QED BY <1>2, <1>3, <1>4, <2>5, <2>6, FlowAcknowledged
<1>5. CASE c # cn
  <2>1. unacked'[c] = unacked[c]
    BY <1>1, <1>3, <1>5
  <2>2. SameUp(upline, upline', c) /\ SameDown(downline, downline', c)
    BY <1>1, <1>5, HostReceiveSame, SameItself
  <2> QED BY <1>1, <1>2, <2>1, <2>2, HostSideFlows
<1> QED BY <1>4, <1>5

LEMMA PhaseOfLive ==
    ASSUME NEW ts, NEW U, NEW D, <<ts, "connected", U, D>> \in Phases
    PROVE  \/ ts \in {"Connected", "NpuRequestDisconnect", "HostRequestDisconnect"}
           \/ ts = "RequestConnection" /\ "ICN/N" \in D
  BY DEF Phases

\* A connection is live for as long as the host has it connected.
LEMMA ConnectedIsLive ==
    ASSUME BInv, ~resetting, NEW c \in Cns, hostState[c] = "connected"
    PROVE  Live(c)
<1> DEFINE U == Kinds(upline, UpControl, c)
           D == Kinds(downline, DownControl, c)
<1>1. <<termState[c], "connected", U, D>> \in Phases
  BY BTypes DEF AInv, Agreed, AgreesNow, Agrees
<1> DEFINE ts == termState[c]
<1>2. \/ ts \in {"Connected", "NpuRequestDisconnect", "HostRequestDisconnect"}
      \/ ts = "RequestConnection" /\ "ICN/N" \in D
  <2> HIDE DEF U, D, ts
  <2>1. <<ts, "connected", U, D>> \in Phases
    BY <1>1 DEF ts
  <2> QED BY <2>1, PhaseOfLive
<1> QED BY <1>2 DEF Live, Kinds

\* The host answers a break, if the connection is not ending.
LEMMA HostMarksFlows ==
    ASSUME BInv, NEW cn \in Cns, HostMarks(cn), NEW c \in Cns
    PROVE  Flow(c)' /\ Held(c)'
<1>1. HostReceive("BREAK", cn) /\ UNCHANGED hostState
  BY DEF HostMarks
<1>2. /\ ~resetting /\ UNCHANGED <<termState, pcbp, outputQ, breakPending, unsettled>>
      /\ upline # <<>> /\ upline' = Tail(upline)
      /\ Head(upline).kind = "BREAK" /\ Head(upline).id = cn
  BY <1>1 DEF HostReceive, termVars, flowVars, netVars
<1>3. /\ upline \in Seq(UplineMessages) /\ downline \in Seq(DownlineMessages)
      /\ outputQ[c] \in Seq(OutputBuffers) /\ unacked \in [Cns -> Seq(Numbers)]
      /\ unacked[c] \in Seq(Numbers)
  BY BTypes
<1>4. CASE c # cn
  <2>1. SameUp(upline, upline', c)
    BY <1>1, <1>4, HostReceiveSame
  <2>2. /\ SameDown(downline, downline', c) /\ unacked'[c] = unacked[c]
        /\ Has(downline', {"ICN/N"}, c) => Has(downline, {"ICN/N"}, c)
    <3>1. CASE /\ HostSends(Msg("MARK", cn, MarkNumber))
               /\ unacked' = [unacked EXCEPT ![cn] = Append(@, MarkNumber)]
      <4>1. unacked'[c] = unacked[c]
        BY <1>3, <1>4, <3>1
      <4> QED BY <1>4, <3>1, <4>1, DownlineKinds, HostSendSame
    <3>2. CASE UNCHANGED <<downline, unacked>>
      BY <3>2, SameItself
    <3> QED BY <3>1, <3>2 DEF HostMarks
  <2> QED BY <1>1, <1>2, <2>1, <2>2, HostSideFlows
<1>5. CASE c = cn
  <2> DEFINE un == unacked[c]
             s == Settled(c)
             m == Msg("MARK", c, MarkNumber)
  <2>1. Flow(c) /\ Held(c)
    BY <1>2 DEF BInv
  <2>2. \/ hostState[c] = "connected" /\ downline' = Append(downline, m)
           /\ unacked'[c] = Append(un, MarkNumber)
        \/ downline' = downline /\ unacked'[c] = un
    BY <1>3, <1>5 DEF HostMarks, HostSends
  <2>3. Live(c)' => Live(c)
    <3>1. Has(downline', {"ICN/N"}, c) => Has(downline, {"ICN/N"}, c)
      <4>1. CASE UNCHANGED downline
        BY <4>1
      <4>2. CASE HostSends(Msg("MARK", c, MarkNumber))
        <5>1. Sent(downline, downline', c, "MARK")
          BY <4>2, BTypes, DownlineKinds, HostSent
        <5> QED BY <5>1 DEF Sent
      <4> QED BY <2>2, <4>1, <4>2 DEF HostSends
    <3> QED BY <1>1, <1>2, <3>1 DEF Live
  <2>4. ASSUME Live(c)
        PROVE  /\ Flows(c, upline', downline', outputQ[c], unacked'[c], breakPending[c], s)
               /\ Selected(un, Marks) = <<>>
    <3>1. Flows(c, upline, downline, outputQ[c], un, breakPending[c], s)
      BY <2>1, <2>4 DEF Flow
    <3>2. un \in Seq(Numbers)
      BY <1>3
    <3> HIDE DEF s, un, m
    <3>3. /\ Flows(c, Tail(upline), downline, outputQ[c], un, breakPending[c], s)
          /\ Flows(c, Tail(upline), Append(downline, Msg("MARK", c, MarkNumber)), outputQ[c],
                   Append(un, MarkNumber), breakPending[c], s)
          /\ Selected(un, Marks) = <<>>
      BY <1>2, <1>3, <1>5, <3>1, <3>2, FlowAnswered
    <3> QED BY <1>2, <2>2, <3>3 DEF m
  <2>5. Flow(c)'
    BY <1>2, <2>3, <2>4 DEF Flow, Settled
  <2>6. Held(c)'
    <3>1. CASE unacked'[c] = un
      BY <1>1, <2>1, <3>1 DEF Held
    <3>2. CASE hostState[c] = "connected" /\ unacked'[c] = Append(un, MarkNumber)
      <4>1. Selected(un, Marks) = <<>>
        BY <1>2, <2>4, <3>2, ConnectedIsLive
      <4> HIDE DEF un
      <4>2. Distinct(Append(un, MarkNumber))
        BY <1>3, <2>1, <4>1, NumberSets, DistinctMore DEF Held, Marks, un
      <4> QED BY <1>1, <3>2, <4>2 DEF Held
    <3> QED BY <2>2, <3>1, <3>2
  <2> QED BY <2>5, <2>6
<1> QED BY <1>4, <1>5

LEMMA HostActsFlows ==
    ASSUME BInv, NEW cn \in Cns, HostActs(cn), NEW c \in Cns
    PROVE  Flow(c)' /\ Held(c)'
<1>1. /\ ~resetting /\ hostState[cn] = "connected"
      /\ UNCHANGED <<upline, termState, pcbp, outputQ, breakPending, unsettled>>
  BY DEF HostActs, termVars, flowVars, netVars
<1>2. /\ hostState \in [Cns -> {"idle", "connected", "hostDisc", "npuDisc"}]
      /\ unacked \in [Cns -> Seq(Numbers)] /\ SameUp(upline, upline', c)
  BY <1>1, BTypes, SameItself
<1>3. ASSUME NEW k \in {"TCN/R", "ICMD"}, HostSends(Message(k, cn)), UNCHANGED unacked,
             hostState'[c] = "idle" <=> hostState[c] = "idle"
      PROVE  Flow(c)' /\ Held(c)'
  <2>1. Msg(k, cn, Nobody) \in DownlineMessages
    BY DownlineKinds DEF Message
  <2>2. /\ SameDown(downline, downline', c)
        /\ Has(downline', {"ICN/N"}, c) => Has(downline, {"ICN/N"}, c)
    BY <1>3, <2>1, HostSendSame DEF Message
  <2> QED BY <1>1, <1>2, <1>3, <2>2, HostSideFlows
<1>4. CASE HostAsksForEnd(cn)
  <2>1. HostSends(Message("TCN/R", cn)) /\ UNCHANGED unacked
    BY <1>4 DEF HostAsksForEnd
  <2>2. hostState'[c] = "idle" <=> hostState[c] = "idle"
    BY <1>1, <1>2, <1>4 DEF HostAsksForEnd
  <2> QED BY <1>3, <2>1, <2>2
<1>5. CASE HostInterrupts(cn)
  BY <1>3, <1>5 DEF HostInterrupts, hostVars
<1>6. CASE HostSendsBlock(cn)
  <2> DEFINE unused == (1 .. Window) \ ToSet(unacked[cn])
             n == Min(unused)
             un == unacked[c]
             s == Settled(c)
  <2>1. /\ UNCHANGED hostState /\ HostSends(Msg("MSG", cn, n))
        /\ unacked' = [unacked EXCEPT ![cn] = Append(@, n)]
    BY <1>6 DEF HostSendsBlock
  <2>2. n \in Data /\ n \notin ToSet(unacked[cn])
    <3>1. unused # {} /\ unused \subseteq Nat
      BY <1>6 DEF HostSendsBlock
    <3>2. n \in unused
      BY <3>1, MinIsOne
    <3> QED BY <3>2 DEF Data
  <2> HIDE DEF n
  <2>3. n \in Numbers /\ Msg("MSG", cn, n) \in DownlineMessages
    BY <2>2, NumberSets, DownlineKinds DEF Data
  <2>4. CASE c # cn
    <3>1. unacked'[c] = unacked[c]
      BY <1>2, <2>1, <2>4
    <3>2. /\ SameDown(downline, downline', c)
          /\ Has(downline', {"ICN/N"}, c) => Has(downline, {"ICN/N"}, c)
      BY <2>1, <2>3, <2>4, HostSendSame
    <3> QED BY <1>1, <1>2, <2>1, <3>1, <3>2, HostSideFlows
  <2>5. CASE c = cn
    <3>1. Flow(c) /\ Held(c) /\ Live(c)
      BY <1>1, <2>5, ConnectedIsLive DEF BInv
    <3>2. unacked'[c] = Append(un, n) /\ un \in Seq(Numbers)
      BY <1>2, <2>1, <2>5
    <3>3. downline' = Append(downline, Msg("MSG", c, n))
      BY <2>1, <2>5 DEF HostSends
    <3>4. Flows(c, upline, downline, outputQ[c], un, breakPending[c], s) /\ Distinct(un)
      BY <3>1 DEF Flow, Held
    <3>5. n \notin ToSet(un)
      BY <2>2, <2>5
    <3>6. /\ upline \in Seq(UplineMessages) /\ downline \in Seq(DownlineMessages)
          /\ outputQ[c] \in Seq(OutputBuffers)
      BY BTypes
    <3>7. s = Settled(c)' /\ (hostState[c] = hostState'[c]) /\ hostState'[c] # "idle"
      BY <1>1, <2>1, <2>5 DEF Settled
    <3> HIDE DEF un, s
    <3>8. Flows(c, upline, downline', outputQ[c], Append(un, n), breakPending[c], s)
      BY <2>2, <3>2, <3>3, <3>4, <3>6, FlowSent
    <3>9. Distinct(Append(un, n))
      BY <2>3, <3>2, <3>4, <3>5, NotThere, DistinctMore
    <3>10. Flow(c)'
      BY <1>1, <3>2, <3>7, <3>8 DEF Flow
    <3>11. Held(c)'
      BY <3>2, <3>7, <3>9 DEF Held
    <3> QED BY <3>10, <3>11
  <2> QED BY <2>4, <2>5
<1> QED BY <1>4, <1>5, <1>6 DEF HostActs

LEMMA HostFlows ==
    ASSUME BInv, Host, NEW c \in Cns
    PROVE  Flow(c)' /\ Held(c)'
<1>1. ASSUME NEW cn \in Cns,
             HostConnects(cn) \/ HostDisconnects(cn) \/ HostAcknowledged(cn) \/ HostMarks(cn)
      PROVE  Flow(c)' /\ Held(c)'
  BY <1>1, HostConnectsFlows, HostDisconnectsFlows, HostAcknowledgedFlows, HostMarksFlows
<1> QED BY <1>1, HostServesFlows, HostActsFlows DEF Host, HostProcesses

LEMMA NoneHeld == Distinct(<<>>)
  BY SelectedOfEmpty DEF Distinct

LEMMA ResetRestFlows ==
    ASSUME ResetRest, NEW c \in Cns
    PROVE  Flow(c)' /\ Held(c)'
<1>1. hostState'[c] = "idle" /\ unacked'[c] = <<>>
  BY DEF ResetRest
<1> QED BY <1>1, NoneHeld DEF Flow, Held, Live

LEMMA InitBInv == Init => BInv
<1> SUFFICES ASSUME Init, NEW c \in Cns PROVE Flow(c) /\ Held(c)
  BY InitCInv DEF BInv
<1>1. hostState[c] = "idle" /\ unacked[c] = <<>>
  BY DEF Init
<1> QED BY <1>1, NoneHeld DEF Flow, Held, Live

LEMMA NextBInv == BInv /\ [Next]_vars => BInv'
<1> SUFFICES ASSUME BInv, [Next]_vars PROVE BInv'
  OBVIOUS
<1>1. CInv'
  BY NextCInv DEF BInv
<1> SUFFICES ASSUME ~resetting', NEW c \in Cns PROVE Flow(c)' /\ Held(c)'
  BY <1>1 DEF BInv
<1>2. CASE UNCHANGED vars
  <2>1. UNCHANGED <<upline, downline, termState, pcbp, outputQ, breakPending, unsettled,
                    hostState, unacked, resetting>>
    BY <1>2 DEF vars, portVars, termVars, flowVars, netVars, lineVars, resetVars, hostVars
  <2>2. Flow(c) /\ Held(c)
    BY <2>1 DEF BInv
  <2> QED BY <2>1, <2>2 DEF Flow, Held, Live, Settled
<1>3. CASE NetThread \/ User
  <2>1. ~resetting
    BY <1>3 DEF NetThread, User, Accept, TakePort, NotifyNetConnect, Leave, resetVars
  <2> QED BY <1>1, <1>3, <2>1, NetThreadFlows
<1>4. CASE CheckStatus
  BY <1>1, <1>4, CheckStatusOpenFlows, CheckStatusLeftFlows DEF CheckStatus
<1>5. CASE ProcessDownline
  BY <1>1, <1>5, DownlineFlows
<1>6. CASE Host
  BY <1>6, HostFlows
<1>7. CASE Reset
  <2>1. ~NetReset
    BY DEF NetReset
  <2> QED BY <1>7, <2>1, ResetRestFlows DEF Reset
<1> QED BY <1>2, <1>3, <1>4, <1>5, <1>6, <1>7 DEF Next

-----------------------------------------------------------------------------
(* What the flow of a connection's blocks says of the places they are in.  *)

InPlaces(c, up, out, down) ==
    NumbersIn(up, {"BACK"}, c) \o out \o NumbersIn(down, {"MSG", "MARK"}, c)

LEMMA InOrderIsInPlaces ==
    ASSUME NEW c \in Cns, NEW up \in Seq(UplineMessages), NEW down \in Seq(DownlineMessages),
           NEW out \in Seq(OutputBuffers), NEW un, NEW S, S \subseteq Numbers,
           InOrder(c, S, up, down, out, un)
    PROVE  Selected(InPlaces(c, up, out, down), S) = Selected(un, S)
<1> DEFINE T == Numbers \cup {Nobody}
           x == NumbersIn(up, {"BACK"}, c)
           K == {"MSG", "MARK"}
           y == NumbersIn(down, K, c)
<1>1. x \in Seq(Numbers) /\ y \in Seq(Numbers)
  <2> HIDE DEF K
  <2> QED BY NumbersInQueue
<1>2. Numbers \subseteq T /\ OutputBuffers \subseteq T
  BY NumbersAreThese DEF OutputBuffers
<1> HIDE DEF T, x, y, K
<1>3. x \in Seq(T) /\ y \in Seq(T) /\ out \in Seq(T)
  BY <1>1, <1>2, SeqMonotonic
<1> DEFINE xo == x \o out
<1>4. xo \in Seq(T)
  BY <1>3, ConcatProperties
<1>5. Selected(xo, S) = Selected(x, S) \o Selected(out, S)
  BY <1>3, SelectedOfConcat
<1> HIDE DEF xo
<1>6. Selected(xo \o y, S) = Selected(xo, S) \o Selected(y, S)
  <2>1. y \in Seq(T)
    BY <1>3
  <2> QED BY <1>4, <2>1, SelectedOfConcat
<1>7. Selected(x, S) \o Selected(out, S) \o Selected(y, S) = Selected(un, S)
  BY DEF InOrder, Nums, x, y, K
<1>8. Selected(xo \o y, S) = Selected(un, S)
  BY <1>5, <1>6, <1>7
<1> QED BY <1>8 DEF InPlaces, xo, x, y, K

LEMMA BlocksInPlaces == BInv => BlockInOnePlace
<1>1. ASSUME BInv, NEW c \in Cns, ~resetting, hostState[c] # "idle",
             termState[c] \notin {"Idle", "RequestConnection"}, pcbp[c] \notin unsettled,
             NEW S, S = Data \/ S = Marks
      PROVE  Selected(InPlaces(c, upline, outputQ[c], downline), S) = Selected(unacked[c], S)
  <2> DEFINE un == unacked[c]
             out == outputQ[c]
  <2>1. /\ upline \in Seq(UplineMessages) /\ downline \in Seq(DownlineMessages)
        /\ out \in Seq(OutputBuffers) /\ termState[c] \in TermStates
    BY <1>1, BTypes
  <2>2. Live(c) /\ Settled(c) /\ Flow(c)
    BY <1>1, <2>1 DEF Live, Settled, BInv
  <2>3. Flows(c, upline, downline, out, un, breakPending[c], TRUE)
    BY <2>2 DEF Flow, Flows
  <2> HIDE DEF out, un
  <2>4. S \subseteq Numbers /\ InOrder(c, S, upline, downline, out, un)
    BY <1>1, <2>3, NumberSets DEF Flows
  <2>5. Selected(InPlaces(c, upline, out, downline), S) = Selected(un, S)
    BY <2>1, <2>4, InOrderIsInPlaces
  <2> QED BY <2>5 DEF out, un
<1>2. {1 .. Window, {MarkNumber}} = {Data, Marks}
  BY DEF Data, Marks
<1> QED BY <1>1, <1>2 DEF BlockInOnePlace, InPlaces

\* Every block the host waits for an acknowledgement of is in one place, and data blocks
\* are in the order they were sent: whatever is interrupted, purged by a break, dropped or
\* discarded at the end of a connection (npu_tip.c:1223, npu_svm.c:819), no block is
\* acknowledged twice and none is lost.
THEOREM BlocksAreInOnePlace == Spec => []BlockInOnePlace
<1>1. Spec => []BInv
  BY InitBInv, NextBInv, PTL DEF Spec
<1> QED BY <1>1, BlocksInPlaces, PTL

=============================================================================
