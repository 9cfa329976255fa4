-------------------------- MODULE DebugWindowsProofs --------------------------
(***************************************************************************)
(* For every number of slots, windows, buffers and tasks: the window table *)
(* and the slots agree (WindowsMatch), a released slot has a message that  *)
(* will make it idle (ReleaseCanEnd), every buffer is in one place         *)
(* (BufferPlaces), and an accepted connection finds a slot                 *)
(* (ConnectionFits).                                                       *)
(***************************************************************************)
EXTENDS DebugWindows, FunctionTheorems, FiniteSetTheorems, WellFoundedInduction, TLAPS

Slot == [WinId : Windows \cup {None},
         SockId : Conns \cup {NoSock},
         Status : {"IDLE", "CONNECT", "ACTIVE", "PAUSE", "RELEASE"},
         Period : {0, 1}]

Types ==
  /\ mMmlCnfg \in [Slots -> Slot]
  /\ winNum \in [Windows -> Slots \cup {None}]
  /\ pipe \in [Slots -> Seq(Bufs)]
  /\ timer \in [Slots -> Windows \cup {None}]
  /\ ctrl \in Seq(Order)
  /\ ready \in [mml : BOOLEAN, ctrl : BOOLEAN, socks : SUBSET Slots, pipes : SUBSET Slots]
  /\ peer \in [Conns -> [says : {"nothing", "config", "close", "gone"},
                         win : Windows \cup {None}]]
  /\ app \in [Apps -> [pc : {"idle", "status", "write", "suspended"},
                       num : Slots \cup {None}, buf : SUBSET Bufs]]
  /\ free \subseteq Bufs

\* A connected slot has a client and no window yet, an open one has a window.
SlotsSound ==
  \A i \in Slots :
    /\ mMmlCnfg[i].Status = "CONNECT" => mMmlCnfg[i].WinId = None /\ mMmlCnfg[i].SockId \in Conns
    /\ mMmlCnfg[i].Status \in {"ACTIVE", "PAUSE"} => mMmlCnfg[i].WinId \in Windows

\* A socket reported by select is still its slot's when its turn comes.
SocksSound == \A i \in ready.socks : mMmlCnfg[i].SockId \in Conns

\* An order reported by select is still in the pipe.
OrdersSound == ready.ctrl => ctrl # << >>

\* Who asks for a window names one.
PeersSound == \A c \in Conns : peer[c].says = "config" => peer[c].win \in Windows

IInv == Types /\ WindowsMatch /\ SlotsSound /\ ReleaseCanEnd /\ SocksSound /\ OrdersSound /\ PeersSound

-----------------------------------------------------------------------------

\* The first of some slots is one of them.
LEMMA FirstOfIn == ASSUME NEW S \in SUBSET Slots, S # {} PROVE FirstOf(S) \in S
<1> DEFINE R == {ss \in Nat \X Nat : ss[1] < ss[2]}
<1>1. IsWellFoundedOn(R, Nat)
  <2>1. R = OpToRel(<, Nat)
    BY DEF OpToRel
  <2> QED
    BY <2>1, NatLessThanWellFounded
<1>2. S \subseteq Nat
  BY DebugWindowsAssumption DEF Slots
<1>3. PICK i \in S : \A j \in S : <<j, i>> \notin R
  BY <1>1, <1>2, WFMin
<1>4. ASSUME NEW j \in S PROVE i <= j
  <2>1. i \in Nat /\ j \in Nat /\ <<j, i>> \notin R
    BY <1>2, <1>3
  <2>2. ~(j < i)
    BY <2>1
  <2> QED
    BY <2>1, <2>2
<1> QED
  BY <1>4 DEF FirstOf

\* Assigning one field of one slot, or two of them, leaves the table typed.
LEMMA PutSockId ==
  ASSUME NEW m \in [Slots -> Slot], NEW i \in Slots, NEW x \in Conns \cup {NoSock}
  PROVE  [m EXCEPT ![i].SockId = x] \in [Slots -> Slot]
BY DEF Slot

LEMMA PutWinId ==
  ASSUME NEW m \in [Slots -> Slot], NEW i \in Slots, NEW x \in Windows \cup {None}
  PROVE  [m EXCEPT ![i].WinId = x] \in [Slots -> Slot]
BY DEF Slot

LEMMA PutStatus ==
  ASSUME NEW m \in [Slots -> Slot], NEW i \in Slots,
         NEW x \in {"IDLE", "CONNECT", "ACTIVE", "PAUSE", "RELEASE"}
  PROVE  [m EXCEPT ![i].Status = x] \in [Slots -> Slot]
BY DEF Slot

LEMMA PutPeriod ==
  ASSUME NEW m \in [Slots -> Slot], NEW i \in Slots, NEW x \in {0, 1}
  PROVE  [m EXCEPT ![i].Period = x] \in [Slots -> Slot]
BY DEF Slot

\* The first state satisfies the invariant.
LEMMA InitInv == Init => IInv
<1> SUFFICES ASSUME Init PROVE IInv
  OBVIOUS
<1>1. Types
  BY DebugWindowsAssumption
  DEF Init, Types, Slot, Slots, Windows, None, Idle, Quiet, Gone, NothingReady, Order
<1> QED
  BY <1>1, DebugWindowsAssumption
  DEF Init, IInv, WindowsMatch, SlotsSound, ReleaseCanEnd, SocksSound, OrdersSound, PeersSound,
      Slots, Windows, None, Gone, NothingReady

\* A client leaves slot i: the tables stay sound, whatever the slot's state.
LEMMA UserSockFailSound ==
  ASSUME IInv, NEW i \in Slots, mMmlCnfg[i].SockId \in Conns, UserSockFail(i),
         UNCHANGED <<pipe, free, ctrl, app>>,
         ready' = [ready EXCEPT !.socks = @ \ {i}]
  PROVE  IInv'
<1> USE DEF IInv
<1>1. Types'
  BY DEF Types, Slot, UserSockFail, Gone
<1>2. /\ mMmlCnfg'[i].WinId = None /\ mMmlCnfg'[i].SockId = NoSock
      /\ mMmlCnfg'[i].Status \in {"IDLE", "RELEASE"}
      /\ mMmlCnfg'[i].Status = "RELEASE" => pipe[i] # << >>
      /\ \A j \in Slots \ {i} : mMmlCnfg'[j] = mMmlCnfg[j]
  BY DEF Types, Slot, UserSockFail, ReleaseCanEnd
<1>3. WindowsMatch'
  <2>1. ASSUME NEW w \in Windows, winNum[w] = i PROVE winNum'[w] = None
    BY <2>1 DEF Types, WindowsMatch, UserSockFail
  <2>2. ASSUME NEW w \in Windows, winNum[w] # i PROVE winNum'[w] = winNum[w]
    BY <2>2 DEF Types, WindowsMatch, UserSockFail
  <2>3. None \notin Slots /\ None \notin Windows
    BY DebugWindowsAssumption DEF None, Slots, Windows
  <2> QED
    BY <1>2, <2>1, <2>2, <2>3 DEF WindowsMatch
<1>4. SlotsSound' /\ ReleaseCanEnd'
  BY <1>2 DEF SlotsSound, ReleaseCanEnd
<1>5. SocksSound' /\ OrdersSound' /\ PeersSound'
  BY <1>2 DEF SocksSound, OrdersSound, PeersSound, Types, UserSockFail, Gone
<1> QED
  BY <1>1, <1>3, <1>4, <1>5

\* A window nobody serves is given to slot i, whose client has none.
LEMMA ConfigureSound ==
  ASSUME IInv, NEW i \in Slots, NEW w \in Windows, winNum[w] = None,
         mMmlCnfg[i].WinId = None, mMmlCnfg[i].SockId \in Conns, Configure(i, w),
         pipe' = pipe
  PROVE  /\ WindowsMatch' /\ SlotsSound' /\ ReleaseCanEnd'
         /\ mMmlCnfg' \in [Slots -> Slot]
         /\ winNum' \in [Windows -> Slots \cup {None}]
         /\ timer' = timer
         /\ \A j \in Slots : mMmlCnfg'[j].SockId = mMmlCnfg[j].SockId
<1> USE DEF IInv
<1>1. /\ mMmlCnfg'[i].WinId = w /\ mMmlCnfg'[i].SockId = mMmlCnfg[i].SockId
      /\ mMmlCnfg'[i].Status = "ACTIVE"
      /\ \A j \in Slots \ {i} : mMmlCnfg'[j] = mMmlCnfg[j]
      /\ winNum'[w] = i
      /\ \A v \in Windows \ {w} : winNum'[v] = winNum[v]
  BY DEF Types, Configure
<1>2. None \notin Slots /\ None \notin Windows
  BY DebugWindowsAssumption DEF None, Slots, Windows
<1>3. WindowsMatch'
  <2> SUFFICES ASSUME NEW j \in Slots, NEW v \in Windows
               PROVE  /\ mMmlCnfg'[j].WinId = v <=> winNum'[v] = j
                      /\ winNum'[v] = j => /\ mMmlCnfg'[j].Status \in {"ACTIVE", "PAUSE"}
                                           /\ mMmlCnfg'[j].SockId \in Conns
    BY DEF WindowsMatch
  <2>1. CASE j = i /\ v = w
    BY <2>1, <1>1
  <2>2. CASE j = i /\ v # w
    BY <2>2, <1>1, <1>2 DEF WindowsMatch
  <2>3. CASE j # i /\ v = w
    BY <2>3, <1>1, <1>2 DEF WindowsMatch
  <2>4. CASE j # i /\ v # w
    BY <2>4, <1>1 DEF WindowsMatch
  <2> QED
    BY <2>1, <2>2, <2>3, <2>4, Zenon
<1>4. SlotsSound' /\ ReleaseCanEnd'
  BY <1>1 DEF SlotsSound, ReleaseCanEnd
<1>5. /\ mMmlCnfg' \in [Slots -> Slot]
      /\ winNum' \in [Windows -> Slots \cup {None}]
      /\ timer' = timer
  <2>1. mMmlCnfg \in [Slots -> Slot] /\ winNum \in [Windows -> Slots \cup {None}]
    BY DEF Types
  <2> DEFINE n == [mMmlCnfg EXCEPT ![i].WinId = w]
  <2>2. n \in [Slots -> Slot]
    BY <2>1, PutWinId
  <2>3. /\ mMmlCnfg' = [n EXCEPT ![i].Status = "ACTIVE"]
        /\ winNum' = [winNum EXCEPT ![w] = i]
        /\ timer' = timer
    BY DEF Configure
  <2> HIDE DEF n
  <2>4. mMmlCnfg' \in [Slots -> Slot]
    BY <2>2, <2>3, PutStatus
  <2> QED
    BY <2>1, <2>3, <2>4
<1>6. ASSUME NEW j \in Slots PROVE mMmlCnfg'[j].SockId = mMmlCnfg[j].SockId
  BY <1>1
<1> QED
  BY <1>3, <1>4, <1>5, <1>6

\* A slot that serves a window is not released, one without a client is free.
LEMMA SlotFacts ==
  ASSUME IInv, NEW i \in Slots
  PROVE  /\ mMmlCnfg[i].WinId \in Windows =>
              mMmlCnfg[i].Status \in {"ACTIVE", "PAUSE"} /\ mMmlCnfg[i].SockId \in Conns
         /\ mMmlCnfg[i].SockId = NoSock => mMmlCnfg[i].WinId = None
<1>1. None \notin Windows /\ NoSock \notin Conns
  BY DebugWindowsAssumption DEF None, Windows
<1>2. mMmlCnfg[i].WinId \in Windows \cup {None}
  BY DEF IInv, Types, Slot
<1>3. ASSUME mMmlCnfg[i].WinId \in Windows
      PROVE  mMmlCnfg[i].Status \in {"ACTIVE", "PAUSE"} /\ mMmlCnfg[i].SockId \in Conns
  BY <1>3 DEF IInv, WindowsMatch
<1> QED
  BY <1>1, <1>2, <1>3

\* What an order does to a slot: nothing, or it enters a client in a slot
\* without one, or it changes the state of one that serves a window.
Ordered(i) ==
  \/ mMmlCnfg'[i] = mMmlCnfg[i] /\ pipe'[i] = pipe[i]
  \/ /\ mMmlCnfg[i].SockId = NoSock
     /\ mMmlCnfg'[i].WinId = mMmlCnfg[i].WinId
     /\ mMmlCnfg'[i].SockId \in Conns /\ mMmlCnfg'[i].Status = "CONNECT"
  \/ /\ mMmlCnfg[i].WinId \in Windows
     /\ mMmlCnfg'[i].WinId = mMmlCnfg[i].WinId
     /\ mMmlCnfg'[i].SockId = mMmlCnfg[i].SockId
     /\ mMmlCnfg'[i].Status \in {"ACTIVE", "PAUSE"}

\* So much is enough for the tables to stay sound.
LEMMA OrderSound ==
  ASSUME IInv, UNCHANGED winNum,
         mMmlCnfg' \in [Slots -> Slot],
         \A i \in Slots : Ordered(i)
  PROVE  /\ WindowsMatch' /\ SlotsSound' /\ ReleaseCanEnd'
         /\ \A i \in Slots : mMmlCnfg[i].SockId \in Conns => mMmlCnfg'[i].SockId \in Conns
<1> USE DEF IInv
<1>1. None \notin Windows /\ NoSock \notin Conns
  BY DebugWindowsAssumption DEF None, Windows
<1>2. ASSUME NEW i \in Slots
      PROVE  /\ mMmlCnfg'[i].WinId = mMmlCnfg[i].WinId
             /\ mMmlCnfg[i].SockId \in Conns => mMmlCnfg'[i].SockId \in Conns
             /\ mMmlCnfg[i].WinId \in Windows => mMmlCnfg'[i].Status \in {"ACTIVE", "PAUSE"}
             /\ mMmlCnfg'[i].Status = "CONNECT" =>
                  mMmlCnfg'[i].WinId = None /\ mMmlCnfg'[i].SockId \in Conns
             /\ mMmlCnfg'[i].Status \in {"ACTIVE", "PAUSE"} => mMmlCnfg'[i].WinId \in Windows
             /\ mMmlCnfg'[i].Status = "RELEASE" => pipe'[i] # << >>
  BY <1>1, SlotFacts DEF SlotsSound, ReleaseCanEnd, Ordered
<1>3. SlotsSound' /\ ReleaseCanEnd'
  BY <1>2 DEF SlotsSound, ReleaseCanEnd
<1>4. WindowsMatch'
  BY <1>2 DEF WindowsMatch
<1> QED
  BY <1>2, <1>3, <1>4

\* The buffers of a pipe are buffers, and an emptied pipe is one.
LEMMA EmptyPipeType ==
  ASSUME Types, NEW i \in Slots, EmptyPipe(i)
  PROVE  pipe' \in [Slots -> Seq(Bufs)] /\ free' \subseteq Bufs
<1>1. pipe[i] \in Seq(Bufs)
  BY DEF Types
<1>2. \A k \in DOMAIN pipe[i] : pipe[i][k] \in Bufs
  BY <1>1
<1> QED
  BY <1>2 DEF Types, EmptyPipe

\* What an order does keeps the invariant.
LEMMA DealMmlCtrlOrdSound == ASSUME IInv, DealMmlCtrlOrd PROVE IInv'
<1> USE DEF IInv
<1> DEFINE o == Head(ctrl)
<1>1. o \in Order /\ ctrl' \in Seq(Order)
  BY DEF DealMmlCtrlOrd, OrdersSound, Types
<1>0. mMmlCnfg \in [Slots -> Slot] /\ timer \in [Slots -> Windows \cup {None}]
  BY DEF Types
<1> DEFINE Sound == /\ mMmlCnfg' \in [Slots -> Slot]
                    /\ timer' \in [Slots -> Windows \cup {None}]
                    /\ pipe' \in [Slots -> Seq(Bufs)] /\ free' \subseteq Bufs
                    /\ \A i \in Slots : Ordered(i)
<1>2. ASSUME AddDbg(o.conn), o.code = "TOADDDBG" PROVE Sound
  <2>1. o.conn \in Conns
    BY <1>1, <1>2 DEF Order
  <2>2. CASE FreeSlots = {}
    BY <1>2, <2>2 DEF AddDbg, Types, Ordered
  <2>3. CASE FreeSlots # {}
    <3> DEFINE f == FirstOf(FreeSlots)
    <3>1. f \in Slots /\ mMmlCnfg[f].SockId = NoSock
      BY <2>3, FirstOfIn DEF FreeSlots
    <3>2. mMmlCnfg' = [mMmlCnfg EXCEPT ![f].SockId = o.conn, ![f].Status = "CONNECT"]
      BY <1>2, <2>3 DEF AddDbg
    <3>3. UNCHANGED <<timer, pipe, free>>
      BY <1>2 DEF AddDbg
    <3> HIDE DEF f, o
    <3>4. mMmlCnfg' \in [Slots -> Slot]
      <4> DEFINE n == [mMmlCnfg EXCEPT ![f].SockId = o.conn]
      <4>1. n \in [Slots -> Slot]
        BY <1>0, <2>1, <3>1, PutSockId
      <4>2. mMmlCnfg' = [n EXCEPT ![f].Status = "CONNECT"]
        BY <3>2
      <4> HIDE DEF n
      <4> QED
        BY <3>1, <4>1, <4>2, PutStatus
    <3>5. \A i \in Slots : Ordered(i)
      BY <2>1, <3>1, <3>2, <3>3 DEF Types, Slot, Ordered
    <3> QED
      BY <3>3, <3>4, <3>5 DEF Types
  <2> QED
    BY <2>2, <2>3
<1>3. ASSUME NEW w \in Windows, Activate(w) PROVE Sound
  <2> DEFINE paused == {i \in SlotsOf(w) : mMmlCnfg[i].Status = "PAUSE"}
  <2>1. CASE paused = {}
    BY <1>3, <2>1 DEF Activate, Types, Ordered
  <2>2. CASE paused # {}
    <3> DEFINE f == FirstOf(paused)
    <3>1. f \in Slots /\ mMmlCnfg[f].WinId = w
      BY <2>2, FirstOfIn DEF SlotsOf
    <3>2. /\ mMmlCnfg' = [mMmlCnfg EXCEPT ![f].Status = "ACTIVE", ![f].Period = 0]
          /\ timer' = [timer EXCEPT ![f] = None]
          /\ UNCHANGED <<pipe, free>>
      BY <1>3, <2>2 DEF Activate
    <3> HIDE DEF f
    <3>3. mMmlCnfg' \in [Slots -> Slot] /\ timer' \in [Slots -> Windows \cup {None}]
      <4> DEFINE n == [mMmlCnfg EXCEPT ![f].Status = "ACTIVE"]
      <4>1. n \in [Slots -> Slot]
        BY <1>0, <3>1, PutStatus
      <4>2. mMmlCnfg' = [n EXCEPT ![f].Period = 0]
        BY <3>2
      <4> HIDE DEF n
      <4>3. mMmlCnfg' \in [Slots -> Slot]
        BY <3>1, <4>1, <4>2, PutPeriod
      <4>4. timer' \in [Slots -> Windows \cup {None}]
        BY <1>0, <3>1, <3>2
      <4> QED
        BY <4>3, <4>4
    <3>4. \A i \in Slots : Ordered(i)
      BY <3>1, <3>2 DEF Types, Slot, Ordered
    <3> QED
      BY <3>2, <3>3, <3>4 DEF Types
  <2> QED
    BY <2>1, <2>2
<1>4. ASSUME NEW w \in Windows, Pause(w) PROVE Sound
  <2>1. CASE UNCHANGED <<mMmlCnfg, timer, pipe, free>>
    BY <2>1 DEF Types, Ordered
  <2>2. ASSUME NEW i \in SlotsOf(w), i = FirstOf(SlotsOf(w)),
               NEW timed \in BOOLEAN,
               mMmlCnfg' = [mMmlCnfg EXCEPT
                              ![i].Period = IF timed THEN 0 ELSE @,
                              ![i].Status = IF @ = "ACTIVE" THEN "PAUSE" ELSE @],
               timer' = IF timed THEN [timer EXCEPT ![i] = None] ELSE timer,
               UNCHANGED <<pipe, free>>
        PROVE  Sound
    <3>1. i \in Slots /\ mMmlCnfg[i].WinId = w /\ mMmlCnfg[i].Status \in {"ACTIVE", "PAUSE"}
      BY SlotFacts DEF SlotsOf
    <3>2. mMmlCnfg' \in [Slots -> Slot] /\ timer' \in [Slots -> Windows \cup {None}]
      <4> DEFINE pd == IF timed THEN 0 ELSE mMmlCnfg[i].Period
                 st == IF mMmlCnfg[i].Status = "ACTIVE" THEN "PAUSE" ELSE mMmlCnfg[i].Status
                 n == [mMmlCnfg EXCEPT ![i].Period = pd]
      <4>1. pd \in {0, 1} /\ st \in {"ACTIVE", "PAUSE"}
        <5>1. mMmlCnfg[i] \in Slot
          BY <1>0, <3>1
        <5> QED
          BY <3>1, <5>1 DEF Slot
      <4>5. i \in DOMAIN mMmlCnfg /\ mMmlCnfg[i] \in Slot
        BY <1>0, <3>1
      <4>6. mMmlCnfg' = [n EXCEPT ![i].Status = st]
        BY <2>2, <4>5 DEF Slot
      <4> HIDE DEF pd, st
      <4>7. n \in [Slots -> Slot]
        BY <1>0, <3>1, <4>1, PutPeriod
      <4> HIDE DEF n
      <4>2. mMmlCnfg' \in [Slots -> Slot]
        BY <3>1, <4>1, <4>6, <4>7, PutStatus
      <4>3. CASE timed
        BY <1>0, <2>2, <3>1, <4>2, <4>3
      <4>4. CASE ~timed
        BY <1>0, <2>2, <4>2, <4>4
      <4> QED
        BY <4>3, <4>4
    <3>3. \A j \in Slots : Ordered(j)
      BY <2>2, <3>1 DEF Types, Slot, Ordered
    <3> QED
      BY <2>2, <3>2, <3>3 DEF Types
  <2> QED
    BY <1>4, <2>1, <2>2 DEF Pause
<1>5. ASSUME NEW w \in Windows, Timer(w) PROVE Sound
  <2>1. ASSUME NEW i \in Slots
        PROVE  mMmlCnfg'[i] \in Slot /\ timer'[i] \in Windows \cup {None} /\ Ordered(i)
    <3>1. CASE i \in SlotsOf(w)
      <4>1. mMmlCnfg[i] \in Slot /\ mMmlCnfg[i].WinId = w
        BY <1>0, <3>1 DEF SlotsOf
      <4>2. mMmlCnfg'[i] = [mMmlCnfg[i] EXCEPT !.Status = "PAUSE", !.Period = 1]
            /\ timer'[i] = w
        BY <1>5, <3>1 DEF Timer
      <4> QED
        BY <4>1, <4>2 DEF Slot, Ordered
    <3>2. CASE i \notin SlotsOf(w)
      BY <1>0, <1>5, <3>2 DEF Timer, Ordered
    <3> QED
      BY <3>1, <3>2
  <2>2. mMmlCnfg' \in [Slots -> Slot] /\ timer' \in [Slots -> Windows \cup {None}]
    <3>1. DOMAIN mMmlCnfg' = Slots /\ DOMAIN timer' = Slots
          /\ mMmlCnfg' = [i \in Slots |-> mMmlCnfg'[i]] /\ timer' = [i \in Slots |-> timer'[i]]
      BY <1>5 DEF Timer
    <3> QED
      BY <2>1, <3>1
  <2> QED
    BY <1>5, <2>1, <2>2 DEF Timer, Types
<1>6. ASSUME NEW w \in Windows, Timeout(w) PROVE Sound
  <2>1. CASE UNCHANGED <<mMmlCnfg, timer, pipe, free>>
    BY <2>1 DEF Types, Ordered
  <2>2. ASSUME NEW i \in SlotsOf(w), EmptyPipe(i), timer' = [timer EXCEPT ![i] = w],
               UNCHANGED mMmlCnfg
        PROVE  Sound
    <3>1. i \in Slots /\ mMmlCnfg[i].WinId = w /\ mMmlCnfg[i].Status \in {"ACTIVE", "PAUSE"}
      BY SlotFacts DEF SlotsOf
    <3>2. mMmlCnfg' \in [Slots -> Slot] /\ timer' \in [Slots -> Windows \cup {None}]
      BY <2>2, <3>1 DEF Types
    <3>3. pipe' \in [Slots -> Seq(Bufs)] /\ free' \subseteq Bufs
      BY <2>2, <3>1, EmptyPipeType
    <3>4. \A j \in Slots : Ordered(j)
      BY <2>2, <3>1 DEF Types, EmptyPipe, Ordered
    <3> QED
      BY <3>2, <3>3, <3>4
  <2> QED
    BY <1>6, <2>1, <2>2 DEF Timeout
<1>7. o.code # "TOADDDBG" => o.win \in Windows
  BY <1>1 DEF Order
<1> HIDE DEF Sound
<1>8. Sound
  BY <1>2, <1>3, <1>4, <1>5, <1>6, <1>7 DEF DealMmlCtrlOrd
<1>9. UNCHANGED <<winNum, peer, app>> /\ ready' = [ready EXCEPT !.ctrl = FALSE]
  BY DEF DealMmlCtrlOrd
<1>10. Types'
  BY <1>1, <1>8, <1>9 DEF Sound, Types
<1>11. /\ WindowsMatch' /\ SlotsSound' /\ ReleaseCanEnd'
       /\ \A i \in Slots : mMmlCnfg[i].SockId \in Conns => mMmlCnfg'[i].SockId \in Conns
  BY <1>8, <1>9, OrderSound DEF Sound
<1>12. SocksSound' /\ OrdersSound' /\ PeersSound'
  BY <1>9, <1>11 DEF SocksSound, OrdersSound, PeersSound, Types
<1> QED
  BY <1>10, <1>11, <1>12

\* A round of select reports sockets of connected and open slots only.
LEMMA SelectSound == ASSUME IInv, Select PROVE IInv'
<1> USE DEF IInv
<1>1. UNCHANGED <<mMmlCnfg, winNum, timer, pipe, free, ctrl, peer, app>>
  BY DEF Select, tables
<1>2. /\ ready' \in [mml : BOOLEAN, ctrl : BOOLEAN, socks : SUBSET Slots, pipes : SUBSET Slots]
      /\ ready'.ctrl => ctrl # << >>
      /\ \A i \in ready'.socks : i \in Slots /\ WatchesSock(i)
  <2>1. PICK mml \in BOOLEAN :
          ready' = [mml |-> mml,
                    ctrl |-> ctrl # << >>,
                    socks |-> {i \in Slots : WatchesSock(i) /\ peer[mMmlCnfg[i].SockId] # Quiet},
                    pipes |-> {i \in Slots : WatchesPipe(i) /\ pipe[i] # << >>}]
    BY DEF Select
  <2>2. (ctrl # << >>) \in BOOLEAN
    OBVIOUS
  <2> QED
    BY <2>1, <2>2
<1>3. ASSUME NEW i \in Slots, WatchesSock(i) PROVE mMmlCnfg[i].SockId \in Conns
  <2>1. mMmlCnfg[i].Status \in {"CONNECT", "ACTIVE", "PAUSE"}
    BY <1>3 DEF WatchesSock
  <2> QED
    BY <2>1, SlotFacts DEF SlotsSound
<1>4. Types' /\ OrdersSound' /\ SocksSound' /\ PeersSound'
  BY <1>1, <1>2, <1>3 DEF Types, OrdersSound, SocksSound, PeersSound
<1> QED
  BY <1>1, <1>4 DEF WindowsMatch, SlotsSound, ReleaseCanEnd

\* What the client of a slot has sent keeps the invariant.
LEMMA DealWatchSockSound == ASSUME IInv, NEW i \in Slots, DealWatchSock(i) PROVE IInv'
<1> USE DEF IInv
<1> DEFINE s == mMmlCnfg[i]
           said == peer[s.SockId]
<1>1. /\ s.SockId \in Conns
      /\ ready' = [ready EXCEPT !.socks = @ \ {i}]
      /\ UNCHANGED <<pipe, free, ctrl, app>>
  BY DEF DealWatchSock, SocksSound
<1>2. CASE UserSockFail(i)
  BY <1>1, <1>2, UserSockFailSound
<1>3. ASSUME peer' = [peer EXCEPT ![s.SockId] = Quiet]
      PROVE  /\ ready' \in [mml : BOOLEAN, ctrl : BOOLEAN, socks : SUBSET Slots, pipes : SUBSET Slots]
             /\ peer' \in [Conns -> [says : {"nothing", "config", "close", "gone"},
                                     win : Windows \cup {None}]]
             /\ PeersSound' /\ OrdersSound'
  <2>1. /\ ready \in [mml : BOOLEAN, ctrl : BOOLEAN, socks : SUBSET Slots, pipes : SUBSET Slots]
        /\ peer \in [Conns -> [says : {"nothing", "config", "close", "gone"},
                                win : Windows \cup {None}]]
    BY DEF Types
  <2> QED
    BY <1>1, <1>3, <2>1 DEF Quiet, PeersSound, OrdersSound
<1>4. CASE peer' = [peer EXCEPT ![s.SockId] = Quiet] /\ UNCHANGED tables
  <2>1. UNCHANGED <<mMmlCnfg, winNum, timer>>
    BY <1>4 DEF tables
  <2>2. Types' /\ SocksSound'
    BY <1>1, <1>3, <1>4, <2>1 DEF Types, SocksSound
  <2> QED
    BY <1>1, <1>3, <1>4, <2>1, <2>2 DEF WindowsMatch, SlotsSound, ReleaseCanEnd
<1>5. CASE /\ peer' = [peer EXCEPT ![s.SockId] = Quiet]
           /\ said.says = "config" /\ s.WinId = None /\ winNum[said.win] = None
           /\ Configure(i, said.win)
  <2>1. said.win \in Windows
    BY <1>1, <1>5 DEF PeersSound
  <2>2. /\ WindowsMatch' /\ SlotsSound' /\ ReleaseCanEnd'
        /\ mMmlCnfg' \in [Slots -> Slot]
        /\ winNum' \in [Windows -> Slots \cup {None}]
        /\ timer' = timer
        /\ \A j \in Slots : mMmlCnfg'[j].SockId = mMmlCnfg[j].SockId
    BY <1>1, <1>5, <2>1, ConfigureSound
  <2>3. Types' /\ SocksSound'
    BY <1>1, <1>3, <1>5, <2>2 DEF Types, SocksSound
  <2> QED
    BY <1>3, <1>5, <2>2, <2>3
<1> QED
  BY <1>2, <1>4, <1>5 DEF DealWatchSock

\* A pipe that is emptied ends the release of its slot.
LEMMA DealWatchPipeSound == ASSUME IInv, NEW i \in Slots, DealWatchPipe(i) PROVE IInv'
<1> USE DEF IInv
<1>1. /\ mMmlCnfg' = [mMmlCnfg EXCEPT ![i].Status = IF @ = "RELEASE" THEN "IDLE" ELSE @]
      /\ ready' = [ready EXCEPT !.pipes = @ \ {i}]
      /\ pipe' = [pipe EXCEPT ![i] = << >>]
      /\ UNCHANGED <<winNum, timer, ctrl, peer, app>>
  BY DEF DealWatchPipe, EmptyPipe
<1>2. pipe' \in [Slots -> Seq(Bufs)] /\ free' \subseteq Bufs
  BY EmptyPipeType DEF DealWatchPipe
<1>3. mMmlCnfg \in [Slots -> Slot] /\ pipe \in [Slots -> Seq(Bufs)]
  BY DEF Types
<1>4. /\ mMmlCnfg'[i].Status = IF mMmlCnfg[i].Status = "RELEASE" THEN "IDLE" ELSE mMmlCnfg[i].Status
      /\ mMmlCnfg'[i].WinId = mMmlCnfg[i].WinId /\ mMmlCnfg'[i].SockId = mMmlCnfg[i].SockId
      /\ \A j \in Slots \ {i} : mMmlCnfg'[j] = mMmlCnfg[j] /\ pipe'[j] = pipe[j]
  BY <1>1, <1>3 DEF Slot
<1>5. mMmlCnfg' \in [Slots -> Slot]
  <2> DEFINE st == IF mMmlCnfg[i].Status = "RELEASE" THEN "IDLE" ELSE mMmlCnfg[i].Status
  <2>1. mMmlCnfg' = [mMmlCnfg EXCEPT ![i].Status = st]
    BY <1>1, <1>3
  <2>2. mMmlCnfg[i] \in Slot
    BY <1>3
  <2>3. st \in {"IDLE", "CONNECT", "ACTIVE", "PAUSE", "RELEASE"}
    BY <2>2 DEF Slot
  <2> HIDE DEF st
  <2> QED
    BY <1>3, <2>1, <2>3, PutStatus
<1>6. ready' \in [mml : BOOLEAN, ctrl : BOOLEAN, socks : SUBSET Slots, pipes : SUBSET Slots]
      /\ ready'.socks = ready.socks /\ ready'.ctrl = ready.ctrl
  BY <1>1 DEF Types
<1>7. Types'
  BY <1>1, <1>2, <1>5, <1>6 DEF Types
<1>8. SlotsSound' /\ ReleaseCanEnd'
  BY <1>4 DEF SlotsSound, ReleaseCanEnd
<1>9. WindowsMatch'
  <2>1. mMmlCnfg[i].Status \in {"ACTIVE", "PAUSE"} => mMmlCnfg'[i].Status = mMmlCnfg[i].Status
    BY <1>4
  <2> QED
    BY <1>1, <1>4, <2>1 DEF WindowsMatch
<1>10. SocksSound' /\ OrdersSound' /\ PeersSound'
  <2>1. ready.socks \subseteq Slots
    BY DEF Types
  <2> QED
    BY <1>1, <1>4, <1>6, <2>1 DEF SocksSound, OrdersSound, PeersSound
<1> QED
  BY <1>7, <1>8, <1>9, <1>10

\* A command gives a waiting connection its window.
LEMMA CmdCfgWinSound ==
  ASSUME IInv, NEW i \in Slots, NEW w \in Windows, CmdCfgWin(i, w) PROVE IInv'
<1> USE DEF IInv
<1>1. /\ winNum[w] = None /\ mMmlCnfg[i].Status = "CONNECT" /\ Configure(i, w)
      /\ UNCHANGED <<pipe, free, ctrl, ready, peer, app>>
  BY DEF CmdCfgWin
<1>2. mMmlCnfg[i].WinId = None /\ mMmlCnfg[i].SockId \in Conns
  BY <1>1 DEF SlotsSound
<1>3. /\ WindowsMatch' /\ SlotsSound' /\ ReleaseCanEnd'
      /\ mMmlCnfg' \in [Slots -> Slot]
      /\ winNum' \in [Windows -> Slots \cup {None}]
      /\ timer' = timer
      /\ \A j \in Slots : mMmlCnfg'[j].SockId = mMmlCnfg[j].SockId
  BY <1>1, <1>2, ConfigureSound
<1>4. Types' /\ SocksSound' /\ OrdersSound' /\ PeersSound'
  BY <1>1, <1>3 DEF Types, SocksSound, OrdersSound, PeersSound
<1> QED
  BY <1>3, <1>4

\* A command deletes a window, as if its client had gone.
LEMMA deleteconnectionSound == ASSUME IInv, NEW w \in Windows, deleteconnection(w) PROVE IInv'
<1>1. winNum[w] \in Slots
  BY DEF deleteconnection
<1>2. mMmlCnfg[winNum[w]].SockId \in Conns
  BY <1>1 DEF IInv, WindowsMatch
<1> QED
  BY <1>1, <1>2, UserSockFailSound DEF deleteconnection

\* A step that leaves the slots and windows alone and takes nothing out of a
\* pipe needs only its own variables to be looked at.
LEMMA TablesKept ==
  ASSUME IInv, UNCHANGED <<mMmlCnfg, winNum>>,
         \A i \in Slots : pipe[i] # << >> => pipe'[i] # << >>,
         ready' = ready \/ ready' = [ready EXCEPT !.mml = FALSE],
         ctrl # << >> => ctrl' # << >>,
         Types', PeersSound'
  PROVE  IInv'
<1>1. /\ ready'.socks = ready.socks /\ ready'.ctrl = ready.ctrl
  BY DEF IInv, Types
<1>2. SocksSound' /\ OrdersSound'
  BY <1>1 DEF IInv, SocksSound, OrdersSound
<1> QED
  BY <1>2 DEF IInv, WindowsMatch, SlotsSound, ReleaseCanEnd

\* What is added to a sequence leaves it one, and not empty.
LEMMA Appended ==
  ASSUME NEW S, NEW q \in Seq(S), NEW e \in S
  PROVE  Append(q, e) \in Seq(S) /\ Append(q, e) # << >>
<1>1. Append(q, e) \in Seq(S)
  OBVIOUS
<1>2. Len(Append(q, e)) = Len(q) + 1 /\ Len(q) \in Nat
  OBVIOUS
<1>3. Len(<< >>) = 0
  OBVIOUS
<1>4. Len(Append(q, e)) # Len(<< >>)
  BY <1>2, <1>3
<1> QED
  BY <1>1, <1>4

\* So an order added to the control pipe keeps its type.
LEMMA CtrlAppended ==
  ASSUME IInv, NEW o \in Order, ctrl' = Append(ctrl, o)
  PROVE  ctrl' \in Seq(Order) /\ ctrl' # << >>
<1>1. ctrl \in Seq(Order)
  BY DEF IInv, Types
<1> QED
  BY <1>1, Appended

\* The clients and ListenTask keep the invariant.
LEMMA ClientsSound ==
  ASSUME IInv,
         \/ ReadCount \/ CountConnection
         \/ \E c \in Conns : Accept(c) \/ PeerSends(c)
  PROVE  IInv'
<1>1. CASE ReadCount \/ CountConnection
  <2>1. UNCHANGED <<mMmlCnfg, winNum, timer, pipe, free, ctrl, ready, peer, app>>
    BY <1>1 DEF ReadCount, CountConnection, tables
  <2>2. Types' /\ PeersSound'
    BY <2>1 DEF IInv, Types, PeersSound
  <2>. QED  BY <2>1, <2>2, TablesKept
<1>2. ASSUME NEW c \in Conns, Accept(c) PROVE IInv'
  <2> DEFINE o == [code |-> "TOADDDBG", conn |-> c, win |-> None]
  <2>1. o \in Order
    BY DEF Order
  <2>2. /\ peer' = [peer EXCEPT ![c] = Quiet] /\ ctrl' = Append(ctrl, o)
        /\ UNCHANGED <<mMmlCnfg, winNum, timer, pipe, free, ready, app>>
    BY <1>2 DEF Accept, tables
  <2> HIDE DEF o
  <2>3. ctrl' \in Seq(Order) /\ ctrl' # << >>
    BY <2>1, <2>2, CtrlAppended
  <2>4. Types' /\ PeersSound'
    BY <2>2, <2>3 DEF IInv, Types, PeersSound, Quiet
  <2> QED
    BY <2>2, <2>3, <2>4, TablesKept
<1>3. ASSUME NEW c \in Conns, PeerSends(c) PROVE IInv'
  <2>1. UNCHANGED <<mMmlCnfg, winNum, timer, pipe, free, ready, ctrl, app>>
    BY <1>3 DEF PeerSends, tables
  <2>2. PICK m \in [says : {"config"}, win : Windows] \cup [says : {"close"}, win : {None}] :
          peer' = [peer EXCEPT ![c] = m]
    BY <1>3 DEF PeerSends
  <2>3. Types' /\ PeersSound'
    BY <2>1, <2>2 DEF IInv, Types, PeersSound
  <2> QED
    BY <2>1, <2>3, TablesKept
<1> QED
  BY <1>1, <1>2, <1>3

\* The application tasks and the timer thread keep the invariant.
LEMMA AppsSound ==
  ASSUME IInv,
         \/ \E a \in Apps : PrintCheck(a) \/ PrintWrite(a) \/ \E w \in Windows : MmlPrintf(a, w)
         \/ \E w \in Windows : SendOrder(w)
         \/ \E i \in Slots : MmlTimeout(i)
  PROVE  IInv'
<1>1. ASSUME NEW a \in Apps, NEW w \in Windows, MmlPrintf(a, w) PROVE IInv'
  <2>1. /\ UNCHANGED <<mMmlCnfg, winNum, timer, pipe, free, ready, ctrl, peer>>
        /\ app' = [app EXCEPT ![a] = [pc |-> "status", num |-> winNum[w], buf |-> {}]]
        /\ winNum[w] \in Slots
    BY <1>1 DEF MmlPrintf, tables
  <2>2. Types' /\ PeersSound'
    BY <2>1 DEF IInv, Types, PeersSound
  <2> QED
    BY <2>1, <2>2, TablesKept
<1>2. ASSUME NEW a \in Apps, PrintCheck(a) PROVE IInv'
  <2>1. UNCHANGED <<mMmlCnfg, winNum, timer, pipe, ready, ctrl, peer>>
    BY <1>2 DEF PrintCheck, tables
  <2>2. app' \in [Apps -> [pc : {"idle", "status", "write", "suspended"},
                           num : Slots \cup {None}, buf : SUBSET Bufs]]
        /\ free' \subseteq Bufs
    <3>1. /\ app \in [Apps -> [pc : {"idle", "status", "write", "suspended"},
                                num : Slots \cup {None}, buf : SUBSET Bufs]]
          /\ free \subseteq Bufs
      BY DEF IInv, Types
    <3>2. CASE app' = [app EXCEPT ![a] = Idle] /\ free' \subseteq free
      BY <3>1, <3>2 DEF Idle
    <3>4. CASE app' = [app EXCEPT ![a].pc = "suspended"] /\ free' \subseteq free
      BY <3>1, <3>4
    <3>3. ASSUME NEW b \in free, free' = free \ {b},
                 app' = [app EXCEPT ![a].pc = "write", ![a].buf = {b}]
          PROVE  /\ app' \in [Apps -> [pc : {"idle", "status", "write", "suspended"},
                                       num : Slots \cup {None}, buf : SUBSET Bufs]]
                 /\ free' \subseteq Bufs
      BY <3>1, <3>3
    <3> QED
      BY <1>2, <3>2, <3>3, <3>4 DEF PrintCheck
  <2>3. Types' /\ PeersSound'
    BY <2>1, <2>2 DEF IInv, Types, PeersSound
  <2> QED
    BY <2>1, <2>3, TablesKept
<1>3. ASSUME NEW a \in Apps, PrintWrite(a) PROVE IInv'
  <2>1. UNCHANGED <<mMmlCnfg, winNum, timer, ready, ctrl, peer>>
        /\ app' = [app EXCEPT ![a] = Idle]
    BY <1>3 DEF PrintWrite, tables
  <2>2. PICK b \in app[a].buf :
          \/ pipe' = [pipe EXCEPT ![app[a].num] = Append(@, b)] /\ free' = free
          \/ pipe' = pipe /\ free' = free \cup {b}
    BY <1>3 DEF PrintWrite
  <2>3. /\ pipe \in [Slots -> Seq(Bufs)] /\ b \in Bufs /\ free \subseteq Bufs
        /\ app \in [Apps -> [pc : {"idle", "status", "write", "suspended"},
                              num : Slots \cup {None}, buf : SUBSET Bufs]]
    BY <2>2 DEF IInv, Types
  <2>4. app' \in [Apps -> [pc : {"idle", "status", "write", "suspended"},
                           num : Slots \cup {None}, buf : SUBSET Bufs]]
    BY <2>1, <2>3 DEF Idle
  <2>5. /\ pipe' \in [Slots -> Seq(Bufs)] /\ free' \subseteq Bufs
        /\ \A i \in Slots : pipe[i] # << >> => pipe'[i] # << >>
    <3>1. ASSUME NEW i \in Slots PROVE Append(pipe[i], b) \in Seq(Bufs) /\ Append(pipe[i], b) # << >>
      <4>1. pipe[i] \in Seq(Bufs) /\ b \in Bufs
        BY <2>3
      <4> QED
        BY <4>1, Appended
    <3>2. CASE pipe' = [pipe EXCEPT ![app[a].num] = Append(@, b)] /\ free' = free
      BY <2>3, <3>1, <3>2
    <3>3. CASE pipe' = pipe /\ free' = free \cup {b}
      BY <2>3, <3>3
    <3> QED
      BY <2>2, <3>2, <3>3
  <2>6. Types' /\ PeersSound'
    BY <2>1, <2>4, <2>5 DEF IInv, Types, PeersSound
  <2> QED
    BY <2>1, <2>5, <2>6, TablesKept
<1>4. ASSUME NEW w \in Windows, SendOrder(w) PROVE IInv'
  <2>1. UNCHANGED <<mMmlCnfg, winNum, timer, pipe, free, ready, peer, app>>
    BY <1>4 DEF SendOrder, tables
  <2>2. PICK code \in {"TOPAUSE", "TOACTIVE", "TOTIMER"} :
          ctrl' = Append(ctrl, [code |-> code, conn |-> NoSock, win |-> w])
    BY <1>4 DEF SendOrder
  <2>3. [code |-> code, conn |-> NoSock, win |-> w] \in Order
    BY DEF Order
  <2>4. ctrl' \in Seq(Order) /\ ctrl' # << >>
    BY <2>2, <2>3, CtrlAppended
  <2>5. Types' /\ PeersSound'
    BY <2>1, <2>4 DEF IInv, Types, PeersSound
  <2> QED
    BY <2>1, <2>4, <2>5, TablesKept
<1>5. ASSUME NEW i \in Slots, MmlTimeout(i) PROVE IInv'
  <2> DEFINE o == [code |-> "TOTIMEOUT", conn |-> NoSock, win |-> timer[i]]
  <2>1. /\ UNCHANGED <<mMmlCnfg, winNum, pipe, free, ready, peer, app>>
        /\ ctrl' = Append(ctrl, o) /\ timer' = [timer EXCEPT ![i] = None]
        /\ timer[i] # None
    BY <1>5 DEF MmlTimeout
  <2>2. o \in Order
    BY <2>1 DEF IInv, Types, Order
  <2> HIDE DEF o
  <2>3. ctrl' \in Seq(Order) /\ ctrl' # << >>
    BY <2>1, <2>2, CtrlAppended
  <2>4. Types' /\ PeersSound'
    BY <2>1, <2>3 DEF IInv, Types, PeersSound
  <2> QED
    BY <2>1, <2>3, <2>4, TablesKept
<1> QED
  BY <1>1, <1>2, <1>3, <1>4, <1>5

\* The invariant is inductive.
LEMMA StepInv == IInv /\ [Next]_vars => IInv'
<1> SUFFICES ASSUME IInv, [Next]_vars PROVE IInv'
  OBVIOUS
<1>1. CASE DataCollectTask
  <2>1. CASE NoCommand
    <3>1. /\ UNCHANGED <<mMmlCnfg, winNum, timer, pipe, free, ctrl, peer, app>>
          /\ ready' = [ready EXCEPT !.mml = FALSE]
      BY <2>1 DEF NoCommand, tables
    <3>2. Types' /\ PeersSound'
      BY <3>1 DEF IInv, Types, PeersSound
    <3> QED
      BY <3>1, <3>2, TablesKept
  <2>2. CASE WriteUncount
    <3>1. UNCHANGED <<mMmlCnfg, winNum, timer, pipe, free, ctrl, ready, peer, app>>
      BY <2>2 DEF WriteUncount
    <3>2. Types' /\ PeersSound'
      BY <3>1 DEF IInv, Types, PeersSound
    <3> QED
      BY <3>1, <3>2, TablesKept
  <2> QED
    BY <1>1, <2>1, <2>2, SelectSound, DealMmlCtrlOrdSound, DealWatchSockSound, DealWatchPipeSound,
       CmdCfgWinSound, deleteconnectionSound
    DEF DataCollectTask
<1>2. CASE Next /\ ~DataCollectTask
  BY <1>2, ClientsSound, AppsSound DEF Next
<1>3. CASE UNCHANGED vars
  <2>1. UNCHANGED <<mMmlCnfg, winNum, timer, pipe, free, ctrl, ready, peer, app>>
    BY <1>3 DEF vars, tables
  <2>2. Types' /\ PeersSound'
    BY <2>1 DEF IInv, Types, PeersSound
  <2> QED
    BY <2>1, <2>2, TablesKept
<1> QED
  BY <1>1, <1>2, <1>3

\* The invariant holds in every reachable state.
LEMMA InvHolds == Spec => []IInv
BY InitInv, StepInv, PTL DEF Spec

(* In every reachable state the window a slot serves names the slot, and the
   slot is open with a client: whatever DataCollectTask, the commands and the
   clients do, for any number of slots and windows. *)
THEOREM DebugWindowsMatch == Spec => []WindowsMatch
<1>1. IInv => WindowsMatch
  BY DEF IInv
<1> QED
  BY <1>1, InvHolds, PTL

(* A slot that is being released has a message in its pipe, so that select
   reports it and DealWatchPipe makes it idle: no slot is lost for good. *)
THEOREM DebugReleaseCanEnd == Spec => []ReleaseCanEnd
<1>1. IInv => ReleaseCanEnd
  BY DEF IInv
<1> QED
  BY <1>1, InvHolds, PTL

-----------------------------------------------------------------------------
(* The buffers.                                                            *)

App == [pc : {"idle", "status", "write", "suspended"}, num : Slots \cup {None}, buf : SUBSET Bufs]

\* A task that is not idle has a slot; it has one buffer just when it will write.
\* (What a suspended task has taken is lost.)
TasksSound ==
  \A a \in Apps : /\ app[a].pc # "idle" => app[a].num \in Slots
                  /\ app[a].pc # "write" => app[a].buf = {}
                  /\ app[a].pc = "write" => \E b \in Bufs : app[a].buf = {b}

\* What BufferPlaces counts, said without counting: no two positions of pipes have
\* one buffer, no two tasks, and no two of a pipe, a task and the free nodes ...
PipesApart ==
  \A i, j \in Slots : \A k \in DOMAIN pipe[i], l \in DOMAIN pipe[j] :
    pipe[i][k] = pipe[j][l] => i = j /\ k = l

TasksApart ==
  /\ \A a, c \in Apps : \A b \in app[a].buf : b \in app[c].buf => a = c
  /\ \A a \in Apps : \A b \in app[a].buf : b \notin free

PlacesApart ==
  \A i \in Slots : \A k \in DOMAIN pipe[i] :
    /\ pipe[i][k] \notin free
    /\ \A a \in Apps : pipe[i][k] \notin app[a].buf

\* ... and every buffer is somewhere, a lost one nowhere else.
InPipe(b) == \E i \in Slots : \E k \in DOMAIN pipe[i] : pipe[i][k] = b
InHands(b) == \E a \in Apps : b \in app[a].buf
AllPlaced == \A b \in Bufs : b \in free \/ InPipe(b) \/ InHands(b) \/ b \in lost
LostApart == \A b \in lost : b \notin free /\ ~InPipe(b) /\ ~InHands(b)

BufInv ==
  /\ pipe \in [Slots -> Seq(Bufs)] /\ app \in [Apps -> App]
  /\ free \subseteq Bufs /\ lost \subseteq Bufs
  /\ TasksSound /\ PipesApart /\ TasksApart /\ PlacesApart /\ AllPlaced /\ LostApart

LEMMA BufInit == Init => BufInv
  BY DEF Init, BufInv, TasksSound, PipesApart, TasksApart, PlacesApart, AllPlaced, LostApart,
         Idle, App

LEMMA BufKept == ASSUME BufInv, UNCHANGED <<pipe, free, app, lost>> PROVE BufInv'
<1>1. TasksSound' /\ PipesApart' /\ TasksApart' /\ PlacesApart'
  BY DEF BufInv, TasksSound, PipesApart, TasksApart, PlacesApart
<1>2. AllPlaced' /\ LostApart'
  BY DEF BufInv, AllPlaced, LostApart, InPipe, InHands
<1>. QED  BY <1>1, <1>2 DEF BufInv

LEMMA PipeEmptied ==
  ASSUME BufInv, NEW i \in Slots, EmptyPipe(i), app' = app, lost' = lost PROVE BufInv'
<1>0. pipe' = [pipe EXCEPT ![i] = << >>]
      /\ free' = free \cup {pipe[i][k] : k \in DOMAIN pipe[i]}
  BY DEF EmptyPipe
<1>1. pipe' \in [Slots -> Seq(Bufs)] /\ app' \in [Apps -> App] /\ free' \subseteq Bufs
  BY <1>0 DEF BufInv
<1>2. /\ DOMAIN pipe'[i] = {}
      /\ \A j \in Slots : j # i => pipe'[j] = pipe[j]
  BY <1>0 DEF BufInv
<1>3. PipesApart'
  <2>. SUFFICES ASSUME NEW j \in Slots, NEW h \in Slots, NEW k \in DOMAIN pipe'[j],
                       NEW l \in DOMAIN pipe'[h], pipe'[j][k] = pipe'[h][l]
                PROVE  j = h /\ k = l
    BY DEF PipesApart
  <2>1. pipe'[j] = pipe[j] /\ pipe'[h] = pipe[h]
    BY <1>2
  <2>. QED  BY <2>1 DEF BufInv, PipesApart
<1>4. \A b : b \in free' <=> b \in free \/ \E k \in DOMAIN pipe[i] : b = pipe[i][k]
  BY <1>0
<1>5. TasksApart'
  BY <1>4 DEF BufInv, TasksApart, PlacesApart
<1>6. PlacesApart'
  BY <1>2, <1>4 DEF BufInv, PlacesApart, PipesApart
<1>7. AllPlaced'
  <2>. SUFFICES ASSUME NEW b \in Bufs, b \notin free', ~InHands(b)', b \notin lost'
                PROVE  InPipe(b)'
    BY DEF AllPlaced
  <2>1. b \notin free /\ ~InHands(b) /\ \A k \in DOMAIN pipe[i] : b # pipe[i][k]
    BY <1>4 DEF InHands
  <2>2. InPipe(b)
    BY <2>1 DEF BufInv, AllPlaced
  <2>. QED  BY <1>2, <2>1, <2>2 DEF InPipe
<1>8. TasksSound'
  BY DEF BufInv, TasksSound
<1>9. LostApart'
  <2>. SUFFICES ASSUME NEW b \in lost PROVE b \notin free' /\ ~InPipe(b)' /\ ~InHands(b)'
    BY DEF LostApart
  <2>1. b \notin free /\ ~InPipe(b) /\ ~InHands(b)
    BY DEF BufInv, LostApart
  <2>. QED  BY <1>2, <1>4, <2>1 DEF InPipe, InHands
<1>. QED  BY <1>1, <1>3, <1>5, <1>6, <1>7, <1>8, <1>9 DEF BufInv

\* A task that had no buffer and has none now.
LEMMA NoBuffer ==
  ASSUME BufInv, NEW a \in Apps, app[a].buf = {}, NEW new \in App, new.buf = {},
         new.pc # "write", new.pc = "idle" \/ new.num \in Slots,
         app' = [app EXCEPT ![a] = new], UNCHANGED <<pipe, free, lost>>
  PROVE  BufInv'
<1>1. app' \in [Apps -> App] /\ \A c \in Apps : app'[c].buf = app[c].buf
  BY DEF BufInv
<1>2. TasksSound'
  BY DEF BufInv, TasksSound
<1>3. PipesApart' /\ TasksApart' /\ PlacesApart'
  BY <1>1 DEF BufInv, PipesApart, TasksApart, PlacesApart
<1>4. AllPlaced' /\ LostApart'
  BY <1>1 DEF BufInv, AllPlaced, LostApart, InPipe, InHands
<1>. QED  BY <1>1, <1>2, <1>3, <1>4 DEF BufInv

LEMMA PrintBuf ==
  ASSUME BufInv, NEW a \in Apps, NEW w \in Windows, MmlPrintf(a, w) PROVE BufInv'
<1> DEFINE new == [pc |-> "status", num |-> winNum[w], buf |-> {}]
<1>1. /\ UNCHANGED <<pipe, free, lost>> /\ app' = [app EXCEPT ![a] = new]
      /\ winNum[w] \in Slots /\ app[a].pc = "idle"
  BY DEF MmlPrintf
<1>2. new \in App /\ new.buf = {} /\ new.pc = "status" /\ new.num \in Slots
  BY <1>1 DEF App
<1>3. app[a].buf = {}
  BY <1>1 DEF BufInv, TasksSound
<1> HIDE DEF new
<1>. QED  BY <1>1, <1>2, <1>3, NoBuffer

\* A task takes a free buffer: into its hands, or it is lost.
LEMMA TakeBuf ==
  ASSUME BufInv, NEW a \in Apps, app[a].buf = {}, app[a].num \in Slots, NEW b \in free,
         free' = free \ {b}, pipe' = pipe, NEW new \in App,
         app' = [app EXCEPT ![a] = new],
         \/ new.pc = "write" /\ new.num \in Slots /\ new.buf = {b} /\ lost' = lost
         \/ /\ new.pc # "write" /\ new.buf = {} /\ lost' = lost \cup {b}
            /\ new.pc = "idle" \/ new.num \in Slots
  PROVE  BufInv'
<1>0. b \in Bufs
  BY DEF BufInv
<1>1. /\ app' \in [Apps -> App]
      /\ app'[a] = new /\ \A c \in Apps : c # a => app'[c] = app[c]
      /\ \A c \in Apps : app'[c].buf = IF c = a THEN new.buf ELSE app[c].buf
  BY DEF BufInv
<1>2. new.buf \subseteq {b} /\ free' \subseteq Bufs /\ lost' \subseteq Bufs
  BY <1>0 DEF BufInv
<1>3. TasksSound'
  BY <1>0, <1>1 DEF BufInv, TasksSound
<1>4. TasksApart'
  BY <1>1, <1>2 DEF BufInv, TasksApart
<1>5. PipesApart' /\ PlacesApart'
  BY <1>1, <1>2 DEF BufInv, PipesApart, PlacesApart
<1>6. AllPlaced'
  <2>. SUFFICES ASSUME NEW x \in Bufs PROVE x \in free' \/ InPipe(x)' \/ InHands(x)' \/ x \in lost'
    BY DEF AllPlaced
  <2>1. CASE x = b
    BY <1>1, <2>1 DEF InHands
  <2>2. CASE x # b /\ InHands(x)
    BY <1>1, <2>2 DEF InHands
  <2>3. CASE x # b /\ ~InHands(x)
    BY <2>3 DEF BufInv, AllPlaced, InPipe
  <2>. QED  BY <2>1, <2>2, <2>3
<1>7. LostApart'
  <2>. SUFFICES ASSUME NEW x \in lost' PROVE x \notin free' /\ ~InPipe(x)' /\ ~InHands(x)'
    BY DEF LostApart
  <2>1. CASE x \in lost
    <3>1. x \notin free /\ ~InPipe(x) /\ ~InHands(x) /\ x # b
      BY <2>1 DEF BufInv, LostApart
    <3>. QED  BY <1>1, <1>2, <3>1 DEF InPipe, InHands
  <2>2. CASE x \notin lost
    <3>1. x = b /\ new.buf = {}
      BY <2>2
    <3>2. ~InPipe(b) /\ ~InHands(b)
      BY DEF BufInv, PlacesApart, TasksApart, InPipe, InHands
    <3>. QED  BY <1>1, <3>1, <3>2 DEF InPipe, InHands
  <2>. QED  BY <2>1, <2>2
<1>. QED  BY <1>1, <1>2, <1>3, <1>4, <1>5, <1>6, <1>7 DEF BufInv

LEMMA CheckBuf == ASSUME BufInv, NEW a \in Apps, PrintCheck(a) PROVE BufInv'
<1>0. pipe' = pipe /\ app[a].pc = "status"
  BY DEF PrintCheck
<1>1. app[a].buf = {} /\ app[a].num \in Slots /\ app \in [Apps -> App]
  BY <1>0 DEF BufInv, TasksSound
<1>2. Idle \in App /\ Idle.buf = {} /\ Idle.pc = "idle"
  BY DEF Idle, App
<1>3. CASE app' = [app EXCEPT ![a] = Idle] /\ UNCHANGED <<free, lost>>
  BY <1>0, <1>1, <1>2, <1>3, NoBuffer
<1>4. ASSUME NEW b \in free, free' = free \ {b},
             app' = [app EXCEPT ![a].pc = "write", ![a].buf = {b}], lost' = lost
      PROVE  BufInv'
  <2> DEFINE new == [app[a] EXCEPT !.pc = "write", !.buf = {b}]
  <2>0. b \in Bufs
    BY DEF BufInv
  <2>1. new \in App /\ new.buf = {b} /\ new.pc = "write" /\ new.num = app[a].num
    BY <1>1, <2>0 DEF App
  <2>2. app' = [app EXCEPT ![a] = new]
    BY <1>1, <1>4
  <2> HIDE DEF new
  <2>3. /\ free' = free \ {b} /\ pipe' = pipe /\ app[a].buf = {} /\ app[a].num \in Slots
        /\ new.pc = "write" /\ new.num \in Slots /\ new.buf = {b} /\ lost' = lost
    BY <1>0, <1>1, <1>4, <2>1
  <2>. QED  BY <2>1, <2>2, <2>3, TakeBuf
<1>5. ASSUME NEW b \in free, free' = free \ {b},
             app' = [app EXCEPT ![a].pc = "suspended"], lost' = lost \cup {b}
      PROVE  BufInv'
  <2> DEFINE new == [app[a] EXCEPT !.pc = "suspended"]
  <2>1. new \in App /\ new.buf = {} /\ new.pc = "suspended" /\ new.num = app[a].num
    BY <1>1 DEF App
  <2>2. app' = [app EXCEPT ![a] = new]
    BY <1>1, <1>5
  <2> HIDE DEF new
  <2>. QED  BY <1>0, <1>1, <1>5, <2>1, <2>2, TakeBuf
<1>6. ASSUME NEW b \in free, free' = free \ {b},
             app' = [app EXCEPT ![a] = Idle], lost' = lost \cup {b}
      PROVE  BufInv'
  BY <1>0, <1>1, <1>2, <1>6, TakeBuf
<1>. QED  BY <1>3, <1>4, <1>5, <1>6 DEF PrintCheck

\* The buffer passes from the task to the end of the pipe.
LEMMA WriteBuf ==
  ASSUME BufInv, NEW a \in Apps, app[a].pc = "write", UNCHANGED <<free, lost>>,
         app' = [app EXCEPT ![a] = Idle], NEW b \in app[a].buf,
         pipe' = [pipe EXCEPT ![app[a].num] = Append(@, b)]
  PROVE  BufInv'
<1> DEFINE i == app[a].num
           s == pipe[i]
           n == Len(pipe[i]) + 1
<1>2. i \in Slots /\ app[a].buf = {b} /\ b \in Bufs
  BY DEF BufInv, TasksSound
<1>3. s \in Seq(Bufs) /\ pipe' = [pipe EXCEPT ![i] = Append(s, b)]
  BY <1>2 DEF BufInv
<1>4. /\ app' \in [Apps -> App]
      /\ \A c \in Apps : app'[c].buf = IF c = a THEN {} ELSE app[c].buf
      /\ app'[a] = Idle /\ \A c \in Apps : c # a => app'[c] = app[c]
  BY DEF BufInv, App, Idle
<1>5. /\ Append(s, b) \in Seq(Bufs) /\ n \notin DOMAIN s
      /\ DOMAIN Append(s, b) = DOMAIN s \cup {n}
      /\ Append(s, b)[n] = b
      /\ \A k \in DOMAIN s : Append(s, b)[k] = s[k]
  BY <1>2, <1>3
<1> HIDE DEF i
<1>6. /\ pipe' \in [Slots -> Seq(Bufs)]
      /\ pipe'[i] = Append(s, b) /\ \A j \in Slots : j # i => pipe'[j] = pipe[j]
  BY <1>2, <1>3, <1>5 DEF BufInv
<1>7. \A j \in Slots : \A k \in DOMAIN pipe'[j] :
        \/ j = i /\ k = n /\ pipe'[j][k] = b
        \/ k \in DOMAIN pipe[j] /\ pipe'[j][k] = pipe[j][k]
  BY <1>5, <1>6
<1>8. /\ b \notin free
      /\ \A c \in Apps : c # a => b \notin app[c].buf
      /\ \A j \in Slots : \A k \in DOMAIN pipe[j] : pipe[j][k] # b
  BY DEF BufInv, TasksApart, PlacesApart
<1>9. /\ \A j \in Slots : \A k \in DOMAIN pipe[j] :
           k \in DOMAIN pipe'[j] /\ pipe'[j][k] = pipe[j][k]
      /\ n \in DOMAIN pipe'[i] /\ pipe'[i][n] = b
  BY <1>5, <1>6
<1> HIDE DEF s, n
<1>10. PipesApart'
  <2>. SUFFICES ASSUME NEW j \in Slots, NEW h \in Slots, NEW k \in DOMAIN pipe'[j],
                       NEW l \in DOMAIN pipe'[h], pipe'[j][k] = pipe'[h][l]
                PROVE  j = h /\ k = l
    BY DEF PipesApart
  <2>1. CASE pipe'[j][k] = b
    <3>1. ~(k \in DOMAIN pipe[j] /\ pipe'[j][k] = pipe[j][k])
      BY <1>8, <2>1
    <3>2. ~(l \in DOMAIN pipe[h] /\ pipe'[h][l] = pipe[h][l])
      BY <1>8, <2>1
    <3>3. j = i /\ k = n /\ h = i /\ l = n
      BY <1>7, <3>1, <3>2
    <3>. QED  BY <3>3
  <2>2. CASE pipe'[j][k] # b
    <3>1. k \in DOMAIN pipe[j] /\ pipe'[j][k] = pipe[j][k]
          /\ l \in DOMAIN pipe[h] /\ pipe'[h][l] = pipe[h][l]
      BY <1>7, <2>2
    <3>2. pipe[j][k] = pipe[h][l]
      BY <3>1
    <3>3. PipesApart
      BY DEF BufInv
    <3>. QED  BY <3>1, <3>2, <3>3 DEF PipesApart
  <2>. QED  BY <2>1, <2>2
<1>11. TasksApart'
  BY <1>4 DEF BufInv, TasksApart
<1>12. TasksSound'
  BY <1>4 DEF BufInv, TasksSound, Idle
<1>13. PlacesApart'
  <2>. SUFFICES ASSUME NEW j \in Slots, NEW k \in DOMAIN pipe'[j]
                PROVE  pipe'[j][k] \notin free /\ \A c \in Apps : pipe'[j][k] \notin app'[c].buf
    BY DEF PlacesApart
  <2>1. CASE pipe'[j][k] = b
    BY <1>4, <1>8, <2>1
  <2>2. CASE k \in DOMAIN pipe[j] /\ pipe'[j][k] = pipe[j][k]
    <3>1. pipe[j][k] \notin free /\ \A c \in Apps : pipe[j][k] \notin app[c].buf
      BY <2>2 DEF BufInv, PlacesApart
    <3>. QED  BY <1>4, <2>2, <3>1
  <2>. QED  BY <1>7, <2>1, <2>2
<1>14. AllPlaced'
  <2>. SUFFICES ASSUME NEW x \in Bufs PROVE x \in free' \/ InPipe(x)' \/ InHands(x)' \/ x \in lost'
    BY DEF AllPlaced
  <2>1. CASE x = b
    BY <1>2, <1>9, <2>1 DEF InPipe
  <2>2. CASE x # b /\ (x \in free \/ x \in lost)
    BY <2>2
  <2>3. CASE x # b /\ InPipe(x)
    BY <1>9, <2>3 DEF InPipe
  <2>4. CASE x # b /\ InHands(x)
    BY <1>2, <1>4, <2>4 DEF InHands
  <2>. QED  BY <2>1, <2>2, <2>3, <2>4 DEF BufInv, AllPlaced
<1>15. LostApart'
  <2>. SUFFICES ASSUME NEW x \in lost PROVE x \notin free' /\ ~InPipe(x)' /\ ~InHands(x)'
    BY DEF LostApart
  <2>1. x \notin free /\ ~InPipe(x) /\ ~InHands(x)
    BY DEF BufInv, LostApart
  <2>2. x # b
    BY <2>1 DEF InHands
  <2>. QED  BY <1>4, <1>7, <2>1, <2>2 DEF InPipe, InHands
<1>. QED  BY <1>4, <1>6, <1>10, <1>11, <1>12, <1>13, <1>14, <1>15 DEF BufInv

\* The pipe has not taken the buffer: it is free again.
LEMMA GiveBack ==
  ASSUME BufInv, NEW a \in Apps, app[a].pc = "write", UNCHANGED <<pipe, lost>>,
         app' = [app EXCEPT ![a] = Idle], NEW b \in app[a].buf, free' = free \cup {b}
  PROVE  BufInv'
<1>1. app[a].buf = {b} /\ b \in Bufs
  BY DEF BufInv, TasksSound
<1>2. /\ app' \in [Apps -> App]
      /\ \A c \in Apps : app'[c].buf = IF c = a THEN {} ELSE app[c].buf
      /\ app'[a] = Idle /\ \A c \in Apps : c # a => app'[c] = app[c]
  BY DEF BufInv, App, Idle
<1>3. TasksSound'
  BY <1>2 DEF BufInv, TasksSound, Idle
<1>4. PipesApart' /\ TasksApart' /\ PlacesApart'
  BY <1>1, <1>2 DEF BufInv, PipesApart, TasksApart, PlacesApart
<1>5. AllPlaced'
  <2>. SUFFICES ASSUME NEW x \in Bufs, x # b, x \notin free
                PROVE  InPipe(x)' \/ InHands(x)' \/ x \in lost'
    BY DEF AllPlaced
  <2>. QED  BY <1>1, <1>2 DEF BufInv, AllPlaced, InPipe, InHands
<1>6. LostApart'
  <2>. SUFFICES ASSUME NEW x \in lost PROVE x \notin free' /\ ~InPipe(x)' /\ ~InHands(x)'
    BY DEF LostApart
  <2>1. x \notin free /\ ~InPipe(x) /\ ~InHands(x)
    BY DEF BufInv, LostApart
  <2>. QED  BY <1>2, <2>1 DEF InPipe, InHands
<1>7. free' \subseteq Bufs /\ pipe' \in [Slots -> Seq(Bufs)] /\ lost' \subseteq Bufs
  BY <1>1 DEF BufInv
<1>. QED  BY <1>2, <1>3, <1>4, <1>5, <1>6, <1>7 DEF BufInv

LEMMA BufStep == BufInv /\ [Next]_vars => BufInv'
<1>. SUFFICES ASSUME BufInv, [Next]_vars PROVE BufInv'
  OBVIOUS
<1>1. CASE UNCHANGED vars
  BY <1>1, BufKept DEF vars
<1>2. CASE Select \/ NoCommand
  BY <1>2, BufKept DEF Select, NoCommand
<1>3. CASE DealMmlCtrlOrd
  <2>1. app' = app /\ lost' = lost /\ (UNCHANGED <<pipe, free>> \/ \E i \in Slots : EmptyPipe(i))
    BY <1>3 DEF DealMmlCtrlOrd, AddDbg, Activate, Pause, Timer, Timeout, SlotsOf
  <2>. QED  BY <2>1, BufKept, PipeEmptied
<1>4. ASSUME NEW i \in Slots, DealWatchSock(i) PROVE BufInv'
  BY <1>4, BufKept DEF DealWatchSock
<1>5. ASSUME NEW i \in Slots, DealWatchPipe(i) PROVE BufInv'
  BY <1>5, PipeEmptied DEF DealWatchPipe
<1>6. ASSUME NEW w \in Windows, deleteconnection(w) \/ \E i \in Slots : CmdCfgWin(i, w)
      PROVE  BufInv'
  BY <1>6, BufKept DEF deleteconnection, CmdCfgWin
<1>7. CASE ReadCount \/ CountConnection \/ WriteUncount \/ \E c \in Conns : Accept(c) \/ PeerSends(c)
  BY <1>7, BufKept DEF ReadCount, CountConnection, WriteUncount, Accept, PeerSends
<1>8. ASSUME NEW a \in Apps,
             PrintCheck(a) \/ PrintWrite(a) \/ \E w \in Windows : MmlPrintf(a, w)
      PROVE  BufInv'
  <2>1. ASSUME PrintWrite(a) PROVE BufInv'
    BY <2>1, WriteBuf, GiveBack DEF PrintWrite
  <2>. QED  BY <1>8, <2>1, CheckBuf, PrintBuf
<1>9. CASE (\E w \in Windows : SendOrder(w)) \/ \E i \in Slots : MmlTimeout(i)
  BY <1>9, BufKept DEF SendOrder, MmlTimeout
<1>. QED  BY <1>1, <1>2, <1>3, <1>4, <1>5, <1>6, <1>7, <1>8, <1>9 DEF Next, DataCollectTask

LEMMA AtMostOne ==
  ASSUME NEW S, \A x, y \in S : x = y
  PROVE  Cardinality(S) = IF S = {} THEN 0 ELSE 1
<1>1. CASE S = {}
  BY <1>1, FS_EmptySet
<1>2. CASE S # {}
  <2>1. PICK x \in S : S = {x}
    BY <1>2
  <2>. QED  BY <2>1, FS_Singleton
<1>. QED  BY <1>1, <1>2

\* Every buffer is in one place, although a task writes to the pipe of a slot that
\* was closed, paused, released or given to another client since the task chose
\* it, a pipe may refuse a buffer, and a text that is too long costs one
\* (PrintCheck, PrintWrite, EmptyPipe).
THEOREM DebugBufferPlaces == Spec => []BufferPlaces
<1>1. BufInv => BufferPlaces
  <2>. SUFFICES ASSUME BufInv, NEW b \in Bufs
       PROVE (IF b \in free THEN 1 ELSE 0)
             + (IF b \in lost THEN 1 ELSE 0)
             + Cardinality({a \in Apps : b \in app[a].buf})
             + Cardinality(UNION {{<<i, k>> : k \in {k \in DOMAIN pipe[i] : pipe[i][k] = b}}
                                  : i \in Slots})
             = 1
    BY DEF BufferPlaces
  <2> DEFINE A == {a \in Apps : b \in app[a].buf}
             P == UNION {{<<i, k>> : k \in {k \in DOMAIN pipe[i] : pipe[i][k] = b}} : i \in Slots}
  <2>1. \A x \in P : \E i \in Slots : \E k \in DOMAIN pipe[i] : x = <<i, k>> /\ pipe[i][k] = b
    OBVIOUS
  <2>2. \A x, y \in P : x = y
    <3>. SUFFICES ASSUME NEW x \in P, NEW y \in P PROVE x = y
      OBVIOUS
    <3>1. PICK i \in Slots : \E k \in DOMAIN pipe[i] : x = <<i, k>> /\ pipe[i][k] = b
      BY <2>1
    <3>2. PICK k \in DOMAIN pipe[i] : x = <<i, k>> /\ pipe[i][k] = b
      BY <3>1
    <3>3. PICK j \in Slots : \E l \in DOMAIN pipe[j] : y = <<j, l>> /\ pipe[j][l] = b
      BY <2>1
    <3>4. PICK l \in DOMAIN pipe[j] : y = <<j, l>> /\ pipe[j][l] = b
      BY <3>3
    <3>5. i = j /\ k = l
      BY <3>2, <3>4 DEF BufInv, PipesApart
    <3>. QED  BY <3>2, <3>4, <3>5
  <2>3. \A x, y \in A : x = y
    BY DEF BufInv, TasksApart
  <2>4. A # {} => b \notin free
    BY DEF BufInv, TasksApart
  <2>5. P # {} => b \notin free /\ A = {}
    <3>. SUFFICES ASSUME P # {} PROVE b \notin free /\ A = {}
      OBVIOUS
    <3>1. PICK x \in P : TRUE
      OBVIOUS
    <3>2. PICK i \in Slots : \E k \in DOMAIN pipe[i] : pipe[i][k] = b
      BY <2>1, <3>1
    <3>. QED  BY <3>2 DEF BufInv, PlacesApart
  <2>8. b \in free \/ A # {} \/ P # {} \/ b \in lost
    <3>1. InHands(b) => A # {}
      BY DEF InHands
    <3>2. InPipe(b) => P # {}
      <4>. SUFFICES ASSUME NEW i \in Slots, NEW k \in DOMAIN pipe[i], pipe[i][k] = b
                    PROVE  P # {}
        BY DEF InPipe
      <4>1. <<i, k>> \in P
        OBVIOUS
      <4>. QED  BY <4>1
    <3>. QED  BY <3>1, <3>2 DEF BufInv, AllPlaced
  <2>9. b \in lost => b \notin free /\ A = {} /\ P = {}
    BY DEF BufInv, LostApart, InPipe, InHands
  <2> HIDE DEF A, P
  <2>6. /\ Cardinality(A) = IF A = {} THEN 0 ELSE 1
        /\ Cardinality(P) = IF P = {} THEN 0 ELSE 1
    BY <2>2, <2>3, AtMostOne
  <2>7. (IF b \in free THEN 1 ELSE 0) + (IF b \in lost THEN 1 ELSE 0)
        + Cardinality(A) + Cardinality(P) = 1
    BY <2>4, <2>5, <2>6, <2>8, <2>9
  <2>. QED  BY <2>7 DEF A, P
<1>. QED  BY <1>1, BufInit, BufStep, PTL DEF Spec

-----------------------------------------------------------------------------
(* The count of connections.                                               *)

\* The orders to enter a connection that wait in c, and the slots that have one.
AddsOf(c) == {k \in DOMAIN c : c[k].code = "TOADDDBG"}
Used == Slots \ FreeSlots

\* A connection that is ordered and not yet counted, one that has gone and is
\* not yet uncounted.
Late == IF listener.pc = "waiting" THEN 0 ELSE 1
Early == IF uncount.busy THEN 1 ELSE 0

\* Whoever was accepted is waiting in the control pipe or has a slot; of these the
\* count shows all but the ones it has lost, and ListenTask saw room for it.  It
\* holds an old count that is no less than the count now is, as meanwhile others
\* only lower it; UserSockFail holds one that is no greater.
Counts ==
  /\ mWndConnNum \in Int /\ missed \in Nat
  /\ listener \in [pc : {"waiting", "sent", "read"}, saw : Int]
  /\ uncount \in [busy : BOOLEAN, saw : Int]
  /\ Cardinality(AddsOf(ctrl)) + Cardinality(Used) + Early <= mWndConnNum + Late + missed
  /\ Cardinality(AddsOf(ctrl)) + Cardinality(Used) <= WndNum + missed
  /\ mWndConnNum + Late <= WndNum
  /\ listener.pc = "read" => mWndConnNum <= listener.saw /\ listener.saw < WndNum
  /\ uncount.busy => uncount.saw <= mWndConnNum
  /\ uncount.busy /\ listener.pc = "read" => uncount.saw <= listener.saw

CInv == IInv /\ Counts

LEMMA UsedFinite ==
  /\ IsFiniteSet(Used) /\ Cardinality(Used) \in Nat
  /\ IsFiniteSet(FreeSlots) /\ Cardinality(FreeSlots) \in Nat
  /\ Cardinality(FreeSlots) + Cardinality(Used) = WndNum
  /\ FreeSlots = {} => Cardinality(Used) = WndNum
<1>1. IsFiniteSet(Slots) /\ Cardinality(Slots) = WndNum
  BY FS_Interval, DebugWindowsAssumption DEF Slots
<1>2. Used \subseteq Slots /\ FreeSlots \subseteq Slots
  BY DEF Used, FreeSlots
<1>3. /\ IsFiniteSet(Used) /\ Cardinality(Used) \in Nat
      /\ IsFiniteSet(FreeSlots) /\ Cardinality(FreeSlots) \in Nat
  BY <1>1, <1>2, FS_Subset, FS_CardinalityType
<1>4. Cardinality(FreeSlots \cup Used)
        = Cardinality(FreeSlots) + Cardinality(Used) - Cardinality(FreeSlots \cap Used)
  BY <1>3, FS_Union
<1>5. FreeSlots \cup Used = Slots /\ FreeSlots \cap Used = {}
  BY <1>2 DEF Used
<1>6. Cardinality(FreeSlots) + Cardinality(Used) = WndNum
  <2>1. Cardinality(FreeSlots \cup Used) = WndNum
    BY <1>1, <1>5
  <2>2. Cardinality(FreeSlots \cap Used) = 0
    BY <1>5, FS_EmptySet
  <2>. QED  BY <1>3, <1>4, <2>1, <2>2
<1>7. FreeSlots = {} => Cardinality(FreeSlots) = 0
  BY FS_EmptySet
<1>. QED  BY <1>3, <1>6, <1>7

LEMMA AddsFinite ==
  ASSUME NEW c \in Seq(Order)
  PROVE  IsFiniteSet(AddsOf(c)) /\ Cardinality(AddsOf(c)) \in Nat
<1>1. AddsOf(c) \subseteq 1 .. Len(c) /\ Len(c) \in Nat
  BY DEF AddsOf
<1>2. IsFiniteSet(1 .. Len(c))
  BY <1>1, FS_Interval
<1>. QED  BY <1>1, <1>2, FS_Subset, FS_CardinalityType

\* An order at the end of the pipe is one more, if it is one to enter a connection.
LEMMA AddsAppend ==
  ASSUME NEW c \in Seq(Order), NEW o \in Order
  PROVE  Cardinality(AddsOf(Append(c, o)))
           = Cardinality(AddsOf(c)) + IF o.code = "TOADDDBG" THEN 1 ELSE 0
<1> DEFINE n == Len(c) + 1
<1>1. n \notin AddsOf(c)
  BY DEF AddsOf
<1>2. AddsOf(Append(c, o)) = IF o.code = "TOADDDBG" THEN AddsOf(c) \cup {n} ELSE AddsOf(c)
  BY DEF AddsOf
<1>3. IsFiniteSet(AddsOf(c)) /\ Cardinality(AddsOf(c)) \in Nat
  BY AddsFinite
<1>4. Cardinality(AddsOf(c) \cup {n}) = Cardinality(AddsOf(c)) + 1
  BY <1>1, <1>3, FS_AddElement
<1>. QED  BY <1>2, <1>3, <1>4

\* ... and one less when it leaves it.
LEMMA AddsTail ==
  ASSUME NEW c \in Seq(Order), c # << >>
  PROVE  Cardinality(AddsOf(Tail(c)))
           = Cardinality(AddsOf(c)) - IF Head(c).code = "TOADDDBG" THEN 1 ELSE 0
<1> DEFINE S == AddsOf(Tail(c))
           T == AddsOf(c) \ {1}
           f == [k \in S |-> k + 1]
<1>1. /\ Tail(c) \in Seq(Order) /\ Len(c) \in Nat \ {0} /\ Len(Tail(c)) = Len(c) - 1
      /\ \A k \in 1 .. Len(c) - 1 : Tail(c)[k] = c[k + 1]
      /\ DOMAIN c = 1 .. Len(c) /\ DOMAIN Tail(c) = 1 .. Len(c) - 1
  OBVIOUS
<1>2. \A k \in S : k \in Nat /\ k + 1 \in T
  BY <1>1 DEF AddsOf
<1>3. \A k \in T : k - 1 \in S /\ k \in Nat
  BY <1>1 DEF AddsOf
<1> HIDE DEF S, T
<1>4. f \in Injection(S, T)
  <2>1. f \in [S -> T]
    BY <1>2
  <2>2. ASSUME NEW a \in S, NEW b \in S, f[a] = f[b] PROVE a = b
    <3>1. a \in Nat /\ b \in Nat /\ a + 1 = b + 1
      BY <1>2, <2>2
    <3>. QED  BY <3>1
  <2>3. \A a, b \in S : f[a] = f[b] => a = b
    BY <2>2
  <2> HIDE DEF f
  <2>. QED  BY <2>1, <2>3, Fun_IsInj
<1>5. f \in Surjection(S, T)
  <2>1. f \in [S -> T]
    BY <1>2
  <2>2. ASSUME NEW t \in T PROVE \E s \in S : f[s] = t
    <3>1. t - 1 \in S /\ f[t - 1] = t
      BY <1>3
    <3>. QED  BY <3>1
  <2> HIDE DEF f
  <2>. QED  BY <2>1, <2>2, Fun_IsSurj
<1> HIDE DEF f
<1>6. ExistsBijection(S, T)
  BY <1>4, <1>5 DEF ExistsBijection, Bijection
<1>7. IsFiniteSet(S)
  BY <1>1, AddsFinite DEF S
<1>8. Cardinality(T) = Cardinality(S)
  BY <1>6, <1>7, FS_Bijection
<1>9. IsFiniteSet(AddsOf(c)) /\ Cardinality(AddsOf(c)) \in Nat
  BY AddsFinite
<1>10. Cardinality(AddsOf(c) \ {1})
         = IF 1 \in AddsOf(c) THEN Cardinality(AddsOf(c)) - 1 ELSE Cardinality(AddsOf(c))
  BY <1>9, FS_RemoveElement
<1>11. 1 \in AddsOf(c) <=> Head(c).code = "TOADDDBG"
  BY <1>1 DEF AddsOf
<1>12. Cardinality(S) = Cardinality(AddsOf(c) \ {1})
  BY <1>8 DEF T
<1>. QED  BY <1>9, <1>10, <1>11, <1>12 DEF S

-----------------------------------------------------------------------------
LEMMA UsedKept ==
  ASSUME \A i \in Slots : mMmlCnfg'[i].SockId = mMmlCnfg[i].SockId PROVE Used' = Used
  BY DEF Used, FreeSlots

LEMMA CountsKept ==
  ASSUME Counts, Cardinality(AddsOf(ctrl)') = Cardinality(AddsOf(ctrl)), Used' = Used,
         UNCHANGED <<mWndConnNum, listener, missed, uncount>>
  PROVE  Counts'
  BY DEF Counts, Late, Early

LEMMA CountInit == Init => Counts
<1>. SUFFICES ASSUME Init PROVE Counts
  OBVIOUS
<1>1. AddsOf(ctrl) = {} /\ Used = {}
  BY DEF Init, AddsOf, Used, FreeSlots
<1>2. Cardinality(AddsOf(ctrl)) = 0 /\ Cardinality(Used) = 0
  BY <1>1, FS_EmptySet
<1>3. mWndConnNum = 0 /\ missed = 0 /\ listener = Waiting /\ uncount = NoUncount
  BY DEF Init
<1>4. Late = 0 /\ Early = 0
  BY <1>3 DEF Late, Early, Waiting, NoUncount
<1>. QED  BY <1>2, <1>3, <1>4, DebugWindowsAssumption DEF Counts, Waiting, NoUncount

\* What the two sides of the count are, as numbers.
LEMMA CountTypes ==
  ASSUME CInv
  PROVE  /\ ctrl \in Seq(Order)
         /\ Cardinality(AddsOf(ctrl)) \in Nat /\ Cardinality(Used) \in Nat
         /\ mWndConnNum \in Int /\ missed \in Nat /\ WndNum \in Nat
         /\ listener.saw \in Int /\ uncount.saw \in Int
         /\ uncount.busy \in BOOLEAN /\ listener.pc \in {"waiting", "sent", "read"}
         /\ listener \in [pc : {"waiting", "sent", "read"}, saw : Int]
         /\ uncount \in [busy : BOOLEAN, saw : Int]
         /\ Late \in Int /\ 0 <= Late /\ Late <= 1
         /\ Early \in Int /\ 0 <= Early /\ Early <= 1
<1>1. ctrl \in Seq(Order)
  BY DEF CInv, IInv, Types
<1>2. /\ Late \in Int /\ 0 <= Late /\ Late <= 1
      /\ Early \in Int /\ 0 <= Early /\ Early <= 1
  BY DEF Late, Early
<1>. QED  BY <1>1, <1>2, AddsFinite, UsedFinite, DebugWindowsAssumption DEF CInv, Counts

\* The same without the records.
LEMMA CountNumbers ==
  ASSUME CInv
  PROVE  /\ Cardinality(AddsOf(ctrl)) \in Int /\ Cardinality(Used) \in Int
         /\ mWndConnNum \in Int /\ missed \in Int /\ WndNum \in Int
         /\ listener.saw \in Int /\ uncount.saw \in Int
         /\ Late \in Int /\ Early \in Int
BY CountTypes

\* And how they compare.
LEMMA CountFacts ==
  ASSUME CInv
  PROVE  /\ Cardinality(AddsOf(ctrl)) + Cardinality(Used) + Early <= mWndConnNum + Late + missed
         /\ Cardinality(AddsOf(ctrl)) + Cardinality(Used) <= WndNum + missed
         /\ mWndConnNum + Late <= WndNum
         /\ listener.pc = "read" => mWndConnNum <= listener.saw /\ listener.saw < WndNum
         /\ uncount.busy => uncount.saw <= mWndConnNum
         /\ uncount.busy /\ listener.pc = "read" => uncount.saw <= listener.saw
BY DEF CInv, Counts

LEMMA AcceptCount == ASSUME CInv, NEW c \in Conns, Accept(c) PROVE Counts'
<1> DEFINE o == [code |-> "TOADDDBG", conn |-> c, win |-> None]
<1>1. /\ listener.pc = "waiting" /\ mWndConnNum < WndNum /\ ctrl' = Append(ctrl, o)
      /\ listener' = [pc |-> "sent", saw |-> 0]
      /\ UNCHANGED <<mMmlCnfg, mWndConnNum, missed, uncount>>
  BY DEF Accept, tables
<1>2. o \in Order /\ o.code = "TOADDDBG" /\ ctrl \in Seq(Order)
  BY DEF Order, CInv, IInv, Types
<1> HIDE DEF o
<1>3. Cardinality(AddsOf(ctrl)') = Cardinality(AddsOf(ctrl)) + 1
  BY <1>1, <1>2, AddsAppend, AddsFinite
<1>4. Used' = Used
  BY <1>1, UsedKept
<1>5. Late = 0 /\ Late' = 1 /\ Early' = Early
  BY <1>1 DEF Late, Early
<1>6. listener' \in [pc : {"waiting", "sent", "read"}, saw : Int] /\ listener'.pc = "sent"
  BY <1>1
<1>7. Cardinality(Used)' = Cardinality(Used)
  BY <1>4
<1>8. /\ Cardinality(AddsOf(ctrl))' + Cardinality(Used)' + Early' <= mWndConnNum' + Late' + missed'
      /\ Cardinality(AddsOf(ctrl))' + Cardinality(Used)' <= WndNum + missed'
      /\ mWndConnNum' + Late' <= WndNum
  BY <1>1, <1>3, <1>5, <1>7, CountTypes, CountFacts
<1>9. uncount'.busy => uncount'.saw <= mWndConnNum'
  BY <1>1, CountFacts
<1>. QED  BY <1>1, <1>6, <1>8, <1>9, CountTypes DEF Counts

\* ListenTask reads the count: nothing it was told about is newer.
LEMMA ReadCountCount == ASSUME CInv, ReadCount PROVE Counts'
<1>1. /\ listener.pc = "sent" /\ listener' = [pc |-> "read", saw |-> mWndConnNum]
      /\ UNCHANGED <<mMmlCnfg, ctrl, mWndConnNum, missed, uncount>>
  BY DEF ReadCount, tables
<1>2. Used' = Used /\ AddsOf(ctrl)' = AddsOf(ctrl)
  BY <1>1, UsedKept DEF AddsOf
<1>3. Late = 1 /\ Late' = 1 /\ Early' = Early
  BY <1>1 DEF Late, Early
<1>4. /\ listener' \in [pc : {"waiting", "sent", "read"}, saw : Int]
      /\ listener'.pc = "read" /\ listener'.saw = mWndConnNum
  BY <1>1, CountTypes
<1>. QED  BY <1>1, <1>2, <1>3, <1>4, CountTypes, CountFacts DEF Counts

LEMMA ListenerCount == ASSUME CInv, CountConnection PROVE Counts'
<1>1. /\ listener.pc = "read" /\ mWndConnNum' = listener.saw + 1 /\ listener' = Waiting
      /\ UNCHANGED <<mMmlCnfg, ctrl, missed, uncount>>
  BY DEF CountConnection, tables
<1>2. Used' = Used /\ AddsOf(ctrl)' = AddsOf(ctrl)
  BY <1>1, UsedKept DEF AddsOf
<1>3. Late = 1 /\ Late' = 0 /\ Early' = Early
  BY <1>1 DEF Late, Early, Waiting
<1>4. /\ listener' \in [pc : {"waiting", "sent", "read"}, saw : Int]
      /\ listener'.pc = "waiting"
  BY <1>1 DEF Waiting
<1>5. mWndConnNum <= listener.saw /\ listener.saw < WndNum
  BY <1>1 DEF CInv, Counts
<1>6. Cardinality(Used)' = Cardinality(Used) /\ Cardinality(AddsOf(ctrl))' = Cardinality(AddsOf(ctrl))
  BY <1>2
<1>7. /\ Cardinality(AddsOf(ctrl))' + Cardinality(Used)' + Early' <= mWndConnNum' + Late' + missed'
      /\ Cardinality(AddsOf(ctrl))' + Cardinality(Used)' <= WndNum + missed'
      /\ mWndConnNum' + Late' <= WndNum
  <2>1. mWndConnNum' = listener.saw + 1 /\ missed' = missed
    BY <1>1
  <2>2. Cardinality(AddsOf(ctrl)) + Cardinality(Used) + Early <= mWndConnNum + 1 + missed
    BY <1>3, CountFacts
  <2>3. /\ Cardinality(AddsOf(ctrl))' + Cardinality(Used)' + Early' <= mWndConnNum' + Late' + missed'
        /\ mWndConnNum' + Late' <= WndNum
    BY <1>3, <1>5, <1>6, <2>1, <2>2, CountNumbers
  <2>4. Cardinality(AddsOf(ctrl))' + Cardinality(Used)' <= WndNum + missed'
    BY <1>6, <2>1, CountFacts
  <2>. QED  BY <2>3, <2>4
<1>8. mWndConnNum' \in Int /\ (uncount'.busy => uncount'.saw <= mWndConnNum')
  <2>1. mWndConnNum' = listener.saw + 1 /\ uncount' = uncount
    BY <1>1
  <2>2. uncount.busy => uncount.saw <= listener.saw
    BY <1>1, CountFacts
  <2>. QED  BY <2>1, <2>2, CountNumbers
<1>. QED  BY <1>1, <1>4, <1>7, <1>8, CountTypes DEF Counts

\* What UserSockFail writes over is missed.
LEMMA UncountCount == ASSUME CInv, WriteUncount PROVE Counts'
<1>1. /\ uncount.busy /\ mWndConnNum' = uncount.saw - 1 /\ uncount' = NoUncount
      /\ missed' = missed + mWndConnNum - uncount.saw
      /\ UNCHANGED <<mMmlCnfg, ctrl, listener>>
  BY DEF WriteUncount
<1>2. Used' = Used /\ AddsOf(ctrl)' = AddsOf(ctrl)
  BY <1>1, UsedKept DEF AddsOf
<1>3. Early = 1 /\ Early' = 0 /\ Late' = Late
  BY <1>1 DEF Late, Early, NoUncount
<1>4. uncount' \in [busy : BOOLEAN, saw : Int] /\ ~uncount'.busy
  BY <1>1 DEF NoUncount
<1>5. /\ uncount.saw <= mWndConnNum
      /\ listener.pc = "read" => uncount.saw <= listener.saw
  BY <1>1 DEF CInv, Counts
<1>6. missed' \in Nat /\ missed' >= missed
  BY <1>1, <1>5, CountTypes
<1>7. Cardinality(Used)' = Cardinality(Used) /\ Cardinality(AddsOf(ctrl))' = Cardinality(AddsOf(ctrl))
  BY <1>2
<1>8. /\ Cardinality(AddsOf(ctrl))' + Cardinality(Used)' + Early' <= mWndConnNum' + Late' + missed'
      /\ Cardinality(AddsOf(ctrl))' + Cardinality(Used)' <= WndNum + missed'
      /\ mWndConnNum' + Late' <= WndNum
  <2>1. mWndConnNum' = uncount.saw - 1 /\ missed' = missed + mWndConnNum - uncount.saw
    BY <1>1
  <2>2. Cardinality(AddsOf(ctrl)) + Cardinality(Used) + 1 <= mWndConnNum + Late + missed
    BY <1>3, CountFacts
  <2>3. Cardinality(AddsOf(ctrl))' + Cardinality(Used)' + Early' <= mWndConnNum' + Late' + missed'
    BY <1>3, <1>7, <2>1, <2>2, CountNumbers
  <2>4. Cardinality(AddsOf(ctrl))' + Cardinality(Used)' <= WndNum + missed'
    <3>1. Cardinality(AddsOf(ctrl)) + Cardinality(Used) <= WndNum + missed
      BY CountFacts
    <3>. QED  BY <1>5, <1>7, <2>1, <3>1, CountNumbers
  <2>5. mWndConnNum' + Late' <= WndNum
    <3>1. mWndConnNum + Late <= WndNum
      BY CountFacts
    <3>. QED  BY <1>3, <1>5, <2>1, <3>1, CountNumbers
  <2>. QED  BY <2>3, <2>4, <2>5
<1>9. listener'.pc = "read" => mWndConnNum' <= listener'.saw /\ listener'.saw < WndNum
  BY <1>1, <1>5, CountTypes, CountFacts
<1>10. mWndConnNum' \in Int
  BY <1>1, CountTypes
<1>. QED  BY <1>1, <1>4, <1>6, <1>8, <1>9, <1>10, CountTypes DEF Counts

\* The orders of applications and of the timer enter no connection.
LEMMA OrderCount ==
  ASSUME CInv, NEW o \in Order, o.code # "TOADDDBG", ctrl' = Append(ctrl, o),
         UNCHANGED <<mMmlCnfg, mWndConnNum, listener, missed, uncount>>
  PROVE  Counts'
<1>1. ctrl \in Seq(Order) /\ Cardinality(AddsOf(ctrl)) \in Nat
  BY AddsFinite DEF CInv, IInv, Types
<1>2. Cardinality(AddsOf(ctrl)') = Cardinality(AddsOf(ctrl))
  BY <1>1, AddsAppend
<1>3. Used' = Used
  BY UsedKept
<1>. QED  BY <1>2, <1>3, CountsKept DEF CInv

LEMMA FailCount ==
  ASSUME CInv, NEW i \in Slots, mMmlCnfg[i].SockId \in Conns, UserSockFail(i), ~uncount.busy,
         UNCHANGED <<ctrl, counts>>
  PROVE  Counts'
<1>1. uncount' = [busy |-> TRUE, saw |-> mWndConnNum] /\ UNCHANGED <<mWndConnNum, listener, missed>>
  BY DEF UserSockFail, counts
<1>2. mMmlCnfg'[i].SockId = NoSock /\ \A j \in Slots : j # i => mMmlCnfg'[j] = mMmlCnfg[j]
  BY DEF UserSockFail, CInv, IInv, Types
<1>3. i \in Used /\ Used' = Used \ {i}
  BY <1>2, DebugWindowsAssumption DEF Used, FreeSlots
<1>4. Cardinality(Used') = Cardinality(Used) - 1 /\ Cardinality(Used) \in Nat
  BY <1>3, UsedFinite, FS_RemoveElement
<1>5. AddsOf(ctrl)' = AddsOf(ctrl)
  BY DEF AddsOf
<1>6. Early = 0 /\ Early' = 1 /\ Late' = Late
  BY <1>1 DEF Late, Early
<1>7. uncount' \in [busy : BOOLEAN, saw : Int] /\ uncount'.saw = mWndConnNum
  BY <1>1, CountTypes
<1>. QED  BY <1>1, <1>4, <1>5, <1>6, <1>7, CountTypes, CountFacts DEF Counts

\* Only AddDbg changes who has a slot: the first free one is taken.  If there is
\* none, the connection is gone from the orders and nobody uncounts it.
LEMMA CtrlCount == ASSUME CInv, DealMmlCtrlOrd PROVE Counts'
<1> DEFINE o == Head(ctrl)
<1>1. ctrl # << >> /\ ctrl \in Seq(Order) /\ ctrl' = Tail(ctrl)
      /\ UNCHANGED <<mWndConnNum, listener, missed, uncount>>
  BY DEF DealMmlCtrlOrd, counts, CInv, IInv, OrdersSound, Types
<1>2. /\ Cardinality(AddsOf(ctrl)) \in Nat /\ Cardinality(AddsOf(ctrl)') \in Nat
      /\ Cardinality(AddsOf(ctrl)')
           = Cardinality(AddsOf(ctrl)) - IF o.code = "TOADDDBG" THEN 1 ELSE 0
  <2>1. Tail(ctrl) \in Seq(Order)
    BY <1>1
  <2>. QED  BY <1>1, <2>1, AddsTail, AddsFinite
<1>3. o \in Order
  BY <1>1
<1>0. mMmlCnfg \in [Slots -> Slot]
  BY DEF CInv, IInv, Types
<1>4. CASE o.code = "TOADDDBG" /\ AddDbg(o.conn)
  <2> DEFINE f == FirstOf(FreeSlots)
             c == o.conn
  <2>0. Late' = Late /\ Early' = Early
    BY <1>1 DEF Late, Early
  <2> DEFINE Sums ==
        /\ Cardinality(AddsOf(ctrl))' + Cardinality(Used)' + Early' <= mWndConnNum' + Late' + missed'
        /\ Cardinality(AddsOf(ctrl))' + Cardinality(Used)' <= WndNum + missed'
  <2>11. ASSUME Sums PROVE Counts'
    <3>1. mWndConnNum' + Late' <= WndNum
      BY <1>1, <2>0, CountFacts
    <3>2. /\ (listener.pc = "read" => mWndConnNum <= listener.saw /\ listener.saw < WndNum)'
          /\ (uncount.busy => uncount.saw <= mWndConnNum)'
          /\ (uncount.busy /\ listener.pc = "read" => uncount.saw <= listener.saw)'
      BY <1>1, CountFacts
    <3>. QED  BY <1>1, <2>11, <3>1, <3>2, CountTypes DEF Counts
  <2>12. UNCHANGED <<mWndConnNum, missed>>
    BY <1>1
  <2>9. CASE FreeSlots = {}
    <3>1. Used' = Used
      <4>1. mMmlCnfg' = mMmlCnfg
        BY <1>4, <2>9 DEF AddDbg
      <4>. QED  BY <4>1, UsedKept
    <3>2. Cardinality(Used)' = Cardinality(Used)
      BY <3>1
    <3>3. Cardinality(AddsOf(ctrl))' = Cardinality(AddsOf(ctrl)) - 1
      BY <1>2, <1>4
    <3>4. Sums
      BY <2>0, <2>12, <3>2, <3>3, CountNumbers, CountFacts
    <3>. QED  BY <2>11, <3>4
  <2>10. CASE FreeSlots # {}
    <3>2. f \in FreeSlots
      BY <2>10, FirstOfIn DEF FreeSlots
    <3>3. c \in Conns
      BY <1>3, <1>4 DEF Order
    <3>4. mMmlCnfg' = [mMmlCnfg EXCEPT ![f].SockId = c, ![f].Status = "CONNECT"]
      BY <1>4, <2>10 DEF AddDbg
    <3> HIDE DEF f, c
    <3>5. f \in Slots /\ f \notin Used
      BY <3>2 DEF FreeSlots, Used
    <3>6. /\ mMmlCnfg'[f].SockId = c
          /\ \A j \in Slots : j # f => mMmlCnfg'[j] = mMmlCnfg[j]
      BY <1>0, <3>4, <3>5 DEF Slot
    <3>7. Used' = Used \cup {f}
      BY <3>3, <3>5, <3>6, DebugWindowsAssumption DEF Used, FreeSlots
    <3>8. Cardinality(Used') = Cardinality(Used) + 1 /\ Cardinality(Used) \in Nat
      BY <3>5, <3>7, UsedFinite, FS_AddElement
    <3>9. Cardinality(AddsOf(ctrl))' = Cardinality(AddsOf(ctrl)) - 1
      BY <1>2, <1>4
    <3>10. Cardinality(Used)' = Cardinality(Used) + 1
      BY <3>8
    <3>11. Sums
      BY <2>0, <2>12, <3>9, <3>10, CountNumbers, CountFacts
    <3>. QED  BY <2>11, <3>11
  <2>. QED  BY <2>9, <2>10
<1>5. ASSUME o.code # "TOADDDBG", Used' = Used PROVE Counts'
  BY <1>1, <1>2, <1>5, CountsKept DEF CInv
<1>6. ASSUME o.code # "TOADDDBG", NEW w, Activate(w) \/ Pause(w) \/ Timer(w) \/ Timeout(w)
      PROVE  Counts'
  <2>1. CASE UNCHANGED mMmlCnfg
    BY <1>5, <1>6, <2>1, UsedKept
  <2>2. ASSUME NEW f, mMmlCnfg' = [mMmlCnfg EXCEPT ![f].Status = "ACTIVE", ![f].Period = 0]
        PROVE  Counts'
    <3>1. \A j \in Slots : mMmlCnfg'[j].SockId = mMmlCnfg[j].SockId
      BY <1>0, <2>2 DEF Slot
    <3>. QED  BY <1>5, <1>6, <3>1, UsedKept
  <2>3. ASSUME NEW i \in SlotsOf(w), NEW timed \in BOOLEAN,
               mMmlCnfg' = [mMmlCnfg EXCEPT
                              ![i].Period = IF timed THEN 0 ELSE @,
                              ![i].Status = IF @ = "ACTIVE" THEN "PAUSE" ELSE @]
        PROVE  Counts'
    <3>1. \A j \in Slots : mMmlCnfg'[j].SockId = mMmlCnfg[j].SockId
      BY <1>0, <2>3 DEF Slot
    <3>. QED  BY <1>5, <1>6, <3>1, UsedKept
  <2>4. CASE Timer(w)
    <3>1. \A j \in Slots : mMmlCnfg'[j].SockId = mMmlCnfg[j].SockId
      BY <1>0, <2>4 DEF Slot, Timer
    <3>. QED  BY <1>5, <1>6, <3>1, UsedKept
  <2>5. CASE Activate(w)
    <3>1. UNCHANGED mMmlCnfg
          \/ \E f : mMmlCnfg' = [mMmlCnfg EXCEPT ![f].Status = "ACTIVE", ![f].Period = 0]
      BY <2>5 DEF Activate
    <3>. QED  BY <2>1, <2>2, <3>1
  <2>6. CASE Pause(w)
    BY <2>1, <2>3, <2>6 DEF Pause
  <2>7. CASE Timeout(w)
    BY <2>1, <2>7 DEF Timeout
  <2>. QED  BY <1>6, <2>4, <2>5, <2>6, <2>7
<1>. QED  BY <1>4, <1>6 DEF DealMmlCtrlOrd

\* The steps that leave the orders and the count alone, and each slot its socket.
LEMMA OtherCount ==
  ASSUME CInv, \A i \in Slots : mMmlCnfg'[i].SockId = mMmlCnfg[i].SockId,
         UNCHANGED <<mWndConnNum, ctrl, listener, missed, uncount>>
  PROVE  Counts'
  BY UsedKept, CountsKept DEF CInv, AddsOf

LEMMA CountStep == CInv /\ [Next]_vars => CInv'
<1>. SUFFICES ASSUME CInv, [Next]_vars PROVE Counts'
  BY StepInv DEF CInv
<1>0. mMmlCnfg \in [Slots -> Slot]
  BY DEF CInv, IInv, Types
<1>1. CASE UNCHANGED vars
  BY <1>1, OtherCount DEF vars, tables, counts
<1>2. CASE Select \/ NoCommand
  BY <1>2, OtherCount DEF Select, NoCommand, tables, counts
<1>3. CASE DealMmlCtrlOrd
  BY <1>3, CtrlCount
<1>4. ASSUME NEW i \in Slots, NEW w, Configure(i, w), UNCHANGED <<ctrl, counts>> PROVE Counts'
  <2>1. \A j \in Slots : mMmlCnfg'[j].SockId = mMmlCnfg[j].SockId
    BY <1>0, <1>4 DEF Configure, Slot
  <2>. QED  BY <1>4, <2>1, OtherCount DEF Configure, counts
<1>5. ASSUME NEW i \in Slots, DealWatchSock(i), ~uncount.busy PROVE Counts'
  <2>1. UNCHANGED <<ctrl, counts>> /\ mMmlCnfg[i].SockId \in Conns
    BY <1>5 DEF DealWatchSock, CInv, IInv, SocksSound
  <2>2. \/ UserSockFail(i) \/ UNCHANGED tables
        \/ \E w : Configure(i, w)
    BY <1>5 DEF DealWatchSock
  <2>3. ASSUME UNCHANGED tables PROVE Counts'
    BY <2>1, <2>3, OtherCount DEF tables, counts
  <2>. QED  BY <1>4, <1>5, <2>1, <2>2, <2>3, FailCount
<1>6. ASSUME NEW i \in Slots, DealWatchPipe(i) PROVE Counts'
  <2>1. \A j \in Slots : mMmlCnfg'[j].SockId = mMmlCnfg[j].SockId
    BY <1>0, <1>6 DEF DealWatchPipe, Slot
  <2>. QED  BY <1>6, <2>1, OtherCount DEF DealWatchPipe, counts
<1>7. ASSUME NEW w \in Windows, deleteconnection(w), ~uncount.busy PROVE Counts'
  <2>1. /\ winNum[w] \in Slots /\ UserSockFail(winNum[w]) /\ UNCHANGED <<ctrl, counts>>
        /\ mMmlCnfg[winNum[w]].SockId \in Conns
    BY <1>7 DEF deleteconnection, CInv, IInv, WindowsMatch
  <2>. QED  BY <1>7, <2>1, FailCount
<1>8. ASSUME NEW w \in Windows, NEW i \in Slots, CmdCfgWin(i, w) PROVE Counts'
  BY <1>4, <1>8 DEF CmdCfgWin
<1>9. CASE ReadCount \/ CountConnection \/ WriteUncount
  BY <1>9, ReadCountCount, ListenerCount, UncountCount
<1>10. ASSUME NEW c \in Conns, Accept(c) \/ PeerSends(c) PROVE Counts'
  BY <1>10, AcceptCount, OtherCount DEF PeerSends, tables, counts
<1>11. ASSUME NEW a \in Apps,
              PrintCheck(a) \/ PrintWrite(a) \/ \E w \in Windows : MmlPrintf(a, w)
       PROVE  Counts'
  BY <1>11, OtherCount DEF PrintCheck, PrintWrite, MmlPrintf, tables, counts
<1>12. ASSUME NEW w \in Windows, SendOrder(w) PROVE Counts'
  <2>1. PICK code \in {"TOPAUSE", "TOACTIVE", "TOTIMER"} :
          ctrl' = Append(ctrl, [code |-> code, conn |-> NoSock, win |-> w])
    BY <1>12 DEF SendOrder
  <2>2. [code |-> code, conn |-> NoSock, win |-> w] \in Order
    BY DEF Order
  <2>. QED  BY <1>12, <2>1, <2>2, OrderCount DEF SendOrder, tables, counts
<1>13. ASSUME NEW i \in Slots, MmlTimeout(i) PROVE Counts'
  <2>1. ctrl' = Append(ctrl, [code |-> "TOTIMEOUT", conn |-> NoSock, win |-> timer[i]])
        /\ timer[i] \in Windows
    BY <1>13 DEF MmlTimeout, CInv, IInv, Types
  <2>2. [code |-> "TOTIMEOUT", conn |-> NoSock, win |-> timer[i]] \in Order
    BY <2>1 DEF Order
  <2>. QED  BY <1>13, <2>1, <2>2, OrderCount DEF MmlTimeout, counts
<1>. QED  BY <1>1, <1>2, <1>3, <1>5, <1>6, <1>7, <1>8, <1>9, <1>10, <1>11, <1>12, <1>13
     DEF Next, DataCollectTask

LEMMA CountHolds == Spec => []CInv
<1>1. Init => CInv
  BY InitInv, CountInit DEF CInv
<1>. QED  BY <1>1, CountStep, PTL DEF Spec

\* Of the connections that ListenTask accepted no more find no slot than increments
\* of the count were lost, although the listener counts a connection only after its
\* order is sent, and the collecting task uncounts others meanwhile and may write
\* over what the listener wrote (ListenTask, AddDbg, UserSockFail).
THEOREM DebugConnectionFits == Spec => []ConnectionFits
<1>1. CInv => ConnectionFits
  <2>. SUFFICES ASSUME CInv PROVE Cardinality(AddsOf(ctrl)) <= Cardinality(FreeSlots) + missed
    BY DEF ConnectionFits, AddsOf
  <2>. QED  BY CountTypes, UsedFinite DEF CInv, Counts
<1>. QED  BY <1>1, CountHolds, PTL

\* The tables keep their types; the count of connections never exceeds the number
\* of slots, and falls below nothing by no more than the increments it has lost and
\* the one the listener has still to make (CountConnection, WriteUncount).
THEOREM DebugTypeCorrect == Spec => []TypeOK
<1>1. CInv /\ BufInv => TypeOK
  <2>. SUFFICES ASSUME CInv, BufInv PROVE TypeOK
    OBVIOUS
  <2>2. mWndConnNum \in -1 - missed .. WndNum
    BY CountTypes, CountFacts
  <2>. QED  BY <2>2 DEF CInv, BufInv, Counts, IInv, Types, TypeOK, Slot
<1>2. Spec => []BufInv
  BY BufInit, BufStep, PTL DEF Spec
<1>. QED  BY <1>1, <1>2, CountHolds, PTL

=============================================================================
