-------------------------- MODULE StatWindowsProofs --------------------------
(***************************************************************************)
(* For every number of slots, windows, connections and application tasks:  *)
(* two connections are never served the data of one statistic window, and  *)
(* no message buffer is in two places.                                     *)
(***************************************************************************)
EXTENDS StatWindows, FiniteSetTheorems, TLAPS

Slot == [WinId : Windows \cup {None}, SockId : Conns \cup {NoSock}]
Ready == [mml : BOOLEAN, ctrl : BOOLEAN, socks : SUBSET Slots, pipes : SUBSET Slots]
Said == [says : {"nothing", "config", "close", "gone"}, win : Windows \cup {None}]

\* The part of TypeOK that the argument rests on.
Types ==
  /\ mMmlStat \in [Slots -> Slot]
  /\ winNum \in [Windows -> Slots \cup {None}]
  /\ ctrl \in Seq(Conns)
  /\ ready \in Ready
  /\ peer \in [Conns -> Said]

\* What select reported has not gone stale: the connections to be read are still
\* there, although a command was obeyed in between, and so is the order.
ReadySound ==
  /\ \A i \in ready.socks : mMmlStat[i].SockId \in Conns
  /\ ready.ctrl => ctrl # << >>

\* The inductive invariant.
IInv == Types /\ WindowOwned /\ ReadySound

-----------------------------------------------------------------------------
LEMMA NoneIsNoSlot == None \notin Slots /\ None \notin Windows
  BY StatWindowsAssumption DEF None, Slots, Windows

LEMMA InitInv == Init => IInv
  BY NoneIsNoSlot, StatWindowsAssumption
     DEF Init, IInv, Types, WindowOwned, ReadySound, NothingReady, Gone, Slot, Ready, Said

\* A step that leaves slots, windows and reports alone: the control pipe may have
\* grown.
LEMMA OthersInv ==
  ASSUME IInv, UNCHANGED <<mMmlStat, winNum, ready>>,
         ctrl' \in Seq(Conns), ctrl # << >> => ctrl' # << >>,
         peer' \in [Conns -> Said]
  PROVE  IInv'
<1>1. Types'
  BY DEF IInv, Types
<1>2. WindowOwned'
  BY DEF IInv, WindowOwned
<1>3. ReadySound'
  BY DEF IInv, ReadySound
<1>. QED  BY <1>1, <1>2, <1>3 DEF IInv

LEMMA AcceptInv == ASSUME IInv, NEW c \in Conns, Accept(c) PROVE IInv'
<1>1. ctrl' \in Seq(Conns) /\ ctrl' # << >>
  BY DEF Accept, IInv, Types
<1>2. peer' \in [Conns -> Said]
  BY DEF Accept, IInv, Types, Quiet, Said
<1>. QED  BY <1>1, <1>2, OthersInv DEF Accept, tables

LEMMA PeerInv == ASSUME IInv, NEW c \in Conns, PeerSends(c) PROVE IInv'
<1>1. peer' \in [Conns -> Said]
  BY DEF PeerSends, IInv, Types, Said
<1>. QED  BY <1>1, OthersInv DEF PeerSends, tables, IInv, Types

\* The end of a connection: its window names no slot any more, or it is window 0,
\* and then no slot names it.
LEMMA FailSound ==
  ASSUME IInv, NEW i \in Slots, mMmlStat[i].SockId \in Conns, StatSockFail(i)
  PROVE  /\ mMmlStat' \in [Slots -> Slot]
         /\ winNum' \in [Windows -> Slots \cup {None}]
         /\ peer' \in [Conns -> Said]
         /\ WindowOwned'
         /\ \A j \in Slots : j # i => mMmlStat'[j] = mMmlStat[j]
<1> DEFINE empty == [WinId |-> None, SockId |-> NoSock]
           w0 == mMmlStat[i].WinId
<1>1. /\ mMmlStat' = [mMmlStat EXCEPT ![i] = empty]
      /\ peer' = [peer EXCEPT ![mMmlStat[i].SockId] = Gone]
      /\ winNum' = IF w0 > 0 THEN [winNum EXCEPT ![w0] = None] ELSE winNum
  BY DEF StatSockFail
<1>2. empty \in Slot /\ empty.WinId = None
  BY DEF Slot
<1> HIDE DEF empty
<1>3. mMmlStat' \in [Slots -> Slot] /\ winNum' \in [Windows -> Slots \cup {None}]
  BY <1>1, <1>2 DEF IInv, Types
<1>4. peer' \in [Conns -> Said]
  BY <1>1 DEF IInv, Types, Gone, Said
<1>5. mMmlStat'[i] = empty /\ \A j \in Slots : j # i => mMmlStat'[j] = mMmlStat[j]
  BY <1>1 DEF IInv, Types
<1>6. \A w \in Windows : w # w0 => winNum'[w] = winNum[w]
  BY <1>1 DEF IInv, Types
<1>7. WindowOwned'
  <2>. SUFFICES ASSUME NEW j \in Slots, NEW w \in Windows, mMmlStat'[j].WinId = w
                PROVE  winNum'[w] = j /\ mMmlStat'[j].SockId \in Conns
    BY DEF WindowOwned
  <2>1. j # i
    BY <1>2, <1>5, NoneIsNoSlot
  <2>2. mMmlStat[j].WinId = w /\ winNum[w] = j /\ mMmlStat[j].SockId \in Conns
    BY <2>1, <1>5 DEF IInv, WindowOwned
  <2>3. w # w0
    BY <2>1, <2>2 DEF IInv, WindowOwned
  <2>. QED  BY <2>1, <2>2, <2>3, <1>5, <1>6
<1>. QED  BY <1>3, <1>4, <1>5, <1>7

-----------------------------------------------------------------------------
(* DataCollectTask.                                                        *)

LEMMA SelectInv == ASSUME IInv, Select PROVE IInv'
<1>1. UNCHANGED <<mMmlStat, winNum, ctrl, peer>>
  BY DEF Select, tables
<1>2. PICK mml \in BOOLEAN :
        ready' = [mml |-> mml, ctrl |-> ctrl # << >>,
                  socks |-> {i \in InUse : peer[mMmlStat[i].SockId] # Quiet},
                  pipes |-> {i \in InUse : pipe[i] # << >>}]
  BY DEF Select
<1>3. ready' \in Ready
  BY <1>2 DEF Ready, InUse
<1>4. Types'
  BY <1>1, <1>3 DEF IInv, Types
<1>5. WindowOwned'
  BY <1>1 DEF IInv, WindowOwned
<1>6. ReadySound'
  <2>1. \A i \in InUse : mMmlStat[i].SockId \in Conns
    BY DEF InUse, IInv, Types, Slot
  <2>. QED  BY <1>1, <1>2, <2>1 DEF ReadySound
<1>. QED  BY <1>4, <1>5, <1>6 DEF IInv

LEMMA NoCommandInv == ASSUME IInv, NoCommand PROVE IInv'
<1>1. ready' \in Ready /\ ready'.socks = ready.socks /\ ready'.ctrl = ready.ctrl
  BY DEF NoCommand, IInv, Types, Ready
<1>2. UNCHANGED <<mMmlStat, winNum, ctrl, peer>>
  BY DEF NoCommand, tables
<1>3. Types' /\ WindowOwned' /\ ReadySound'
  BY <1>1, <1>2 DEF IInv, Types, WindowOwned, ReadySound
<1>. QED  BY <1>3 DEF IInv

LEMMA DeleteInv == ASSUME IInv, NEW w \in Windows, deleteconnection(w) PROVE IInv'
<1> DEFINE i == winNum[w]
<1>1. i \in Slots /\ UNCHANGED ctrl
  BY DEF deleteconnection
<1>2. ready' \in Ready /\ ready'.socks = ready.socks \ {i} /\ ready'.ctrl = ready.ctrl
  BY DEF deleteconnection, IInv, Types, Ready
<1> HIDE DEF i
<1>3. CASE mMmlStat[i].SockId # NoSock
  <2>1. StatSockFail(i) /\ mMmlStat[i].SockId \in Conns
    BY <1>1, <1>3 DEF deleteconnection, i, IInv, Types, Slot
  <2>2. Types' /\ WindowOwned'
    BY <1>1, <1>2, <2>1, FailSound DEF IInv, Types
  <2>3. ReadySound'
    <3>1. ready.socks \subseteq Slots
      BY DEF IInv, Types, Ready
    <3>. QED  BY <1>1, <1>2, <2>1, <3>1, FailSound DEF IInv, ReadySound
  <2>. QED  BY <2>2, <2>3 DEF IInv
<1>4. CASE mMmlStat[i].SockId = NoSock
  <2>1. UNCHANGED <<mMmlStat, winNum, peer>>
    BY <1>4 DEF deleteconnection, i
  <2>2. Types' /\ WindowOwned' /\ ReadySound'
    BY <1>1, <1>2, <2>1 DEF IInv, Types, WindowOwned, ReadySound
  <2>. QED  BY <2>2 DEF IInv
<1>. QED  BY <1>3, <1>4

LEMMA AddStatInv == ASSUME IInv, AddStat PROVE IInv'
<1> DEFINE i0 == CHOOSE i \in Slots \ InUse : \A j \in Slots \ InUse : i <= j
           c == Head(ctrl)
<1>1. ctrl # << >> /\ c \in Conns /\ ctrl' \in Seq(Conns)
  BY DEF AddStat, IInv, Types, ReadySound
<1>2. ready' \in Ready /\ ready'.socks = ready.socks /\ ~ready'.ctrl
  BY DEF AddStat, IInv, Types, Ready
<1>3. UNCHANGED <<winNum, peer>>
  BY DEF AddStat
<1>4. mMmlStat' = mMmlStat \/ mMmlStat' = [mMmlStat EXCEPT ![i0].SockId = c]
  BY DEF AddStat
<1> HIDE DEF i0, c
<1>5. /\ mMmlStat' \in [Slots -> Slot]
      /\ \A i \in Slots : /\ mMmlStat'[i].WinId = mMmlStat[i].WinId
                          /\ mMmlStat'[i].SockId \in {c, mMmlStat[i].SockId}
  <2>1. CASE mMmlStat' = mMmlStat
    BY <2>1 DEF IInv, Types
  <2>2. CASE mMmlStat' = [mMmlStat EXCEPT ![i0].SockId = c]
    <3>1. \A i \in Slots : /\ [mMmlStat[i] EXCEPT !.SockId = c] \in Slot
                           /\ [mMmlStat[i] EXCEPT !.SockId = c].WinId = mMmlStat[i].WinId
                           /\ [mMmlStat[i] EXCEPT !.SockId = c].SockId = c
      BY <1>1 DEF IInv, Types, Slot
    <3>2. \A i \in Slots :
             mMmlStat'[i] = IF i = i0 THEN [mMmlStat[i] EXCEPT !.SockId = c] ELSE mMmlStat[i]
      BY <2>2 DEF IInv, Types
    <3>3. mMmlStat' \in [Slots -> Slot]
      BY <2>2, <3>1, <3>2 DEF IInv, Types
    <3>. QED  BY <3>1, <3>2, <3>3
  <2>. QED  BY <1>4, <2>1, <2>2
<1>6. Types'
  BY <1>1, <1>2, <1>3, <1>5 DEF IInv, Types
<1>7. WindowOwned'
  BY <1>1, <1>3, <1>5 DEF IInv, WindowOwned
<1>8. ReadySound'
  <2>1. ready.socks \subseteq Slots
    BY DEF IInv, Types, Ready
  <2>. QED  BY <1>1, <1>2, <1>5, <2>1 DEF IInv, ReadySound
<1>. QED  BY <1>6, <1>7, <1>8 DEF IInv

\* A window is taken only when it names no slot, and then no slot names it.
LEMMA SockInv == ASSUME IInv, NEW i \in Slots, DealStatSock(i) PROVE IInv'
<1> DEFINE said == peer[mMmlStat[i].SockId]
<1>1. i \in ready.socks /\ UNCHANGED ctrl
  BY DEF DealStatSock
<1>2. ready' \in Ready /\ ready'.socks = ready.socks \ {i} /\ ready'.ctrl = ready.ctrl
  BY DEF DealStatSock, IInv, Types, Ready
<1>3. mMmlStat[i].SockId \in Conns /\ ready.socks \subseteq Slots
  BY <1>1 DEF IInv, ReadySound, Types, Ready
<1>4. said \in Said
  BY <1>3 DEF IInv, Types
<1>5. CASE StatSockFail(i)
  <2>1. Types' /\ WindowOwned' /\ ReadySound'
    BY <1>1, <1>2, <1>3, <1>5, FailSound DEF IInv, Types, ReadySound
  <2>. QED  BY <2>1 DEF IInv
<1>6. CASE /\ said.says = "config" /\ winNum[said.win] = None
           /\ mMmlStat' = [mMmlStat EXCEPT ![i].WinId = said.win]
           /\ winNum' = [winNum EXCEPT ![said.win] = i]
           /\ peer' = [peer EXCEPT ![mMmlStat[i].SockId] = Quiet]
  <2> DEFINE w0 == said.win
             new == [mMmlStat[i] EXCEPT !.WinId = w0]
  <2>1. w0 \in Windows \cup {None}
    BY <1>4 DEF Said
  <2>2. new \in Slot /\ new.WinId = w0 /\ new.SockId = mMmlStat[i].SockId
    BY <2>1 DEF IInv, Types, Slot
  <2>3. mMmlStat' = [mMmlStat EXCEPT ![i] = new]
    BY <1>6 DEF IInv, Types
  <2>4. winNum[w0] = None /\ winNum' = [winNum EXCEPT ![w0] = i]
    BY <1>6
  <2>5. peer' \in [Conns -> Said]
    BY <1>6 DEF IInv, Types, Quiet, Said
  <2> HIDE DEF w0, new
  <2>6. Types'
    BY <1>1, <1>2, <2>2, <2>3, <2>4, <2>5 DEF IInv, Types
  <2>7. mMmlStat'[i] = new /\ \A j \in Slots : j # i => mMmlStat'[j] = mMmlStat[j]
    BY <2>3 DEF IInv, Types
  <2>8. \A w \in Windows : winNum'[w] = IF w = w0 THEN i ELSE winNum[w]
    BY <2>4 DEF IInv, Types
  <2>9. WindowOwned'
    <3>. SUFFICES ASSUME NEW j \in Slots, NEW w \in Windows, mMmlStat'[j].WinId = w
                  PROVE  winNum'[w] = j /\ mMmlStat'[j].SockId \in Conns
      BY DEF WindowOwned
    <3>1. CASE j = i
      BY <3>1, <2>2, <2>7, <2>8, <1>3
    <3>2. CASE j # i
      <4>1. winNum[w] = j /\ mMmlStat'[j].SockId \in Conns
        BY <3>2, <2>7 DEF IInv, WindowOwned
      <4>2. w # w0
        BY <4>1, <2>4, NoneIsNoSlot
      <4>. QED  BY <4>1, <4>2, <2>8
    <3>. QED  BY <3>1, <3>2
  <2>10. ReadySound'
    BY <1>1, <1>2, <1>3, <2>7 DEF IInv, ReadySound
  <2>. QED  BY <2>6, <2>9, <2>10 DEF IInv
<1>. QED  BY <1>5, <1>6 DEF DealStatSock

LEMMA PipeInv == ASSUME IInv, NEW i \in Slots, DealStatPipe(i) PROVE IInv'
<1>1. ready' \in Ready /\ ready'.socks = ready.socks /\ ready'.ctrl = ready.ctrl
  BY DEF DealStatPipe, IInv, Types, Ready
<1>2. UNCHANGED <<mMmlStat, winNum, ctrl, peer>>
  BY DEF DealStatPipe, tables
<1>3. Types' /\ WindowOwned' /\ ReadySound'
  BY <1>1, <1>2 DEF IInv, Types, WindowOwned, ReadySound
<1>. QED  BY <1>3 DEF IInv

LEMMA StepInv == IInv /\ [Next]_vars => IInv'
<1>. SUFFICES ASSUME IInv, [Next]_vars PROVE IInv'
  OBVIOUS
<1>1. CASE UNCHANGED vars
  BY <1>1, OthersInv DEF vars, tables, IInv, Types
<1>2. CASE DataCollectTask /\ ~WriteUncount
  BY <1>2, SelectInv, NoCommandInv, DeleteInv, AddStatInv, SockInv, PipeInv
     DEF DataCollectTask
<1>3. CASE ReadCount \/ CountConnection \/ WriteUncount
  BY <1>3, OthersInv DEF ReadCount, CountConnection, WriteUncount, tables, IInv, Types
<1>4. CASE \E c \in Conns : Accept(c) \/ PeerSends(c)
  BY <1>4, AcceptInv, PeerInv
<1>5. ASSUME NEW a \in Apps,
             StatCheck(a) \/ StatWrite(a) \/ \E w \in Windows : MmlStatistic(a, w)
      PROVE  IInv'
  <2>1. UNCHANGED <<mMmlStat, winNum, ready, ctrl, peer>>
    BY <1>5 DEF StatCheck, StatWrite, MmlStatistic, tables
  <2>. QED  BY <2>1, OthersInv DEF IInv, Types
<1>. QED  BY <1>1, <1>2, <1>3, <1>4, <1>5 DEF Next

-----------------------------------------------------------------------------
\* Whatever windows still name slots that were given up (window 0, or one whose
\* connection named another later), a slot configured for a window is the one
\* the window names (StatSockFail, DealStatSock, deleteconnection).
THEOREM StatWindowOwned == Spec => []WindowOwned
<1>1. IInv => WindowOwned
  BY DEF IInv
<1>. QED  BY <1>1, InitInv, StepInv, PTL DEF Spec

-----------------------------------------------------------------------------
(* The buffers.                                                            *)

App == [pc : {"idle", "check", "write", "rewrite"}, win : Windows \cup {None},
        num : Slots \cup {None}, buf : SUBSET Bufs]

\* What BufferOnce counts, said without counting: no two positions of pipes have
\* one buffer, no two tasks, and no two of a pipe, a task and the free nodes.
PipesApart ==
  \A i, j \in Slots : \A k \in DOMAIN pipe[i], l \in DOMAIN pipe[j] :
    pipe[i][k] = pipe[j][l] => i = j /\ k = l

TasksApart ==
  /\ \A a, c \in Apps : \A b \in app[a].buf : b \in app[c].buf => a = c
  /\ \A a \in Apps : \A b \in app[a].buf : b \notin free

PlacesApart ==
  \A i \in Slots : \A k \in DOMAIN pipe[i] :
    /\ pipe[i][k] \notin free
    /\ \A a \in Apps : pipe[i][k] \notin app[a].buf

BufInv ==
  /\ pipe \in [Slots -> Seq(Bufs)] /\ app \in [Apps -> App] /\ free \subseteq Bufs
  /\ PipesApart /\ TasksApart /\ PlacesApart

LEMMA BufInit == Init => BufInv
  BY DEF Init, BufInv, PipesApart, TasksApart, PlacesApart, Idle, App

LEMMA BufKept == ASSUME BufInv, UNCHANGED <<pipe, free, app>> PROVE BufInv'
  BY DEF BufInv, PipesApart, TasksApart, PlacesApart

\* A pipe that is emptied: its buffers are given back, or lost.
LEMMA PipeEmptied ==
  ASSUME BufInv, NEW i \in Slots, pipe' = [pipe EXCEPT ![i] = << >>],
         free' = free \/ free' = free \cup Content(i), app' = app
  PROVE  BufInv'
<1>1. pipe' \in [Slots -> Seq(Bufs)] /\ app' \in [Apps -> App] /\ free' \subseteq Bufs
  BY DEF BufInv, Content
<1>2. /\ DOMAIN pipe'[i] = {}
      /\ \A j \in Slots : j # i => pipe'[j] = pipe[j]
  BY DEF BufInv
<1>3. PipesApart'
  <2>. SUFFICES ASSUME NEW j \in Slots, NEW h \in Slots, NEW k \in DOMAIN pipe'[j],
                       NEW l \in DOMAIN pipe'[h], pipe'[j][k] = pipe'[h][l]
                PROVE  j = h /\ k = l
    BY DEF PipesApart
  <2>1. pipe'[j] = pipe[j] /\ pipe'[h] = pipe[h]
    BY <1>2
  <2>. QED  BY <2>1 DEF BufInv, PipesApart
<1>4. \A b \in free' : b \notin free => \E k \in DOMAIN pipe[i] : b = pipe[i][k]
  BY DEF Content
<1>5. TasksApart'
  BY <1>4 DEF BufInv, TasksApart, PlacesApart
<1>6. PlacesApart'
  BY <1>2, <1>4 DEF BufInv, PlacesApart, PipesApart
<1>. QED  BY <1>1, <1>3, <1>5, <1>6 DEF BufInv

LEMMA CallBuf ==
  ASSUME BufInv, NEW a \in Apps, NEW w \in Windows, MmlStatistic(a, w) PROVE BufInv'
<1>1. UNCHANGED <<pipe, free>> /\ winNum[w] \in Slots
      /\ app' = [app EXCEPT ![a] = [pc |-> "check", win |-> w, num |-> winNum[w], buf |-> {}]]
  BY DEF MmlStatistic
<1>2. app' \in [Apps -> App]
  BY <1>1 DEF BufInv, App
<1>3. \A c \in Apps : app'[c].buf = IF c = a THEN {} ELSE app[c].buf
  BY <1>1 DEF BufInv
<1>4. PipesApart' /\ TasksApart' /\ PlacesApart'
  BY <1>1, <1>3 DEF BufInv, PipesApart, TasksApart, PlacesApart
<1>. QED  BY <1>1, <1>2, <1>4 DEF BufInv

LEMMA CheckBuf == ASSUME BufInv, NEW a \in Apps, StatCheck(a) PROVE BufInv'
<1>0. pipe' = pipe
  BY DEF StatCheck
<1>1. CASE app' = [app EXCEPT ![a] = Idle] /\ free' = free
  <2>1. app' \in [Apps -> App] /\ \A c \in Apps : app'[c].buf = IF c = a THEN {} ELSE app[c].buf
    BY <1>1 DEF BufInv, App, Idle
  <2>2. PipesApart' /\ TasksApart' /\ PlacesApart'
    BY <1>0, <1>1, <2>1 DEF BufInv, PipesApart, TasksApart, PlacesApart
  <2>. QED  BY <1>0, <1>1, <2>1, <2>2 DEF BufInv
<1>2. ASSUME NEW b \in free, NEW form \in {"write", "rewrite"}, free' = free \ {b},
             app' = [app EXCEPT ![a].pc = form, ![a].buf = {b}], b \in Bufs
      PROVE  BufInv'
  <2> DEFINE new == [app[a] EXCEPT !.pc = form, !.buf = {b}]
  <2>1. new \in App /\ new.buf = {b}
    BY <1>2 DEF BufInv, App
  <2>2. app' = [app EXCEPT ![a] = new]
    BY <1>2 DEF BufInv
  <2> HIDE DEF new
  <2>3. app' \in [Apps -> App] /\ \A c \in Apps : app'[c].buf = IF c = a THEN {b} ELSE app[c].buf
    BY <2>1, <2>2 DEF BufInv
  <2>4. TasksApart'
    BY <1>2, <2>3 DEF BufInv, TasksApart
  <2>5. PipesApart' /\ PlacesApart'
    BY <1>0, <1>2, <2>3 DEF BufInv, PipesApart, PlacesApart
  <2>. QED  BY <1>0, <1>2, <2>3, <2>4, <2>5 DEF BufInv
<1>. QED  BY <1>1, <1>2 DEF StatCheck, BufInv

\* The buffer passes from the task to the end of a pipe, or back to the free ones.
LEMMA WriteBuf == ASSUME BufInv, NEW a \in Apps, StatWrite(a) PROVE BufInv'
<1>0. app' = [app EXCEPT ![a] = Idle]
  BY DEF StatWrite
<1>1. app' \in [Apps -> App] /\ \A c \in Apps : app'[c].buf = IF c = a THEN {} ELSE app[c].buf
  BY <1>0 DEF BufInv, App, Idle
<1>2. app[a].buf \subseteq Bufs
  BY DEF BufInv, App
<1>3. ASSUME NEW i \in Slots, NEW b \in app[a].buf,
             pipe' = [pipe EXCEPT ![i] = Append(@, b)], free' = free
      PROVE  BufInv'
  <2> DEFINE s == pipe[i]
             n == Len(pipe[i]) + 1
  <2>1. s \in Seq(Bufs) /\ b \in Bufs /\ pipe' = [pipe EXCEPT ![i] = Append(s, b)]
    BY <1>2, <1>3 DEF BufInv
  <2>2. /\ Append(s, b) \in Seq(Bufs) /\ n \notin DOMAIN s
        /\ DOMAIN Append(s, b) = DOMAIN s \cup {n}
        /\ Append(s, b)[n] = b
        /\ \A k \in DOMAIN s : Append(s, b)[k] = s[k]
    BY <2>1
  <2>3. /\ pipe' \in [Slots -> Seq(Bufs)]
        /\ pipe'[i] = Append(s, b) /\ \A j \in Slots : j # i => pipe'[j] = pipe[j]
    BY <2>1, <2>2 DEF BufInv
  <2>4. \A j \in Slots : \A k \in DOMAIN pipe'[j] :
          \/ j = i /\ k = n /\ pipe'[j][k] = b
          \/ k \in DOMAIN pipe[j] /\ pipe'[j][k] = pipe[j][k]
    BY <2>2, <2>3
  <2>5. /\ b \notin free
        /\ \A c \in Apps : c # a => b \notin app[c].buf
        /\ \A j \in Slots : \A k \in DOMAIN pipe[j] : pipe[j][k] # b
    BY <1>3 DEF BufInv, TasksApart, PlacesApart
  <2> HIDE DEF s, n
  <2>6. PipesApart'
    <3>. SUFFICES ASSUME NEW j \in Slots, NEW h \in Slots, NEW k \in DOMAIN pipe'[j],
                         NEW l \in DOMAIN pipe'[h], pipe'[j][k] = pipe'[h][l]
                  PROVE  j = h /\ k = l
      BY DEF PipesApart
    <3>1. CASE pipe'[j][k] = b
      <4>1. ~(k \in DOMAIN pipe[j] /\ pipe'[j][k] = pipe[j][k])
        BY <2>5, <3>1
      <4>2. ~(l \in DOMAIN pipe[h] /\ pipe'[h][l] = pipe[h][l])
        BY <2>5, <3>1
      <4>3. j = i /\ k = n /\ h = i /\ l = n
        BY <2>4, <4>1, <4>2
      <4>. QED  BY <4>3
    <3>2. CASE pipe'[j][k] # b
      <4>1. k \in DOMAIN pipe[j] /\ pipe'[j][k] = pipe[j][k]
            /\ l \in DOMAIN pipe[h] /\ pipe'[h][l] = pipe[h][l]
        BY <2>4, <3>2
      <4>2. pipe[j][k] = pipe[h][l]
        BY <4>1
      <4>3. PipesApart
        BY DEF BufInv
      <4>. QED  BY <4>1, <4>2, <4>3 DEF PipesApart
    <3>. QED  BY <3>1, <3>2
  <2>7. TasksApart'
    BY <1>1, <1>3 DEF BufInv, TasksApart
  <2>8. PlacesApart'
    <3>. SUFFICES ASSUME NEW j \in Slots, NEW k \in DOMAIN pipe'[j]
                  PROVE  pipe'[j][k] \notin free /\ \A c \in Apps : pipe'[j][k] \notin app'[c].buf
      BY <1>3 DEF PlacesApart
    <3>1. CASE pipe'[j][k] = b
      BY <1>1, <2>5, <3>1
    <3>2. CASE k \in DOMAIN pipe[j] /\ pipe'[j][k] = pipe[j][k]
      <4>1. pipe[j][k] \notin free /\ \A c \in Apps : pipe[j][k] \notin app[c].buf
        BY <3>2 DEF BufInv, PlacesApart
      <4>. QED  BY <1>1, <3>2, <4>1
    <3>. QED  BY <2>4, <3>1, <3>2
  <2>. QED  BY <1>1, <1>3, <2>3, <2>6, <2>7, <2>8 DEF BufInv
<1>4. CASE pipe' = pipe /\ free' = free \cup app[a].buf
  <2>1. PipesApart'
    BY <1>4 DEF BufInv, PipesApart
  <2>2. TasksApart'
    BY <1>1, <1>4 DEF BufInv, TasksApart
  <2>3. PlacesApart'
    BY <1>1, <1>4 DEF BufInv, PlacesApart
  <2>. QED  BY <1>1, <1>2, <1>4, <2>1, <2>2, <2>3 DEF BufInv
<1>. QED  BY <1>3, <1>4 DEF StatWrite

LEMMA BufStep == BufInv /\ [Next]_vars => BufInv'
<1>. SUFFICES ASSUME BufInv, [Next]_vars PROVE BufInv'
  OBVIOUS
<1>1. CASE UNCHANGED vars
  BY <1>1, BufKept DEF vars
<1>2. CASE Select \/ NoCommand \/ AddStat
  BY <1>2, BufKept DEF Select, NoCommand, AddStat
<1>3. ASSUME NEW i \in Slots, DealStatSock(i) PROVE BufInv'
  <2>1. app' = app
    BY <1>3 DEF DealStatSock
  <2>2. \/ UNCHANGED <<pipe, free>>
        \/ pipe' = [pipe EXCEPT ![i] = << >>] /\ free' = free \cup Content(i)
    BY <1>3 DEF DealStatSock, StatSockFail
  <2>. QED  BY <2>1, <2>2, BufKept, PipeEmptied
<1>4. ASSUME NEW i \in Slots, DealStatPipe(i) PROVE BufInv'
  <2>1. /\ app' = app /\ pipe' = [pipe EXCEPT ![i] = << >>]
        /\ free' = free \/ free' = free \cup Content(i)
    BY <1>4 DEF DealStatPipe
  <2>. QED  BY <2>1, PipeEmptied
<1>5. ASSUME NEW w \in Windows, deleteconnection(w) PROVE BufInv'
  <2>1. /\ app' = app /\ winNum[w] \in Slots
        /\ pipe' = [pipe EXCEPT ![winNum[w]] = << >>]
        /\ free' = free \cup Content(winNum[w])
    BY <1>5 DEF deleteconnection, StatSockFail
  <2>. QED  BY <2>1, PipeEmptied
<1>6. CASE \/ ReadCount \/ CountConnection \/ WriteUncount
          \/ \E c \in Conns : Accept(c) \/ PeerSends(c)
  BY <1>6, BufKept DEF ReadCount, CountConnection, WriteUncount, Accept, PeerSends
<1>7. ASSUME NEW a \in Apps,
             StatCheck(a) \/ StatWrite(a) \/ \E w \in Windows : MmlStatistic(a, w)
      PROVE  BufInv'
  BY <1>7, CheckBuf, WriteBuf, CallBuf
<1>. QED  BY <1>1, <1>2, <1>3, <1>4, <1>5, <1>6, <1>7 DEF Next, DataCollectTask

LEMMA AtMostOne ==
  ASSUME NEW S, \A x, y \in S : x = y
  PROVE  Cardinality(S) = IF S = {} THEN 0 ELSE 1
<1>1. CASE S = {}
  BY <1>1, FS_EmptySet
<1>2. CASE S # {}
  <2>1. PICK x \in S : S = {x}
    BY <1>2
  <2>. QED  BY <2>1, FS_Singleton
<1>. QED  BY <1>1, <1>2

\* No message buffer is in two places, although a task writes to a pipe that was
\* emptied and given to another connection since the task chose it, and although
\* deleteconnection empties a pipe that is no longer its window's (StatCheck,
\* StatWrite, StatSockFail).
THEOREM StatBufferOnce == Spec => []BufferOnce
<1>1. BufInv => BufferOnce
  <2>. SUFFICES ASSUME BufInv, NEW b \in Bufs
       PROVE (IF b \in free THEN 1 ELSE 0)
             + Cardinality({a \in Apps : b \in app[a].buf})
             + Cardinality(UNION {{<<i, k>> : k \in {k \in DOMAIN pipe[i] : pipe[i][k] = b}}
                                  : i \in Slots})
             <= 1
    BY DEF BufferOnce
  <2> DEFINE A == {a \in Apps : b \in app[a].buf}
             P == UNION {{<<i, k>> : k \in {k \in DOMAIN pipe[i] : pipe[i][k] = b}} : i \in Slots}
  <2>1. \A x \in P : \E i \in Slots : \E k \in DOMAIN pipe[i] : x = <<i, k>> /\ pipe[i][k] = b
    OBVIOUS
  <2>2. \A x, y \in P : x = y
    <3>. SUFFICES ASSUME NEW x \in P, NEW y \in P PROVE x = y
      OBVIOUS
    <3>1. PICK i \in Slots : \E k \in DOMAIN pipe[i] : x = <<i, k>> /\ pipe[i][k] = b
      BY <2>1
    <3>2. PICK k \in DOMAIN pipe[i] : x = <<i, k>> /\ pipe[i][k] = b
      BY <3>1
    <3>3. PICK j \in Slots : \E l \in DOMAIN pipe[j] : y = <<j, l>> /\ pipe[j][l] = b
      BY <2>1
    <3>4. PICK l \in DOMAIN pipe[j] : y = <<j, l>> /\ pipe[j][l] = b
      BY <3>3
    <3>5. i = j /\ k = l
      BY <3>2, <3>4 DEF BufInv, PipesApart
    <3>. QED  BY <3>2, <3>4, <3>5
  <2>3. \A x, y \in A : x = y
    BY DEF BufInv, TasksApart
  <2>4. A # {} => b \notin free
    BY DEF BufInv, TasksApart
  <2>5. P # {} => b \notin free /\ A = {}
    <3>. SUFFICES ASSUME P # {} PROVE b \notin free /\ A = {}
      OBVIOUS
    <3>1. PICK x \in P : TRUE
      OBVIOUS
    <3>2. PICK i \in Slots : \E k \in DOMAIN pipe[i] : pipe[i][k] = b
      BY <2>1, <3>1
    <3>. QED  BY <3>2 DEF BufInv, PlacesApart
  <2> HIDE DEF A, P
  <2>6. /\ Cardinality(A) = IF A = {} THEN 0 ELSE 1
        /\ Cardinality(P) = IF P = {} THEN 0 ELSE 1
    BY <2>2, <2>3, AtMostOne
  <2>7. (IF b \in free THEN 1 ELSE 0) + Cardinality(A) + Cardinality(P) <= 1
    BY <2>4, <2>5, <2>6
  <2>. QED  BY <2>7 DEF A, P
<1>. QED  BY <1>1, BufInit, BufStep, PTL DEF Spec

=============================================================================
