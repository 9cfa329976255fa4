-------------------------- MODULE MmlCommandsProofs --------------------------
(***************************************************************************)
(* For every number of users, items, names and buffers: the tables keep    *)
(* their types, a name is installed once, an installation is refused only  *)
(* when there is no room, no message buffer is in two places, and no user  *)
(* is counted more messages than are under way for him.                    *)
(***************************************************************************)
EXTENDS MmlCommands, FiniteSetTheorems, WellFoundedInduction, TLAPS

Installed == {i \in Items : CmdItem[i].FnPtr}

\* An item with a function has a name and a user, one without has no name.
ItemsSound ==
  /\ \A i \in Installed : CmdItem[i].RegisterNum \in Users /\ CmdItem[i].name \in Names
  /\ \A i \in Items \ Installed : CmdItem[i].name = NoName

\* The total may fall behind the number of installed items, never run ahead.
TotalNotAbove == TotalNum <= Cardinality(Installed)

\* What BufferOnce counts, said without counting.
BuffersApart ==
  /\ sending \cap posted = {}
  /\ \A m, n \in sending \cup posted : m.buf = n.buf => m = n
  /\ \A r, s \in running : r.msg.buf = s.msg.buf => r = s
  /\ \A m \in sending \cup posted :
       m.buf \notin free /\ \A r \in running : r.msg.buf # m.buf
  /\ \A r \in running : r.msg.buf \notin free

\* Whoever is about to count one more message found, or read, less than the
\* limit, and nobody but him raises the count.
Room ==
  /\ adding.pc = "taken" => \A m \in sending : MsgBufNum[m.user] < MsgLimit
  /\ adding.pc = "read" => adding.saw < MsgLimit

\* The inductive invariant.
IInv == TypeOK /\ ItemsSound /\ NamesUnique /\ TotalNotAbove /\ BuffersApart /\ Room

Num == MinNum .. MsgLimit

-----------------------------------------------------------------------------
\* The least of some items, or of some users, is one of them.
LEMMA LeastIn == ASSUME NEW S \in SUBSET Nat, S # {} PROVE Least(S) \in S
<1> DEFINE R == {ss \in Nat \X Nat : ss[1] < ss[2]}
<1>1. IsWellFoundedOn(R, Nat)
  <2>1. R = OpToRel(<, Nat)
    BY DEF OpToRel
  <2>. QED  BY <2>1, NatLessThanWellFounded
<1>2. PICK i \in S : \A j \in S : <<j, i>> \notin R
  BY <1>1, WFMin
<1>3. ASSUME NEW j \in S PROVE i <= j
  <2>1. i \in Nat /\ j \in Nat /\ ~(j < i)
    BY <1>2
  <2>. QED  BY <2>1
<1>. QED  BY <1>3 DEF Least

LEMMA Ranges == Items \subseteq Nat /\ Users \subseteq Nat
  BY MmlCommandsAssumption DEF Items, Users

LEMMA ItemsFinite == IsFiniteSet(Items) /\ Cardinality(Items) = MaxCmd
  BY FS_Interval, MmlCommandsAssumption DEF Items

\* The installed items are finitely many, and one that becomes installed is one
\* more.
LEMMA SomeFinite ==
  ASSUME NEW S \in SUBSET Items
  PROVE  /\ IsFiniteSet(S) /\ Cardinality(S) \in Nat
         /\ Cardinality(S) <= MaxCmd
         /\ Cardinality(S) = MaxCmd => S = Items
  BY ItemsFinite, FS_Subset, FS_CardinalityType

LEMMA AtMostOne ==
  ASSUME NEW S, \A x, y \in S : x = y
  PROVE  Cardinality(S) = IF S = {} THEN 0 ELSE 1
<1>1. CASE S = {}
  BY <1>1, FS_EmptySet
<1>2. CASE S # {}
  <2>1. PICK x \in S : S = {x}
    BY <1>2
  <2>. QED  BY <2>1, FS_Singleton
<1>. QED  BY <1>1, <1>2

-----------------------------------------------------------------------------
LEMMA InitInv == Init => IInv
<1>. SUFFICES ASSUME Init PROVE IInv
  OBVIOUS
<1>1. Installed = {}
  BY DEF Init, Installed, Fresh
<1>2. TypeOK
  <2>1. Cardinality({}) = 0
    BY FS_EmptySet
  <2>2. Fresh \in [name : Names \cup {NoName}, RegisterNum : Users \cup {-1}, FnPtr : BOOLEAN]
    BY DEF Fresh
  <2>. QED  BY <2>1, <2>2, MmlCommandsAssumption DEF Init, TypeOK
<1>3. TotalNotAbove
  BY <1>1, FS_EmptySet DEF TotalNotAbove, Init
<1>4. ItemsSound /\ NamesUnique
  BY <1>1 DEF ItemsSound, NamesUnique, Init, Fresh
<1>5. BuffersApart /\ Room
  BY DEF BuffersApart, Room, Init
<1>. QED  BY <1>2, <1>3, <1>4, <1>5 DEF IInv

\* A step that leaves the items and the total alone.
LEMMA ItemsKept ==
  ASSUME IInv, UNCHANGED <<CmdItem, TotalNum>>
  PROVE  ItemsSound' /\ NamesUnique' /\ TotalNotAbove'
  BY DEF IInv, ItemsSound, NamesUnique, TotalNotAbove, Installed

\* A step that leaves the messages alone.
LEMMA BuffersKept ==
  ASSUME IInv, UNCHANGED <<free, sending, posted, running>>
  PROVE  BuffersApart'
  BY DEF IInv, BuffersApart

\* A step that leaves the counts and DataCollectTask alone.
LEMMA RoomKept ==
  ASSUME IInv, UNCHANGED <<MsgBufNum, sending, adding>>
  PROVE  Room'
  BY DEF IInv, Room

\* What setting a count to 0 keeps ...
LEMMA ZeroKeeps ==
  ASSUME IInv, NEW u \in Users, Zero(u), UNCHANGED <<sending, adding>>
  PROVE  MsgBufNum' \in [Users -> Num] /\ strays' \in [Users -> 0 .. StrayNum] /\ Room'
<1>1. MsgBufNum' \in [Users -> Num] /\ strays' \in [Users -> 0 .. StrayNum]
  BY MmlCommandsAssumption DEF Zero, IInv, TypeOK, Num
<1>2. \A v \in Users : MsgBufNum'[v] = 0 \/ MsgBufNum'[v] = MsgBufNum[v]
  BY DEF Zero, IInv, TypeOK
<1>3. \A m \in sending : m.user \in Users
  BY DEF IInv, TypeOK, Message
<1>4. 0 < MsgLimit
  BY MmlCommandsAssumption
<1>5. Room'
  BY <1>2, <1>3, <1>4 DEF IInv, Room
<1>. QED  BY <1>1, <1>5

\* ... and what writing it keeps and changes.
LEMMA WriteKeeps ==
  ASSUME IInv, NEW u \in Users, NEW saw \in Int, NEW change \in Int, NEW stray \in {0, 1},
         saw + change \in Num, Write(u, saw, change, stray)
  PROVE  /\ MsgBufNum' \in [Users -> Num] /\ strays' \in [Users -> 0 .. StrayNum]
         /\ MsgBufNum'[u] = saw + change
         /\ strays'[u] >= strays[u] + stray + saw - MsgBufNum[u]
         /\ \A v \in Users \ {u} : MsgBufNum'[v] = MsgBufNum[v] /\ strays'[v] = strays[v]
<1> DEFINE lost == IF saw > MsgBufNum[u] THEN saw - MsgBufNum[u] ELSE 0
<1>1. /\ MsgBufNum' = [MsgBufNum EXCEPT ![u] = saw + change]
      /\ strays' = [strays EXCEPT ![u] = strays[u] + lost + stray]
      /\ strays[u] + lost + stray <= StrayNum
  BY DEF Write, IInv, TypeOK
<1>2. MsgBufNum[u] \in Int /\ strays[u] \in Nat
  BY MmlCommandsAssumption DEF IInv, TypeOK
<1>3. lost \in Nat /\ lost >= saw - MsgBufNum[u]
  BY <1>2
<1> HIDE DEF lost
<1>4. strays[u] + lost + stray \in 0 .. StrayNum
  BY <1>1, <1>2, <1>3, MmlCommandsAssumption
<1>5. MsgBufNum' \in [Users -> Num] /\ strays' \in [Users -> 0 .. StrayNum]
  BY <1>1, <1>4 DEF IInv, TypeOK, Num
<1>6. MsgBufNum'[u] = saw + change /\ strays'[u] = strays[u] + lost + stray
  BY <1>1 DEF IInv, TypeOK
<1>7. strays'[u] >= strays[u] + stray + saw - MsgBufNum[u]
  BY <1>2, <1>3, <1>6
<1>8. \A v \in Users \ {u} : MsgBufNum'[v] = MsgBufNum[v] /\ strays'[v] = strays[v]
  BY <1>1 DEF IInv, TypeOK
<1>. QED  BY <1>5, <1>6, <1>7, <1>8

LEMMA RegisterInv == ASSUME IInv, MmlRegister PROVE IInv'
<1> DEFINE vacant == {u \in Users : ~callBack[u]}
<1>1. Least(vacant) \in Users
  BY LeastIn, Ranges DEF MmlRegister
<1>2. Zero(Least(vacant)) /\ callBack' = [callBack EXCEPT ![Least(vacant)] = TRUE]
  BY DEF MmlRegister
<1>3. UNCHANGED <<CmdItem, TotalNum, free, sending, adding, posted, running, leaving, uncounting>>
  BY DEF MmlRegister
<1> HIDE DEF vacant
<1>4. MsgBufNum' \in [Users -> Num] /\ strays' \in [Users -> 0 .. StrayNum] /\ Room'
  BY <1>1, <1>2, <1>3, ZeroKeeps
<1>5. TypeOK'
  BY <1>1, <1>2, <1>3, <1>4 DEF IInv, TypeOK, Num
<1>. QED  BY <1>3, <1>4, <1>5, ItemsKept, BuffersKept DEF IInv

LEMMA UnRegisterInv ==
  ASSUME IInv, NEW num \in Users, MmlUnRegister(num) PROVE IInv'
<1> DEFINE gone == {i \in Items : CmdItem[i].RegisterNum = num}
<1>0. /\ CmdItem' = [i \in Items |-> IF i \in gone THEN Zeroed ELSE CmdItem[i]]
      /\ TotalNum' = TotalNum - Cardinality(gone) /\ TotalNum' >= MinNum
      /\ callBack' = [callBack EXCEPT ![num] = FALSE]
      /\ Zero(num)
      /\ UNCHANGED <<free, sending, adding, posted, running, leaving, uncounting>>
  BY DEF MmlUnRegister
<1>1. gone \subseteq Items /\ Installed \subseteq Items /\ Installed' = Installed \ gone
  BY <1>0 DEF Installed, Zeroed
<1>2. IsFiniteSet(gone) /\ Cardinality(gone) \in Nat /\ IsFiniteSet(Installed)
      /\ Cardinality(Installed) \in Nat /\ Cardinality(Installed \ gone) \in Nat
      /\ IsFiniteSet(Installed \ gone)
  BY <1>1, SomeFinite
<1>3. TypeOK'
  <2>1. 0 \in Users
    BY MmlCommandsAssumption DEF Users
  <2>2. Zeroed \in [name : Names \cup {NoName}, RegisterNum : Users \cup {-1}, FnPtr : BOOLEAN]
    BY <2>1 DEF Zeroed
  <2>3. CmdItem' \in [Items -> [name : Names \cup {NoName}, RegisterNum : Users \cup {-1}, FnPtr : BOOLEAN]]
    BY <1>0, <2>2 DEF IInv, TypeOK
  <2>4. TotalNum' \in MinNum .. MaxCmd
    BY <1>0, <1>2, MmlCommandsAssumption DEF IInv, TypeOK
  <2>5. callBack' \in [Users -> BOOLEAN]
    BY <1>0 DEF IInv, TypeOK
  <2>6. MsgBufNum' \in [Users -> MinNum .. MsgLimit] /\ strays' \in [Users -> 0 .. StrayNum]
    BY <1>0, ZeroKeeps DEF Num
  <2>. QED  BY <1>0, <2>3, <2>4, <2>5, <2>6 DEF IInv, TypeOK
<1>4. TotalNotAbove'
  <2>1. Cardinality(gone \cup (Installed \ gone))
          = Cardinality(gone) + Cardinality(Installed \ gone)
    <3> DEFINE rest == Installed \ gone
    <3>1. IsFiniteSet(gone) /\ IsFiniteSet(rest) /\ gone \cap rest = {}
      BY <1>2
    <3>2. Cardinality(gone) \in Nat /\ Cardinality(rest) \in Nat
      BY <1>2
    <3> HIDE DEF gone, rest
    <3>3. Cardinality(gone \cup rest)
            = Cardinality(gone) + Cardinality(rest) - Cardinality(gone \cap rest)
      BY <3>1, FS_Union
    <3>4. Cardinality(gone \cap rest) = 0
      BY <3>1, FS_EmptySet
    <3>5. Cardinality(gone \cup rest) = Cardinality(gone) + Cardinality(rest)
      BY <3>2, <3>3, <3>4
    <3>. QED  BY <3>5 DEF rest
  <2>2. Cardinality(Installed) <= Cardinality(gone \cup (Installed \ gone))
    <3>1. IsFiniteSet(gone \cup (Installed \ gone))
      BY <1>2, FS_Union
    <3>2. Installed \subseteq gone \cup (Installed \ gone)
      OBVIOUS
    <3>. QED  BY <3>1, <3>2, FS_Subset
  <2>3. TotalNum <= Cardinality(Installed)
    BY DEF IInv, TotalNotAbove
  <2>4. TotalNum \in Int
    BY MmlCommandsAssumption DEF IInv, TypeOK
  <2>. QED  BY <1>0, <1>1, <1>2, <2>1, <2>2, <2>3, <2>4 DEF TotalNotAbove
<1>5. ItemsSound' /\ NamesUnique'
  <2>1. \A i \in Items : CmdItem'[i].FnPtr => CmdItem'[i] = CmdItem[i] /\ CmdItem[i].FnPtr
    BY <1>0 DEF Zeroed
  <2>2. ItemsSound'
    <3>1. \A i \in Items : ~CmdItem'[i].FnPtr => CmdItem'[i].name = NoName
      BY <1>0 DEF Zeroed, IInv, ItemsSound, Installed
    <3>. QED  BY <2>1, <3>1 DEF IInv, ItemsSound, Installed
  <2>3. NamesUnique'
    BY <2>1 DEF IInv, NamesUnique
  <2>. QED  BY <2>2, <2>3
<1>6. Room'
  BY <1>0, ZeroKeeps
<1>. QED  BY <1>0, <1>3, <1>4, <1>5, <1>6, BuffersKept DEF IInv

LEMMA InstallInv ==
  ASSUME IInv, NEW num \in Users, NEW name \in Names, MmlInstallCmd(name, num)
  PROVE  IInv'
<1> DEFINE j == Least(Items \ Installed)
           item == [name |-> name, RegisterNum |-> num, FnPtr |-> TRUE]
<1>0. /\ CmdItem' = [CmdItem EXCEPT ![j] = item]
      /\ TotalNum < MaxCmd /\ TotalNum' = TotalNum + 1
      /\ \A i \in Installed : CmdItem[i].name # name
      /\ Items \ Installed # {}
      /\ UNCHANGED <<callBack, MsgBufNum, strays, free, sending, adding, posted, running,
                     leaving, uncounting>>
  BY DEF MmlInstallCmd, Installed, counts
<1>1. j \in Items \ Installed
  BY <1>0, LeastIn, Ranges
<1>. HIDE DEF j
<1>2. CmdItem'[j] = item /\ \A i \in Items : i # j => CmdItem'[i] = CmdItem[i]
  BY <1>0, <1>1 DEF IInv, TypeOK
<1>3. Installed' = Installed \cup {j} /\ Installed \subseteq Items
  BY <1>1, <1>2 DEF Installed
<1>4. TypeOK'
  <2>1. item \in [name : Names \cup {NoName}, RegisterNum : Users \cup {-1}, FnPtr : BOOLEAN]
    OBVIOUS
  <2>2. CmdItem' \in [Items -> [name : Names \cup {NoName}, RegisterNum : Users \cup {-1}, FnPtr : BOOLEAN]]
    BY <1>0, <2>1 DEF IInv, TypeOK
  <2>3. TotalNum' \in MinNum .. MaxCmd
    BY <1>0, MmlCommandsAssumption DEF IInv, TypeOK
  <2>. QED  BY <1>0, <2>2, <2>3 DEF IInv, TypeOK
<1>5. TotalNotAbove'
  <2>1. Cardinality(Installed') = Cardinality(Installed) + 1
    BY <1>1, <1>3, SomeFinite, FS_AddElement
  <2>2. TotalNum \in Int /\ Cardinality(Installed) \in Nat
    BY <1>3, SomeFinite, MmlCommandsAssumption DEF IInv, TypeOK
  <2>3. TotalNum <= Cardinality(Installed)
    BY DEF IInv, TotalNotAbove
  <2>. QED  BY <1>0, <2>1, <2>2, <2>3 DEF TotalNotAbove
<1>6. ItemsSound'
  BY <1>1, <1>2, <1>3 DEF IInv, ItemsSound, Installed
<1>7. NamesUnique'
  <2>1. \A i \in Items : CmdItem'[i].FnPtr => i = j \/ i \in Installed
    BY <1>3 DEF Installed
  <2>. QED  BY <1>0, <1>1, <1>2, <2>1 DEF IInv, NamesUnique, Installed
<1>. QED  BY <1>0, <1>4, <1>5, <1>6, <1>7, BuffersKept, RoomKept DEF IInv

LEMMA ExecuteInv ==
  ASSUME IInv, NEW name \in Names, ExecuteMmlCmd(name) PROVE IInv'
<1> DEFINE j == Least(Searched(name))
           num == CmdItem[j].RegisterNum
<1>1. PICK b \in free : /\ free' = free \ {b}
                        /\ sending' = {[buf |-> b, CmdIndex |-> j, user |-> num]}
  BY DEF ExecuteMmlCmd
<1>2. sending = {} /\ num \in Users /\ MsgBufNum[num] < MsgLimit
      /\ adding' = [pc |-> "taken", saw |-> 0]
      /\ UNCHANGED <<callBack, CmdItem, TotalNum, MsgBufNum, strays, posted, running,
                     leaving, uncounting>>
  BY DEF ExecuteMmlCmd, tables, counts
<1>3. j \in Items
  <2>1. Searched(name) \subseteq Items /\ Searched(name) # {}
    BY DEF ExecuteMmlCmd, Searched
  <2>. QED  BY <2>1, LeastIn, Ranges
<1>4. b \in Bufs
  BY <1>1 DEF IInv, TypeOK
<1>. HIDE DEF j, num
<1>5. TypeOK'
  <2>1. sending' \subseteq Message
    BY <1>1, <1>2, <1>3, <1>4 DEF Message
  <2>2. Cardinality(sending') <= 1
    <3> DEFINE new == [buf |-> b, CmdIndex |-> j, user |-> num]
    <3>1. sending' = {new}
      BY <1>1
    <3> HIDE DEF new
    <3>2. Cardinality({new}) = 1
      BY FS_Singleton
    <3>. QED  BY <3>1, <3>2
  <2>3. adding' \in [pc : {"taken", "read", "counted"}, saw : MinNum .. MsgLimit]
    BY <1>2, MmlCommandsAssumption
  <2>. QED  BY <1>1, <1>2, <2>1, <2>2, <2>3 DEF IInv, TypeOK
<1>6. BuffersApart'
  <2> DEFINE new == [buf |-> b, CmdIndex |-> j, user |-> num]
  <2>1. sending' = {new} /\ new.buf = b
    BY <1>1
  <2> HIDE DEF new
  <2>. QED  BY <1>1, <1>2, <2>1 DEF IInv, BuffersApart
<1>7. Room'
  BY <1>1, <1>2 DEF Room
<1>. QED  BY <1>2, <1>5, <1>6, <1>7, ItemsKept DEF IInv

LEMMA ReadCountInv ==
  ASSUME IInv, NEW m \in sending, ReadCount(m) PROVE IInv'
<1>1. m.user \in Users /\ MsgBufNum[m.user] \in Num /\ MsgBufNum[m.user] < MsgLimit
  BY DEF ReadCount, IInv, TypeOK, Message, Room, Num
<1>2. adding' = [pc |-> "read", saw |-> MsgBufNum[m.user]]
      /\ UNCHANGED <<tables, counts, free, sending, posted, running, leaving, uncounting>>
  BY DEF ReadCount
<1>3. TypeOK'
  BY <1>1, <1>2 DEF IInv, TypeOK, tables, counts, Num
<1>4. Room'
  BY <1>1, <1>2 DEF Room
<1>. QED  BY <1>2, <1>3, <1>4, ItemsKept, BuffersKept DEF IInv, tables

LEMMA WriteCountInv ==
  ASSUME IInv, NEW m \in sending, WriteCount(m) PROVE IInv'
<1> DEFINE stray == IF Current(m) THEN 0 ELSE 1
<1>1. /\ adding.pc = "read" /\ Write(m.user, adding.saw, 1, stray)
      /\ adding' = [pc |-> "counted", saw |-> 0]
      /\ UNCHANGED <<tables, free, sending, posted, running, leaving, uncounting>>
  BY DEF WriteCount
<1>2. m.user \in Users /\ stray \in {0, 1}
  BY DEF IInv, TypeOK, Message
<1>3. adding.saw \in Int /\ adding.saw + 1 \in Num
  <2>1. adding.saw \in Num /\ adding.saw < MsgLimit
    BY <1>1 DEF IInv, TypeOK, Room, Num
  <2>. QED  BY <2>1, MmlCommandsAssumption DEF Num
<1> HIDE DEF stray
<1>4. MsgBufNum' \in [Users -> Num] /\ strays' \in [Users -> 0 .. StrayNum]
  BY <1>1, <1>2, <1>3, WriteKeeps
<1>5. TypeOK'
  BY <1>1, <1>4, MmlCommandsAssumption DEF IInv, TypeOK, tables, Num
<1>6. Room'
  BY <1>1 DEF Room
<1>. QED  BY <1>1, <1>5, <1>6, ItemsKept, BuffersKept DEF IInv, tables

LEMMA CallBackInv ==
  ASSUME IInv, NEW m \in sending, CallBack(m) PROVE IInv'
<1>0. m \in Message /\ m.user \in Users /\ m.buf \in Bufs
  BY DEF IInv, TypeOK, Message
<1>1. TypeOK'
  <2>1. Cardinality(sending') <= 1 /\ sending' \subseteq Message
    BY FS_EmptySet DEF CallBack
  <2>2. [msg |-> m, num |-> m.user, refused |-> TRUE] \in Running
    BY <1>0 DEF Running
  <2>3. leaving' \subseteq Running
    BY <2>2 DEF CallBack, IInv, TypeOK
  <2>. QED  BY <1>0, <2>1, <2>3 DEF CallBack, IInv, TypeOK, tables, counts
<1>2. BuffersApart'
  <2>1. sending' = {} /\ UNCHANGED running
    BY DEF CallBack
  <2>2. CASE posted' = posted \cup {m} /\ UNCHANGED free
    <3>1. sending' \cup posted' \subseteq sending \cup posted /\ sending' \cap posted' = {}
      BY <2>1, <2>2
    <3>. QED  BY <2>1, <2>2, <3>1 DEF IInv, BuffersApart
  <2>3. CASE free' = free \cup {m.buf} /\ UNCHANGED posted
    <3>1. sending' \cup posted' = posted /\ sending' \cap posted' = {}
      BY <2>1, <2>3
    <3>2. \A n \in posted : n.buf # m.buf
      BY DEF IInv, BuffersApart
    <3>. QED  BY <2>1, <2>3, <3>1, <3>2 DEF IInv, BuffersApart
  <2>. QED  BY <2>2, <2>3 DEF CallBack
<1>3. Room'
  BY DEF CallBack, Room
<1>. QED  BY <1>1, <1>2, <1>3, ItemsKept DEF IInv, CallBack, tables

LEMMA DropInv == ASSUME IInv, NEW m \in posted, DropMsg(m) PROVE IInv'
<1>1. TypeOK'
  BY DEF DropMsg, IInv, TypeOK, tables, counts
<1>2. BuffersApart'
  BY DEF DropMsg, IInv, BuffersApart
<1>. QED  BY <1>1, <1>2, ItemsKept, RoomKept DEF IInv, DropMsg, tables, counts

LEMMA RunInv == ASSUME IInv, NEW m \in posted, RunCmd(m) PROVE IInv'
<1> DEFINE new == Started(m)
<1>0. /\ posted' = posted \ {m} /\ running' = running \cup {new}
      /\ CmdItem[m.CmdIndex].FnPtr
      /\ UNCHANGED <<tables, counts, free, sending, adding, leaving, uncounting>>
  BY DEF RunCmd
<1>1. m \in Message /\ m.CmdIndex \in Items
  BY DEF IInv, TypeOK, Message
<1>2. new \in Running /\ new.msg = m
  BY <1>0, <1>1 DEF IInv, ItemsSound, Installed, Running, Started
<1> HIDE DEF new
<1>3. TypeOK'
  BY <1>0, <1>2 DEF IInv, TypeOK, tables, counts
<1>4. BuffersApart'
  BY <1>0, <1>2 DEF IInv, BuffersApart
<1>. QED  BY <1>0, <1>3, <1>4, ItemsKept, RoomKept DEF IInv, tables, counts

LEMMA GiveBackInv == ASSUME IInv, NEW r \in running, GiveBack(r) PROVE IInv'
<1>1. r.msg.buf \in Bufs
  BY DEF IInv, TypeOK, Running, Message
<1>2. TypeOK'
  BY <1>1 DEF GiveBack, IInv, TypeOK, tables, counts
<1>3. BuffersApart'
  BY DEF GiveBack, IInv, BuffersApart
<1>. QED  BY <1>2, <1>3, ItemsKept, RoomKept DEF IInv, GiveBack, tables, counts

LEMMA ReadUncountInv ==
  ASSUME IInv, NEW r \in leaving, ReadUncount(r) PROVE IInv'
<1> DEFINE new == [of |-> r, saw |-> MsgBufNum[r.num]]
<1>1. /\ MsgBufNum[r.num] > MinNum /\ leaving' = leaving \ {r}
      /\ uncounting' = uncounting \cup {new}
      /\ UNCHANGED <<tables, counts, free, sending, adding, posted, running>>
  BY DEF ReadUncount
<1>2. r \in Running /\ r.num \in Users
  BY DEF IInv, TypeOK, Running
<1>3. MsgBufNum[r.num] \in MinNum + 1 .. MsgLimit
  BY <1>1, <1>2, MmlCommandsAssumption DEF IInv, TypeOK
<1>4. new \in [of : Running, saw : MinNum + 1 .. MsgLimit]
  BY <1>2, <1>3
<1> HIDE DEF new
<1>5. TypeOK'
  BY <1>1, <1>4 DEF IInv, TypeOK, tables, counts
<1>. QED  BY <1>1, <1>5, ItemsKept, BuffersKept, RoomKept DEF IInv, tables, counts

LEMMA WriteUncountInv ==
  ASSUME IInv, NEW x \in uncounting, WriteUncount(x) PROVE IInv'
<1>1. /\ uncounting' = uncounting \ {x} /\ Write(x.of.num, x.saw, -1, 0)
      /\ UNCHANGED <<tables, free, sending, adding, posted, running, leaving>>
  BY DEF WriteUncount
<1>2. x.of.num \in Users /\ x.saw \in MinNum + 1 .. MsgLimit
  BY DEF IInv, TypeOK, Running
<1>3. x.saw \in Int /\ x.saw + -1 \in Num /\ x.saw + -1 < MsgLimit
  BY <1>2, MmlCommandsAssumption DEF Num
<1>4. /\ MsgBufNum' \in [Users -> Num] /\ strays' \in [Users -> 0 .. StrayNum]
      /\ MsgBufNum'[x.of.num] = x.saw + -1
      /\ \A v \in Users \ {x.of.num} : MsgBufNum'[v] = MsgBufNum[v]
  BY <1>1, <1>2, <1>3, WriteKeeps
<1>5. TypeOK'
  BY <1>1, <1>4 DEF IInv, TypeOK, tables, Num
<1>6. Room'
  <2>1. \A m \in sending : m.user \in Users
    BY DEF IInv, TypeOK, Message
  <2>. QED  BY <1>1, <1>3, <1>4, <2>1 DEF IInv, Room
<1>. QED  BY <1>1, <1>5, <1>6, ItemsKept, BuffersKept DEF IInv, tables

LEMMA StepInv == IInv /\ [Next]_vars => IInv'
<1>. SUFFICES ASSUME IInv, [Next]_vars PROVE IInv'
  OBVIOUS
<1>1. CASE UNCHANGED vars
  <2>1. TypeOK'
    BY <1>1 DEF vars, tables, counts, IInv, TypeOK
  <2>. QED  BY <1>1, <2>1, ItemsKept, BuffersKept, RoomKept DEF IInv, vars, tables, counts
<1>2. CASE Next
  BY <1>2, RegisterInv, UnRegisterInv, InstallInv, ExecuteInv, ReadCountInv, WriteCountInv,
     CallBackInv, DropInv, RunInv, GiveBackInv, ReadUncountInv, WriteUncountInv DEF Next
<1>. QED  BY <1>1, <1>2

LEMMA Inductive == Spec => []IInv
  BY InitInv, StepInv, PTL DEF Spec

-----------------------------------------------------------------------------
\* The tables keep their types: in particular neither the messages counted for a
\* user nor the total of items leaves its range (MmlInstallCmd, ExecuteMmlCmd).
THEOREM MmlTypeCorrect == Spec => []TypeOK
<1>1. IInv => TypeOK
  BY DEF IInv
<1>. QED  BY <1>1, Inductive, PTL

\* However many users come and go, a name is installed once: the search for it
\* goes over all items, also behind those that were cleared (MmlInstallCmd).
THEOREM MmlNamesUnique == Spec => []NamesUnique
<1>1. IInv => NamesUnique
  BY DEF IInv
<1>. QED  BY <1>1, Inductive, PTL

\* The total that MmlInstallCmd compares with the size of the table refuses an
\* installation only when every item has a function: it never runs ahead of the
\* number of those that have.
THEOREM MmlRoomIsUsed == Spec => []RoomIsUsed
<1>1. IInv => RoomIsUsed
  <2>. SUFFICES ASSUME IInv, TotalNum >= MaxCmd PROVE Installed = Items
    BY DEF RoomIsUsed, Installed
  <2>1. /\ Cardinality(Installed) \in Nat /\ Cardinality(Installed) <= MaxCmd
        /\ Cardinality(Installed) = MaxCmd => Installed = Items
    BY SomeFinite DEF Installed
  <2>2. TotalNum \in Int /\ TotalNum <= Cardinality(Installed)
    BY MmlCommandsAssumption DEF IInv, TypeOK, TotalNotAbove
  <2>. QED  BY <2>1, <2>2, MmlCommandsAssumption
<1>. QED  BY <1>1, Inductive, PTL

\* No message buffer is in two places, whoever unregisters while a message of
\* theirs is under way (ExecuteMmlCmd, ProcessMMLMsg).
THEOREM MmlBufferOnce == Spec => []BufferOnce
<1>1. IInv => BufferOnce
  <2>. SUFFICES ASSUME IInv, NEW b \in Bufs PROVE Holders(b) <= 1
    BY DEF BufferOnce
  <2> DEFINE M == {m \in sending \cup posted : m.buf = b}
             R == {r \in running : r.msg.buf = b}
  <2>1. /\ \A x, y \in M : x = y
        /\ \A x, y \in R : x = y
        /\ M # {} => R = {} /\ b \notin free
        /\ R # {} => M = {} /\ b \notin free
    BY DEF IInv, BuffersApart
  <2>2. /\ Cardinality(M) = IF M = {} THEN 0 ELSE 1
        /\ Cardinality(R) = IF R = {} THEN 0 ELSE 1
    BY <2>1, AtMostOne
  <2>3. Holders(b) = (IF b \in free THEN 1 ELSE 0) + Cardinality(M) + Cardinality(R)
    BY DEF Holders
  <2> HIDE DEF M, R
  <2>. QED  BY <2>1, <2>2, <2>3
<1>. QED  BY <1>1, Inductive, PTL

-----------------------------------------------------------------------------
(* The messages counted for a user.                                        *)

\* Messages to user u whose item is u's, and messages that will be uncounted for
\* u.  A message to u whose item is gone, or another's, is not counted for u: its
\* item can have gone only when u went, and with it u's count.
Live(u) == {m \in Sent : m.user = u /\ Current(m)}
Done(u) == {r \in AtEnd : r.num = u}

Finite == /\ IsFiniteSet(sending) /\ IsFiniteSet(posted)
          /\ IsFiniteSet(running) /\ IsFiniteSet(leaving) /\ IsFiniteSet(uncounting)

Counted(u) == MsgBufNum[u] <= Cardinality(Live(u)) + Cardinality(Done(u)) + strays[u]

\* DataCollectTask is done with a message that was refused before the next one.
OneRefused == sending # {} => \A r \in AtEnd : ~r.refused

\* The inductive strengthening of CountNotAbove.
CInv == IInv /\ Finite /\ OneRefused /\ \A u \in Users : Counted(u)

LEMMA SetsFinite ==
  ASSUME Finite PROVE IsFiniteSet(Sent) /\ IsFiniteSet(AtEnd)
<1>1. IsFiniteSet({x.of : x \in uncounting})
  <2> DEFINE T == {x.of : x \in uncounting}
             f == [x \in uncounting |-> x.of]
  <2>1. f \in Surjection(uncounting, T)
    BY DEF Surjection
  <2>2. IsFiniteSet(uncounting)
    BY DEF Finite
  <2> HIDE DEF f, T
  <2>3. IsFiniteSet(T)
    BY <2>1, <2>2, FS_Surjection
  <2>. QED  BY <2>3 DEF T
<1>2. IsFiniteSet(running \cup leaving)
  BY FS_Union DEF Finite
<1>3. IsFiniteSet(AtEnd)
  BY <1>1, <1>2, FS_Union DEF AtEnd
<1>4. CASE adding.pc = "counted"
  <2>1. IsFiniteSet(posted \cup sending)
    BY FS_Union DEF Finite
  <2>. QED  BY <1>3, <1>4, <2>1 DEF Sent
<1>5. CASE adding.pc # "counted"
  BY <1>3, <1>5 DEF Sent, Finite
<1>. QED  BY <1>4, <1>5

LEMMA Sizes ==
  ASSUME Finite, NEW u
  PROVE  /\ IsFiniteSet(Live(u)) /\ IsFiniteSet(Done(u))
         /\ Cardinality(Live(u)) \in Nat /\ Cardinality(Done(u)) \in Nat
<1>1. IsFiniteSet(Sent) /\ IsFiniteSet(AtEnd)
  BY SetsFinite
<1>2. Live(u) \subseteq Sent /\ Done(u) \subseteq AtEnd
  BY DEF Live, Done
<1>. QED  BY <1>1, <1>2, FS_Subset, FS_CardinalityType

LEMMA SizesNext ==
  ASSUME Finite', NEW u
  PROVE  /\ IsFiniteSet(Live(u)') /\ IsFiniteSet(Done(u)')
         /\ Cardinality(Live(u)') \in Nat /\ Cardinality(Done(u)') \in Nat
<1>1. (Finite => IsFiniteSet(Sent) /\ IsFiniteSet(AtEnd))'
  BY SetsFinite, PTL
<1>2. IsFiniteSet(Sent') /\ IsFiniteSet(AtEnd')
  BY <1>1
<1>3. Live(u)' \subseteq Sent' /\ Done(u)' \subseteq AtEnd'
  BY DEF Live, Done
<1>. QED  BY <1>2, <1>3, FS_Subset, FS_CardinalityType

LEMMA NumIsInt ==
  ASSUME IInv, NEW u \in Users PROVE MsgBufNum[u] \in Int /\ strays[u] \in Nat
  BY MmlCommandsAssumption DEF IInv, TypeOK

LEMMA NumIsIntNext ==
  ASSUME IInv', NEW u \in Users PROVE MsgBufNum'[u] \in Int /\ strays'[u] \in Nat
  BY MmlCommandsAssumption DEF IInv, TypeOK

\* What keeps the count sound: no message is lost from the two sets; or one passes
\* from the first to the second; or the count is reset; or it is written, and as
\* many messages are added to the sets, or belong to nobody, as are counted.
LEMMA Grows ==
  ASSUME CInv, Finite', NEW u \in Users,
         MsgBufNum'[u] = MsgBufNum[u], strays'[u] = strays[u],
         Live(u) \subseteq Live(u)', Done(u) \subseteq Done(u)'
  PROVE  Counted(u)'
<1>1. IsFiniteSet(Live(u)') /\ IsFiniteSet(Done(u)')
      /\ Cardinality(Live(u)') \in Nat /\ Cardinality(Done(u)') \in Nat
  BY SizesNext
<1>2. Cardinality(Live(u)) \in Nat /\ Cardinality(Done(u)) \in Nat
  BY Sizes DEF CInv
<1>3. Cardinality(Live(u)) <= Cardinality(Live(u)')
      /\ Cardinality(Done(u)) <= Cardinality(Done(u)')
  BY <1>1, FS_Subset
<1>4. /\ MsgBufNum[u] \in Int /\ strays[u] \in Nat
      /\ MsgBufNum[u] <= Cardinality(Live(u)) + Cardinality(Done(u)) + strays[u]
  BY NumIsInt DEF CInv, Counted
<1>5. MsgBufNum'[u] <= Cardinality(Live(u)') + Cardinality(Done(u)') + strays'[u]
  BY <1>1, <1>2, <1>3, <1>4
<1>. QED  BY <1>5 DEF Counted

LEMMA Moves ==
  ASSUME CInv, Finite', NEW u \in Users, NEW m, NEW r,
         MsgBufNum'[u] = MsgBufNum[u], strays'[u] = strays[u],
         Live(u) \ {m} \subseteq Live(u)',
         Done(u)' = Done(u) \cup {r}, r \notin Done(u)
  PROVE  Counted(u)'
<1>1. /\ IsFiniteSet(Live(u)) /\ IsFiniteSet(Done(u))
      /\ Cardinality(Live(u)) \in Nat /\ Cardinality(Done(u)) \in Nat
  BY Sizes DEF CInv
<1>2. IsFiniteSet(Live(u)') /\ Cardinality(Live(u)') \in Nat
  BY SizesNext
<1>3. Cardinality(Done(u)') = Cardinality(Done(u)) + 1
  BY <1>1, FS_AddElement
<1>4. Cardinality(Live(u) \ {m}) \in {Cardinality(Live(u)), Cardinality(Live(u)) - 1}
  BY <1>1, FS_RemoveElement
<1>5. Cardinality(Live(u) \ {m}) <= Cardinality(Live(u)')
  BY <1>2, FS_Subset
<1>6. /\ MsgBufNum[u] \in Int /\ strays[u] \in Nat
      /\ MsgBufNum[u] <= Cardinality(Live(u)) + Cardinality(Done(u)) + strays[u]
  BY NumIsInt DEF CInv, Counted
<1>7. MsgBufNum'[u] <= Cardinality(Live(u)') + Cardinality(Done(u)') + strays'[u]
  BY <1>1, <1>2, <1>3, <1>4, <1>5, <1>6
<1>. QED  BY <1>7 DEF Counted

LEMMA Reset ==
  ASSUME IInv', Finite', NEW u \in Users, MsgBufNum'[u] = 0 PROVE Counted(u)'
<1>1. Cardinality(Live(u)') \in Nat /\ Cardinality(Done(u)') \in Nat
  BY SizesNext
<1>2. strays'[u] \in Nat
  BY NumIsIntNext
<1>3. MsgBufNum'[u] <= Cardinality(Live(u)') + Cardinality(Done(u)') + strays'[u]
  BY <1>1, <1>2
<1>. QED  BY <1>3 DEF Counted

LEMMA Written ==
  ASSUME CInv, IInv', Finite', NEW u \in Users,
         NEW saw \in Int, NEW change \in Int, NEW stray \in {0, 1},
         saw + change \in Num, Write(u, saw, change, stray),
         Cardinality(Live(u)) + Cardinality(Done(u)) + change
           <= Cardinality(Live(u)') + Cardinality(Done(u)') + stray
  PROVE  Counted(u)'
<1>1. MsgBufNum'[u] = saw + change /\ strays'[u] >= strays[u] + stray + saw - MsgBufNum[u]
  BY WriteKeeps DEF CInv
<1>2. /\ MsgBufNum[u] \in Int /\ strays[u] \in Nat
      /\ MsgBufNum[u] <= Cardinality(Live(u)) + Cardinality(Done(u)) + strays[u]
  BY NumIsInt DEF CInv, Counted
<1>3. strays'[u] \in Nat
  BY NumIsIntNext
<1>4. /\ Cardinality(Live(u)) \in Nat /\ Cardinality(Done(u)) \in Nat
      /\ Cardinality(Live(u)') \in Nat /\ Cardinality(Done(u)') \in Nat
  BY Sizes, SizesNext DEF CInv
<1>5. stray \in Int
  OBVIOUS
<1>6. MsgBufNum'[u] <= Cardinality(Live(u)') + Cardinality(Done(u)') + strays'[u]
  BY <1>1, <1>2, <1>3, <1>4, <1>5
<1>. QED  BY <1>6 DEF Counted

LEMMA StaysFinite ==
  ASSUME NEW S, NEW T, IsFiniteSet(S),
         \/ T = S \/ T = {}
         \/ \E x : T = {x} \/ T = S \cup {x} \/ T = S \ {x}
  PROVE  IsFiniteSet(T)
<1>1. CASE T = S
  BY <1>1
<1>2. CASE T = {}
  BY <1>2, FS_EmptySet
<1>3. ASSUME NEW x, T = {x} \/ T = S \cup {x} \/ T = S \ {x} PROVE IsFiniteSet(T)
  <2>1. IsFiniteSet({x}) /\ IsFiniteSet(S \cup {x}) /\ IsFiniteSet(S \ {x})
    BY FS_Singleton, FS_AddElement, FS_RemoveElement
  <2>. QED  BY <1>3, <2>1
<1>. QED  BY <1>1, <1>2, <1>3

LEMMA FiniteStep == CInv /\ [Next]_vars => Finite'
<1>. SUFFICES ASSUME CInv, [Next]_vars PROVE Finite'
  OBVIOUS
<1>1. /\ IsFiniteSet(sending) /\ IsFiniteSet(posted)
      /\ IsFiniteSet(running) /\ IsFiniteSet(leaving) /\ IsFiniteSet(uncounting)
  BY DEF CInv, Finite
<1>2. \/ sending' = sending
      \/ sending' = {}
      \/ \E x : sending' = {x}
  BY DEF Next, vars, MmlRegister, MmlUnRegister, MmlInstallCmd, ExecuteMmlCmd, ReadCount,
         WriteCount, CallBack, DropMsg, RunCmd, GiveBack, ReadUncount, WriteUncount
<1>3. \/ posted' = posted \/ \E x : posted' = posted \cup {x} \/ posted' = posted \ {x}
  BY DEF Next, vars, MmlRegister, MmlUnRegister, MmlInstallCmd, ExecuteMmlCmd, ReadCount,
         WriteCount, CallBack, DropMsg, RunCmd, GiveBack, ReadUncount, WriteUncount
<1>4. \/ running' = running
      \/ \E x : running' = running \cup {x} \/ running' = running \ {x}
  BY DEF Next, vars, MmlRegister, MmlUnRegister, MmlInstallCmd, ExecuteMmlCmd, ReadCount,
         WriteCount, CallBack, DropMsg, RunCmd, GiveBack, ReadUncount, WriteUncount
<1>5. \/ leaving' = leaving
      \/ \E x : leaving' = leaving \cup {x} \/ leaving' = leaving \ {x}
  BY DEF Next, vars, MmlRegister, MmlUnRegister, MmlInstallCmd, ExecuteMmlCmd, ReadCount,
         WriteCount, CallBack, DropMsg, RunCmd, GiveBack, ReadUncount, WriteUncount
<1>6. \/ uncounting' = uncounting
      \/ \E x : uncounting' = uncounting \cup {x} \/ uncounting' = uncounting \ {x}
  BY DEF Next, vars, MmlRegister, MmlUnRegister, MmlInstallCmd, ExecuteMmlCmd, ReadCount,
         WriteCount, CallBack, DropMsg, RunCmd, GiveBack, ReadUncount, WriteUncount
<1>7. IsFiniteSet(sending') /\ IsFiniteSet(posted')
  BY <1>1, <1>2, <1>3, StaysFinite
<1>8. IsFiniteSet(running') /\ IsFiniteSet(leaving') /\ IsFiniteSet(uncounting')
  BY <1>1, <1>4, <1>5, <1>6, StaysFinite
<1>. QED  BY <1>7, <1>8 DEF Finite

\* What Done is made of, one of the three sets changed at a time.
LEMMA EndKept ==
  ASSUME UNCHANGED <<running, leaving, uncounting>>
  PROVE  AtEnd' = AtEnd /\ \A u : Done(u)' = Done(u)
  BY DEF AtEnd, Done

LEMMA RefusedStep == CInv /\ [Next]_vars => OneRefused'
<1>. SUFFICES ASSUME CInv, [Next]_vars PROVE OneRefused'
  OBVIOUS
<1>1. CASE UNCHANGED <<sending, running, leaving, uncounting>>
  BY <1>1, EndKept DEF CInv, OneRefused
<1>2. ASSUME NEW name \in Names, ExecuteMmlCmd(name) PROVE OneRefused'
  <2>1. (\A r \in AtEnd : ~r.refused) /\ UNCHANGED <<running, leaving, uncounting>>
    BY <1>2 DEF ExecuteMmlCmd
  <2>. QED  BY <2>1, EndKept DEF OneRefused
<1>3. ASSUME NEW m \in sending, CallBack(m) PROVE OneRefused'
  BY <1>3 DEF CallBack, OneRefused
<1>4. ASSUME NEW m \in posted, RunCmd(m) PROVE OneRefused'
  <2>1. AtEnd' = AtEnd \cup {Started(m)} /\ sending' = sending
    BY <1>4 DEF RunCmd, AtEnd
  <2>. QED  BY <2>1 DEF CInv, OneRefused, Started
<1>5. ASSUME NEW r \in running, GiveBack(r) PROVE OneRefused'
  <2>1. AtEnd' \subseteq AtEnd /\ sending' = sending
    BY <1>5 DEF GiveBack, AtEnd
  <2>. QED  BY <2>1 DEF CInv, OneRefused
<1>6. ASSUME NEW r \in leaving, ReadUncount(r) PROVE OneRefused'
  <2>1. AtEnd' \subseteq AtEnd /\ sending' = sending
    BY <1>6 DEF ReadUncount, AtEnd
  <2>. QED  BY <2>1 DEF CInv, OneRefused
<1>7. ASSUME NEW x \in uncounting, WriteUncount(x) PROVE OneRefused'
  <2>1. AtEnd' \subseteq AtEnd /\ sending' = sending
    BY <1>7 DEF WriteUncount, AtEnd
  <2>. QED  BY <2>1 DEF CInv, OneRefused
<1>8. CASE MmlRegister \/ \E u \in Users : MmlUnRegister(u) \/ \E n \in Names : MmlInstallCmd(n, u)
  BY <1>1, <1>8 DEF MmlRegister, MmlUnRegister, MmlInstallCmd
<1>9. CASE \/ \E m \in sending : ReadCount(m) \/ WriteCount(m)
           \/ \E m \in posted : DropMsg(m)
  BY <1>1, <1>9 DEF ReadCount, WriteCount, DropMsg
<1>. QED  BY <1>1, <1>2, <1>3, <1>4, <1>5, <1>6, <1>7, <1>8, <1>9 DEF Next, vars

\* A count set to 0 is sound, and the others are as they were.
LEMMA ZeroCounts ==
  ASSUME CInv, NEW n \in Users, Zero(n), NEW u \in Users
  PROVE  \/ u = n /\ MsgBufNum'[u] = 0
         \/ u # n /\ MsgBufNum'[u] = MsgBufNum[u] /\ strays'[u] = strays[u]
  BY DEF Zero, CInv, IInv, TypeOK

LEMMA SentKept ==
  ASSUME UNCHANGED <<posted, sending, adding>> PROVE Sent' = Sent
  BY DEF Sent

\* What is sent was found under an item.
LEMMA SentTyped == ASSUME CInv, NEW m \in Sent PROVE m \in Message /\ m.CmdIndex \in Items
  BY DEF CInv, IInv, TypeOK, Sent, Message

LEMMA RegisterCount ==
  ASSUME CInv, IInv', Finite', MmlRegister, NEW u \in Users PROVE Counted(u)'
<1> DEFINE n == Least({x \in Users : ~callBack[x]})
<1>1. n \in Users /\ Zero(n)
  BY LeastIn, Ranges DEF MmlRegister
<1>2. UNCHANGED <<CmdItem, sending, adding, posted, running, leaving, uncounting>>
  BY DEF MmlRegister
<1> HIDE DEF n
<1>3. Live(u)' = Live(u) /\ Done(u)' = Done(u)
  BY <1>2, EndKept, SentKept DEF Live, Current
<1>. QED  BY <1>1, <1>3, ZeroCounts, Reset, Grows

\* What is cleared is the user's own, or has no function.
LEMMA UnRegisterCount ==
  ASSUME CInv, IInv', Finite', NEW num \in Users, MmlUnRegister(num), NEW u \in Users
  PROVE  Counted(u)'
<1>1. /\ Zero(num)
      /\ UNCHANGED <<sending, adding, posted, running, leaving, uncounting>>
  BY DEF MmlUnRegister
<1>2. CASE u = num
  BY <1>1, <1>2, ZeroCounts, Reset
<1>3. CASE u # num
  <2>1. MsgBufNum'[u] = MsgBufNum[u] /\ strays'[u] = strays[u]
    BY <1>1, <1>3, ZeroCounts
  <2>2. \A i \in Items : CmdItem[i].RegisterNum = u => CmdItem'[i] = CmdItem[i]
    BY <1>3 DEF MmlUnRegister
  <2>3. Live(u) \subseteq Live(u)'
    BY <1>1, <2>2, SentKept, SentTyped DEF Live, Current
  <2>4. Done(u)' = Done(u)
    BY <1>1, EndKept
  <2>. QED  BY <2>1, <2>3, <2>4, Grows
<1>. QED  BY <1>2, <1>3

LEMMA InstallCount ==
  ASSUME CInv, IInv', Finite', NEW num \in Users, NEW name \in Names,
         MmlInstallCmd(name, num), NEW u \in Users
  PROVE  Counted(u)'
<1> DEFINE j == Least(Items \ Installed)
<1>1. /\ UNCHANGED <<MsgBufNum, strays, sending, adding, posted, running, leaving, uncounting>>
      /\ CmdItem' = [CmdItem EXCEPT ![j] = [name |-> name, RegisterNum |-> num, FnPtr |-> TRUE]]
      /\ Items \ Installed # {}
  BY DEF MmlInstallCmd, Installed, counts
<1>2. j \in Items \ Installed
  BY <1>1, LeastIn, Ranges
<1> HIDE DEF j
<1>3. \A i \in Items : CmdItem[i].FnPtr => CmdItem'[i] = CmdItem[i]
  BY <1>1, <1>2 DEF Installed, CInv, IInv, TypeOK
<1>4. Live(u) \subseteq Live(u)'
  BY <1>1, <1>3, SentKept, SentTyped DEF Live, Current
<1>5. Done(u)' = Done(u)
  BY <1>1, EndKept
<1>. QED  BY <1>1, <1>4, <1>5, Grows

\* A message that is not counted yet is not in the sets.
LEMMA ExecuteCount ==
  ASSUME CInv, IInv', Finite', NEW name \in Names, ExecuteMmlCmd(name), NEW u \in Users
  PROVE  Counted(u)'
<1>1. /\ sending = {} /\ adding'.pc = "taken"
      /\ UNCHANGED <<CmdItem, MsgBufNum, strays, posted, running, leaving, uncounting>>
  BY DEF ExecuteMmlCmd, tables, counts
<1>2. Sent' = posted /\ Sent = posted
  BY <1>1 DEF Sent
<1>3. Live(u)' = Live(u) /\ Done(u)' = Done(u)
  BY <1>1, <1>2, EndKept DEF Live, Current
<1>. QED  BY <1>1, <1>3, Grows

LEMMA ReadCountCount ==
  ASSUME CInv, IInv', Finite', NEW m \in sending, ReadCount(m), NEW u \in Users
  PROVE  Counted(u)'
<1>1. /\ adding.pc = "taken" /\ adding'.pc = "read"
      /\ UNCHANGED <<CmdItem, MsgBufNum, strays, posted, running, leaving, uncounting>>
  BY DEF ReadCount, tables, counts
<1>2. Sent' = posted /\ Sent = posted
  BY <1>1 DEF Sent
<1>3. Live(u)' = Live(u) /\ Done(u)' = Done(u)
  BY <1>1, <1>2, EndKept DEF Live, Current
<1>. QED  BY <1>1, <1>3, Grows

LEMMA OneSending == ASSUME CInv, NEW m \in sending PROVE sending = {m}
<1>1. {m} \subseteq sending /\ Cardinality({m}) = 1 /\ IsFiniteSet({m})
  BY FS_Singleton
<1>2. IsFiniteSet(sending) /\ Cardinality(sending) <= 1 /\ Cardinality(sending) \in Nat
  BY FS_CardinalityType DEF CInv, Finite, IInv, TypeOK
<1>3. Cardinality({m}) <= Cardinality(sending)
      /\ (Cardinality(sending) = Cardinality({m}) => sending = {m})
  BY <1>1, <1>2, FS_Subset
<1>. QED  BY <1>1, <1>2, <1>3

\* The message becomes one of the user's, or nobody will uncount it.
LEMMA WriteCountCount ==
  ASSUME CInv, IInv', Finite', NEW m \in sending, WriteCount(m), NEW u \in Users
  PROVE  Counted(u)'
<1> DEFINE stray == IF Current(m) THEN 0 ELSE 1
<1>1. /\ adding.pc = "read" /\ Write(m.user, adding.saw, 1, stray)
      /\ adding'.pc = "counted"
      /\ UNCHANGED <<CmdItem, sending, posted, running, leaving, uncounting>>
  BY DEF WriteCount, tables
<1>2. m.user \in Users /\ stray \in {0, 1}
  BY DEF CInv, IInv, TypeOK, Message
<1>3. adding.saw \in Int /\ adding.saw + 1 \in Num
  <2>1. adding.saw \in Num /\ adding.saw < MsgLimit
    BY <1>1 DEF CInv, IInv, TypeOK, Room, Num
  <2>. QED  BY <2>1, MmlCommandsAssumption DEF Num
<1>4. Sent = posted /\ Sent' = posted \cup {m} /\ m \notin posted
  <2>1. sending = {m}
    BY OneSending
  <2>. QED  BY <1>1, <2>1 DEF Sent, CInv, IInv, BuffersApart
<1>5. Done(u)' = Done(u)
  BY <1>1, EndKept
<1>6. Live(u) \subseteq Live(u)'
  BY <1>1, <1>4 DEF Live, Current
<1>7. CASE u # m.user
  <2>1. MsgBufNum'[u] = MsgBufNum[u] /\ strays'[u] = strays[u]
    <3> HIDE DEF stray
    <3>. QED  BY <1>1, <1>2, <1>3, <1>7, WriteKeeps DEF CInv
  <2>. QED  BY <1>5, <1>6, <2>1, Grows
<1>8. CASE u = m.user
  <2>1. /\ IsFiniteSet(Live(u)) /\ Cardinality(Live(u)) \in Nat /\ Cardinality(Done(u)) \in Nat
        /\ IsFiniteSet(Live(u)') /\ Cardinality(Live(u)') \in Nat
    BY Sizes, SizesNext DEF CInv
  <2>2. Cardinality(Live(u)) + 1 <= Cardinality(Live(u)') + stray
    <3>1. CASE Current(m)
      <4>1. Live(u)' = Live(u) \cup {m} /\ m \notin Live(u)
        BY <1>1, <1>4, <1>8, <3>1 DEF Live, Current
      <4>2. Cardinality(Live(u)') = Cardinality(Live(u)) + 1
        BY <2>1, <4>1, FS_AddElement
      <4>. QED  BY <2>1, <3>1, <4>2
    <3>2. CASE ~Current(m)
      <4>1. Cardinality(Live(u)) <= Cardinality(Live(u)')
        BY <1>6, <2>1, FS_Subset
      <4>. QED  BY <2>1, <3>2, <4>1
    <3>. QED  BY <3>1, <3>2
  <2> HIDE DEF stray
  <2>3. Cardinality(Live(u)) + Cardinality(Done(u)) + 1
          <= Cardinality(Live(u)') + Cardinality(Done(u)') + stray
    BY <1>2, <1>5, <2>1, <2>2
  <2>. QED  BY <1>1, <1>2, <1>3, <1>8, <2>3, Written
<1>. QED  BY <1>7, <1>8

\* A message the callback refuses passes from the first set to the second.
LEMMA CallBackCount ==
  ASSUME CInv, IInv', Finite', NEW m \in sending, CallBack(m), NEW u \in Users
  PROVE  Counted(u)'
<1> DEFINE new == [msg |-> m, num |-> m.user, refused |-> TRUE]
<1>1. sending = {m}
  BY OneSending
<1>2. /\ sending' = {} /\ adding.pc = "counted"
      /\ UNCHANGED <<CmdItem, MsgBufNum, strays, adding, running, uncounting>>
  BY DEF CallBack, tables, counts
<1>3. Sent = posted \cup {m} /\ Sent' = posted'
  BY <1>1, <1>2 DEF Sent
<1>4. CASE posted' = posted \cup {m} /\ UNCHANGED leaving
  <2>1. Live(u)' = Live(u) /\ Done(u)' = Done(u)
    BY <1>2, <1>3, <1>4, EndKept DEF Live, Current
  <2>. QED  BY <1>2, <2>1, Grows
<1>5. CASE leaving' = leaving \cup {new} /\ UNCHANGED posted
  <2>1. new.num = m.user /\ new.refused
    OBVIOUS
  <2>2. new \notin AtEnd
    BY <2>1 DEF CInv, OneRefused
  <2> HIDE DEF new
  <2>3. Live(u) \ {m} \subseteq Live(u)'
    BY <1>2, <1>3, <1>5 DEF Live, Current
  <2>4. AtEnd' = AtEnd \cup {new}
    BY <1>2, <1>5 DEF AtEnd
  <2>5. CASE u = m.user
    <3>1. Done(u)' = Done(u) \cup {new} /\ new \notin Done(u)
      BY <2>1, <2>2, <2>4, <2>5 DEF Done
    <3>. QED  BY <1>2, <2>3, <3>1, Moves
  <2>6. CASE u # m.user
    <3>1. Live(u) \subseteq Live(u)'
      BY <2>3, <2>6 DEF Live
    <3>2. Done(u) \subseteq Done(u)'
      BY <2>4 DEF Done
    <3>. QED  BY <1>2, <3>1, <3>2, Grows
  <2>. QED  BY <2>5, <2>6
<1>. QED  BY <1>4, <1>5 DEF CallBack

LEMMA DropCount ==
  ASSUME CInv, IInv', Finite', NEW m \in posted, DropMsg(m), NEW u \in Users
  PROVE  Counted(u)'
<1>1. /\ posted' = posted \ {m} /\ ~CmdItem[m.CmdIndex].FnPtr
      /\ UNCHANGED <<MsgBufNum, strays, CmdItem, sending, adding, running, leaving, uncounting>>
  BY DEF DropMsg, tables, counts
<1>2. Sent \ {m} \subseteq Sent'
  BY <1>1 DEF Sent
<1>3. Live(u) \subseteq Live(u)'
  BY <1>1, <1>2 DEF Live, Current
<1>4. Done(u)' = Done(u)
  BY <1>1, EndKept
<1>. QED  BY <1>1, <1>3, <1>4, Grows

\* A message whose item is its user's passes from Live to Done; another was in
\* neither and is now in Done of the user the item belongs to.
LEMMA RunCount ==
  ASSUME CInv, IInv', Finite', NEW m \in posted, RunCmd(m), NEW u \in Users
  PROVE  Counted(u)'
<1> DEFINE num == CmdItem[m.CmdIndex].RegisterNum
           new == Started(m)
<1>1. /\ posted' = posted \ {m} /\ running' = running \cup {new}
      /\ UNCHANGED <<MsgBufNum, strays, CmdItem, sending, adding, leaving, uncounting>>
      /\ ~AtWork(m.user)
  BY DEF RunCmd, tables, counts
<1>2. new.msg = m /\ new.num = num /\ ~new.refused
  BY DEF Started
<1>3. new \notin AtEnd
  BY <1>1, <1>2 DEF AtWork
<1>4. u # num \/ u # m.user => m \notin Live(u)
  BY DEF Live, Current
<1> HIDE DEF new, num
<1>5. Sent \ {m} \subseteq Sent'
  BY <1>1 DEF Sent
<1>6. Live(u) \ {m} \subseteq Live(u)'
  BY <1>1, <1>5 DEF Live, Current
<1>7. AtEnd' = AtEnd \cup {new}
  BY <1>1 DEF AtEnd
<1>8. CASE u # num
  <2>1. Live(u) \subseteq Live(u)'
    BY <1>4, <1>6, <1>8
  <2>2. Done(u) \subseteq Done(u)'
    BY <1>7 DEF Done
  <2>. QED  BY <1>1, <2>1, <2>2, Grows
<1>9. CASE u = num
  <2>1. Done(u)' = Done(u) \cup {new} /\ new \notin Done(u)
    BY <1>2, <1>3, <1>7, <1>9 DEF Done
  <2>. QED  BY <1>1, <1>6, <2>1, Moves
<1>. QED  BY <1>8, <1>9

\* A message that passes between the sets that AtEnd is made of stays in it.
LEMMA GiveBackCount ==
  ASSUME CInv, IInv', Finite', NEW r \in running, GiveBack(r), NEW u \in Users
  PROVE  Counted(u)'
<1>1. /\ running' = running \ {r} /\ leaving' = leaving \cup {r}
      /\ UNCHANGED <<MsgBufNum, strays, CmdItem, sending, adding, posted, uncounting>>
  BY DEF GiveBack, tables, counts
<1>2. Live(u)' = Live(u)
  BY <1>1, SentKept DEF Live, Current
<1>3. AtEnd \subseteq AtEnd'
  BY <1>1 DEF AtEnd
<1>4. Done(u) \subseteq Done(u)'
  BY <1>3 DEF Done
<1>. QED  BY <1>1, <1>2, <1>4, Grows

LEMMA ReadUncountCount ==
  ASSUME CInv, IInv', Finite', NEW r \in leaving, ReadUncount(r), NEW u \in Users
  PROVE  Counted(u)'
<1> DEFINE new == [of |-> r, saw |-> MsgBufNum[r.num]]
<1>1. /\ leaving' = leaving \ {r} /\ uncounting' = uncounting \cup {new} /\ new.of = r
      /\ UNCHANGED <<MsgBufNum, strays, CmdItem, sending, adding, posted, running>>
  BY DEF ReadUncount, tables, counts
<1> HIDE DEF new
<1>2. Live(u)' = Live(u)
  BY <1>1, SentKept DEF Live, Current
<1>3. AtEnd \subseteq AtEnd'
  BY <1>1 DEF AtEnd
<1>4. Done(u) \subseteq Done(u)'
  BY <1>3 DEF Done
<1>. QED  BY <1>1, <1>2, <1>4, Grows

LEMMA WriteUncountCount ==
  ASSUME CInv, IInv', Finite', NEW x \in uncounting, WriteUncount(x), NEW u \in Users
  PROVE  Counted(u)'
<1>1. /\ uncounting' = uncounting \ {x} /\ Write(x.of.num, x.saw, -1, 0)
      /\ UNCHANGED <<CmdItem, sending, adding, posted, running, leaving>>
  BY DEF WriteUncount, tables
<1>2. x.of.num \in Users /\ x.saw \in MinNum + 1 .. MsgLimit
  BY DEF CInv, IInv, TypeOK, Running
<1>3. x.saw \in Int /\ x.saw + -1 \in Num
  BY <1>2, MmlCommandsAssumption DEF Num
<1>4. Live(u)' = Live(u)
  BY <1>1, SentKept DEF Live, Current
<1>5. AtEnd \ {x.of} \subseteq AtEnd'
  BY <1>1 DEF AtEnd
<1>6. Done(u) \ {x.of} \subseteq Done(u)'
  BY <1>5 DEF Done
<1>7. CASE u # x.of.num
  <2>1. MsgBufNum'[u] = MsgBufNum[u] /\ strays'[u] = strays[u]
    BY <1>1, <1>2, <1>3, <1>7, WriteKeeps DEF CInv
  <2>2. Done(u) \subseteq Done(u)'
    BY <1>6, <1>7 DEF Done
  <2>. QED  BY <1>4, <2>1, <2>2, Grows
<1>8. CASE u = x.of.num
  <2>1. /\ IsFiniteSet(Done(u)) /\ Cardinality(Live(u)) \in Nat /\ Cardinality(Done(u)) \in Nat
        /\ IsFiniteSet(Done(u)') /\ Cardinality(Done(u)') \in Nat
    BY Sizes, SizesNext DEF CInv
  <2>2. Cardinality(Done(u) \ {x.of}) \in {Cardinality(Done(u)), Cardinality(Done(u)) - 1}
    BY <2>1, FS_RemoveElement
  <2>3. Cardinality(Done(u) \ {x.of}) <= Cardinality(Done(u)')
    BY <1>6, <2>1, FS_Subset
  <2>4. Cardinality(Live(u)) + Cardinality(Done(u)) + -1
          <= Cardinality(Live(u)') + Cardinality(Done(u)') + 0
    BY <1>4, <2>1, <2>2, <2>3
  <2>. QED  BY <1>1, <1>2, <1>3, <1>8, <2>4, Written
<1>. QED  BY <1>7, <1>8

LEMMA CountInit == Init => CInv
<1>. SUFFICES ASSUME Init PROVE CInv
  OBVIOUS
<1>1. Finite /\ OneRefused
  BY FS_EmptySet DEF Init, Finite, OneRefused
<1>2. ASSUME NEW u \in Users PROVE Counted(u)
  <2>1. Cardinality(Live(u)) \in Nat /\ Cardinality(Done(u)) \in Nat
    BY <1>1, Sizes
  <2>2. MsgBufNum[u] = 0 /\ strays[u] = 0
    BY DEF Init
  <2>. QED  BY <2>1, <2>2 DEF Counted
<1>. QED  BY <1>1, <1>2, InitInv DEF CInv

LEMMA CountStep == CInv /\ [Next]_vars => CInv'
<1>. SUFFICES ASSUME CInv, [Next]_vars PROVE CInv'
  OBVIOUS
<1>1. IInv' /\ Finite' /\ OneRefused'
  BY StepInv, FiniteStep, RefusedStep DEF CInv
<1>2. ASSUME NEW u \in Users PROVE Counted(u)'
  <2>1. CASE UNCHANGED vars
    <3>1. Live(u)' = Live(u) /\ Done(u)' = Done(u)
      BY <2>1, EndKept, SentKept DEF vars, tables, Live, Current
    <3>. QED  BY <1>1, <2>1, <3>1, Grows DEF vars, counts
  <2>2. CASE Next
    BY <1>1, <2>2, RegisterCount, UnRegisterCount, InstallCount, ExecuteCount, ReadCountCount,
       WriteCountCount, CallBackCount, DropCount, RunCount, GiveBackCount, ReadUncountCount,
       WriteUncountCount DEF Next
  <2>. QED  BY <2>1, <2>2
<1>. QED  BY <1>1, <1>2 DEF CInv

\* However users come, go and come back under one number while messages to them
\* are under way, and however the ++ and -- of a count run into each other, what
\* is counted for a user is there to be uncounted, but for what lost updates and
\* messages looked up for an earlier user have added since (ExecuteMmlCmd,
\* ProcessMMLMsg, MmlUnRegister).
THEOREM MmlCountNotAbove == Spec => []CountNotAbove
<1>1. CInv => CountNotAbove
  <2>. SUFFICES ASSUME CInv, NEW u \in Users
       PROVE MsgBufNum[u] <= Cardinality({m \in Sent : m.user = u})
                             + Cardinality(Done(u)) + strays[u]
    BY DEF CountNotAbove, Done
  <2> DEFINE all == {m \in Sent : m.user = u}
  <2>1. IsFiniteSet(Sent)
    BY SetsFinite DEF CInv
  <2>2. all \subseteq Sent /\ Live(u) \subseteq all
    BY DEF Live
  <2> HIDE DEF all
  <2>3. IsFiniteSet(all) /\ Cardinality(all) \in Nat /\ Cardinality(Live(u)) <= Cardinality(all)
    BY <2>1, <2>2, FS_Subset, FS_CardinalityType
  <2>4. Cardinality(Live(u)) \in Nat /\ Cardinality(Done(u)) \in Nat
    BY Sizes DEF CInv
  <2>5. /\ MsgBufNum[u] \in Int /\ strays[u] \in Nat
        /\ MsgBufNum[u] <= Cardinality(Live(u)) + Cardinality(Done(u)) + strays[u]
    BY NumIsInt DEF CInv, Counted
  <2>6. MsgBufNum[u] <= Cardinality(all) + Cardinality(Done(u)) + strays[u]
    BY <2>3, <2>4, <2>5
  <2>. QED  BY <2>6 DEF all
<1>. QED  BY <1>1, CountInit, CountStep, PTL DEF Spec

=============================================================================
