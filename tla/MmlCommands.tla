----------------------------- MODULE MmlCommands -----------------------------
(***************************************************************************)
(* The MML commands of the data collection tool,                           *)
(* src/Lwdp/code/PModule/DctMgr/DataCollectTool.cpp.  A user of the tool   *)
(* registers a callback, gets a number, and installs commands under it.    *)
(* When a client enters a command, DataCollectTask looks it up, takes a    *)
(* buffer for the message and hands it to the callback, which posts it to  *)
(* the user's own task; that task calls ProcessMMLMsg, which runs the      *)
(* command and gives the buffer back.                                      *)
(*                                                                         *)
(* Registration is called from one task at a time, each call is one step.  *)
(* DataCollectTask and the users' tasks run beside it: their calls are     *)
(* split where they leave the tables.  A user's count of messages is       *)
(* changed by all of them without a lock, so that its ++ and -- are two    *)
(* steps, a read and a write.                                              *)
(***************************************************************************)
EXTENDS Integers, FiniteSets

CONSTANTS MaxUser,    \* MAX_MML_USER, numbers to be given to users
          MaxCmd,     \* MML_TOTAL_CMD_NUM, items of the table
          MsgLimit,   \* messages a user may have at a time: 4
          MinNum,     \* bound: how far below 0 a count goes
          StrayNum,   \* bound: strays of a user
          Names,      \* command names; one stands for up to three words
          Bufs        \* the nodes of mMsgBuf

NoName == "none"

ASSUME MmlCommandsAssumption ==
  /\ MaxUser \in Nat \ {0} /\ MaxCmd \in Nat \ {0} /\ MsgLimit \in Nat \ {0}
  /\ MinNum \in Int /\ MinNum <= 0 /\ StrayNum \in Nat
  /\ NoName \notin Names

Users == 0 .. MaxUser - 1
Items == 0 .. MaxCmd - 1
None == -1

\* A message: its buffer, the item it was found under, the user it went to.
Message == [buf : Bufs, CmdIndex : Items, user : Users]

\* What MmlInit makes of an item, and what memset 0 makes of it.
Fresh == [name |-> NoName, RegisterNum |-> -1, FnPtr |-> FALSE]
Zeroed == [name |-> NoName, RegisterNum |-> 0, FnPtr |-> FALSE]

VARIABLES
  callBack,    \* [Users -> BOOLEAN]: the user's callback is registered
  MsgBufNum,   \* [Users -> Int]: messages the user is said to have
  CmdItem,     \* [Items -> item]
  TotalNum,    \* items said to be installed
  free,        \* the free nodes of mMsgBuf
  sending,     \* the message DataCollectTask is about to hand over, if any
  adding,      \* how far its ++ is, and what it read
  posted,      \* messages a user's task has still to process
  running,     \* messages whose command runs, with the number it was read for
  leaving,     \* messages given back that are still to be uncounted
  uncounting,  \* those whose -- has read the count, and what it read
  strays       \* history: what was counted for a user that will not be uncounted

tables == <<callBack, CmdItem, TotalNum>>
counts == <<MsgBufNum, strays>>
vars == <<tables, counts, free, sending, adding, posted, running, leaving, uncounting>>

\* A message at its end: the number its -- is for, and whether the callback
\* refused it, so that DataCollectTask and not the user's task has it.
Running == [msg : Message, num : Users, refused : BOOLEAN]

TypeOK ==
  /\ callBack \in [Users -> BOOLEAN]
  /\ MsgBufNum \in [Users -> MinNum .. MsgLimit]
  /\ CmdItem \in [Items -> [name : Names \cup {NoName}, RegisterNum : Users \cup {-1}, FnPtr : BOOLEAN]]
  /\ TotalNum \in MinNum .. MaxCmd
  /\ free \subseteq Bufs
  /\ sending \subseteq Message /\ Cardinality(sending) <= 1
  /\ adding \in [pc : {"taken", "read", "counted"}, saw : MinNum .. MsgLimit]
  /\ posted \subseteq Message
  /\ running \subseteq Running
  /\ leaving \subseteq Running
  /\ uncounting \subseteq [of : Running, saw : MinNum + 1 .. MsgLimit]
  /\ strays \in [Users -> 0 .. StrayNum]

Init ==
  /\ callBack = [u \in Users |-> FALSE]
  /\ MsgBufNum = [u \in Users |-> 0]
  /\ CmdItem = [i \in Items |-> Fresh]
  /\ TotalNum = 0
  /\ free = Bufs
  /\ sending = {} /\ posted = {} /\ running = {} /\ leaving = {} /\ uncounting = {}
  /\ adding = [pc |-> "counted", saw |-> 0]
  /\ strays = [u \in Users |-> 0]

Least(S) == CHOOSE i \in S : \A j \in S : i <= j

-----------------------------------------------------------------------------
(* The count of a user's messages.                                         *)

\* Set to 0 when the user comes and when it goes.
Zero(u) ==
  /\ MsgBufNum' = [MsgBufNum EXCEPT ![u] = 0]
  /\ strays' = [strays EXCEPT ![u] = 0]

\* The write of a ++ or -- that read saw.  If the count is lower by now, what was
\* taken from it meanwhile is lost; stray is 1 if what is added belongs to nobody.
Write(u, saw, change, stray) ==
  LET lost == IF saw > MsgBufNum[u] THEN saw - MsgBufNum[u] ELSE 0
  IN /\ strays[u] + lost + stray <= StrayNum
     /\ MsgBufNum' = [MsgBufNum EXCEPT ![u] = saw + change]
     /\ strays' = [strays EXCEPT ![u] = @ + lost + stray]

-----------------------------------------------------------------------------
(* Registration.                                                           *)

\* The user gets the first number that is not taken.
MmlRegister ==
  LET vacant == {u \in Users : ~callBack[u]}
  IN /\ vacant # {}
     /\ callBack' = [callBack EXCEPT ![Least(vacant)] = TRUE]
     /\ Zero(Least(vacant))
     /\ UNCHANGED <<CmdItem, TotalNum, free, sending, adding, posted, running, leaving, uncounting>>

\* A fault: items are cleared and not subtracted.
FaultKeepTotal(num) ==
  LET gone == {i \in Items : CmdItem[i].RegisterNum = num}
  IN /\ callBack' = [callBack EXCEPT ![num] = FALSE]
     /\ Zero(num)
     /\ CmdItem' = [i \in Items |-> IF i \in gone THEN Zeroed ELSE CmdItem[i]]
     /\ UNCHANGED <<TotalNum, free, sending, adding, posted, running, leaving, uncounting>>

\* The user goes, and every item that bears the number: an item cleared before
\* bears the number 0 and is cleared, and subtracted, again.
MmlUnRegister(num) ==
  LET gone == {i \in Items : CmdItem[i].RegisterNum = num}
  IN /\ TotalNum - Cardinality(gone) >= MinNum
     /\ callBack' = [callBack EXCEPT ![num] = FALSE]
     /\ Zero(num)
     /\ CmdItem' = [i \in Items |-> IF i \in gone THEN Zeroed ELSE CmdItem[i]]
     /\ TotalNum' = TotalNum - Cardinality(gone)
     /\ UNCHANGED <<free, sending, adding, posted, running, leaving, uncounting>>

\* A fault: the search for the name ends at the first empty item.
FaultStopAtHole(name, num) ==
  LET installed == {i \in Items : CmdItem[i].FnPtr}
      empty == Items \ installed
  IN /\ callBack[num]
     /\ TotalNum < MaxCmd
     /\ empty # {}
     /\ \A i \in installed : i < Least(empty) => CmdItem[i].name # name
     /\ CmdItem' = [CmdItem EXCEPT ![Least(empty)] =
                      [name |-> name, RegisterNum |-> num, FnPtr |-> TRUE]]
     /\ TotalNum' = TotalNum + 1
     /\ UNCHANGED <<callBack, counts, free, sending, adding, posted, running, leaving, uncounting>>

\* A command is entered in the first empty item, unless the name is taken.  If
\* the count says there is room and there is none, the code writes in front of
\* the table; what it does after that is not modelled.
MmlInstallCmd(name, num) ==
  LET installed == {i \in Items : CmdItem[i].FnPtr}
      empty == Items \ installed
  IN /\ callBack[num]
     /\ TotalNum < MaxCmd
     /\ \A i \in installed : CmdItem[i].name # name
     /\ empty # {}
     /\ CmdItem' = [CmdItem EXCEPT ![Least(empty)] =
                      [name |-> name, RegisterNum |-> num, FnPtr |-> TRUE]]
     /\ TotalNum' = TotalNum + 1
     /\ UNCHANGED <<callBack, counts, free, sending, adding, posted, running, leaving, uncounting>>

-----------------------------------------------------------------------------
(* DataCollectTask: ExecuteMmlCmd.                                         *)

\* The items the search looks at: as many as are said to be installed.
Searched(name) == {i \in Items : i < TotalNum /\ CmdItem[i].name = name}

\* The messages that have been counted and whose command has not started.
Sent == posted \cup (IF adding.pc = "counted" THEN sending ELSE {})

\* The messages whose command runs, or that are given back and still counted.
AtEnd == running \cup leaving \cup {x.of : x \in uncounting}

\* The command is found, its user is there and has room, a buffer is free.
ExecuteMmlCmd(name) ==
  LET j == Least(Searched(name))
      num == CmdItem[j].RegisterNum
  IN /\ sending = {} /\ \A r \in AtEnd : ~r.refused
     /\ Searched(name) # {}
     /\ num \in Users /\ callBack[num] /\ MsgBufNum[num] < MsgLimit
     /\ \E b \in free :
          /\ free' = free \ {b}
          /\ sending' = {[buf |-> b, CmdIndex |-> j, user |-> num]}
     /\ adding' = [pc |-> "taken", saw |-> 0]
     /\ UNCHANGED <<tables, counts, posted, running, leaving, uncounting>>

\* Its ++: the read ...
ReadCount(m) ==
  /\ adding.pc = "taken"
  /\ adding' = [pc |-> "read", saw |-> MsgBufNum[m.user]]
  /\ UNCHANGED <<tables, counts, free, sending, posted, running, leaving, uncounting>>

\* The message's item is still installed by the user it was found for.
Current(m) == CmdItem[m.CmdIndex].FnPtr /\ CmdItem[m.CmdIndex].RegisterNum = m.user

\* ... and the write.  If the user has gone since it was looked up, nobody will
\* uncount the message for the number.
WriteCount(m) ==
  /\ adding.pc = "read"
  /\ Write(m.user, adding.saw, 1, IF Current(m) THEN 0 ELSE 1)
  /\ adding' = [pc |-> "counted", saw |-> 0]
  /\ UNCHANGED <<tables, free, sending, posted, running, leaving, uncounting>>

\* A fault: the message the callback refuses stays counted.
FaultStillCounted(m) ==
  /\ adding.pc = "counted"
  /\ callBack[m.user]
  /\ \/ posted' = posted \cup {m} /\ UNCHANGED free
     \/ free' = free \cup {m.buf} /\ UNCHANGED posted
  /\ sending' = {}
  /\ UNCHANGED <<tables, counts, adding, running, leaving, uncounting>>

\* The callback is called; it posts the message or returns ERROR, and the buffer
\* is given back.  If it was unregistered meanwhile the call is one of a NULL
\* pointer: no step.
CallBack(m) ==
  /\ adding.pc = "counted"
  /\ callBack[m.user]
  /\ \/ /\ posted' = posted \cup {m}
        /\ UNCHANGED <<free, leaving>>
     \/ /\ free' = free \cup {m.buf}
        /\ leaving' = leaving \cup {[msg |-> m, num |-> m.user, refused |-> TRUE]}
        /\ UNCHANGED posted
  /\ sending' = {}
  /\ UNCHANGED <<tables, counts, adding, running, uncounting>>

-----------------------------------------------------------------------------
(* A user's task: ProcessMMLMsg.                                           *)

\* A task processes one message at a time.
AtWork(u) == \E r \in AtEnd : r.msg.user = u /\ ~r.refused

\* The item has no function any more: the message is dropped as it is.
DropMsg(m) ==
  /\ ~AtWork(m.user)
  /\ ~CmdItem[m.CmdIndex].FnPtr
  /\ posted' = posted \ {m}
  /\ UNCHANGED <<tables, counts, free, sending, adding, running, leaving, uncounting>>

\* The number is read as the command starts.
Started(m) == [msg |-> m, num |-> CmdItem[m.CmdIndex].RegisterNum, refused |-> FALSE]

\* A fault: the buffer is given back before the command runs, and after.
FaultEarlyBack(m) ==
  /\ ~AtWork(m.user)
  /\ CmdItem[m.CmdIndex].FnPtr
  /\ posted' = posted \ {m}
  /\ free' = free \cup {m.buf}
  /\ running' = running \cup {Started(m)}
  /\ UNCHANGED <<tables, counts, sending, adding, leaving, uncounting>>

\* The command starts ...
RunCmd(m) ==
  /\ ~AtWork(m.user)
  /\ CmdItem[m.CmdIndex].FnPtr
  /\ posted' = posted \ {m}
  /\ running' = running \cup {Started(m)}
  /\ UNCHANGED <<tables, counts, free, sending, adding, leaving, uncounting>>

\* ... ends, and its buffer is given back.
GiveBack(r) ==
  /\ running' = running \ {r}
  /\ leaving' = leaving \cup {r}
  /\ free' = free \cup {r.msg.buf}
  /\ UNCHANGED <<tables, counts, sending, adding, posted, uncounting>>

\* The -- for the number that was read, in the user's task or, for a message that
\* was refused, in DataCollectTask: the read ...
ReadUncount(r) ==
  /\ MsgBufNum[r.num] > MinNum
  /\ leaving' = leaving \ {r}
  /\ uncounting' = uncounting \cup {[of |-> r, saw |-> MsgBufNum[r.num]]}
  /\ UNCHANGED <<tables, counts, free, sending, adding, posted, running>>

\* ... and the write.
WriteUncount(x) ==
  /\ uncounting' = uncounting \ {x}
  /\ Write(x.of.num, x.saw, -1, 0)
  /\ UNCHANGED <<tables, free, sending, adding, posted, running, leaving>>

Next ==
  \/ MmlRegister
  \/ \E u \in Users : MmlUnRegister(u) \/ \E n \in Names : MmlInstallCmd(n, u)
  \/ \E n \in Names : ExecuteMmlCmd(n)
  \/ \E m \in sending : ReadCount(m) \/ WriteCount(m) \/ CallBack(m)
  \/ \E m \in posted : DropMsg(m) \/ RunCmd(m)
  \/ \E r \in running : GiveBack(r)
  \/ \E r \in leaving : ReadUncount(r)
  \/ \E x \in uncounting : WriteUncount(x)

Spec == Init /\ [][Next]_vars

-----------------------------------------------------------------------------

(* A name is installed once, whatever holes earlier removals left before it. *)
NamesUnique ==
  \A i, j \in Items : CmdItem[i].FnPtr /\ CmdItem[j].FnPtr /\ CmdItem[i].name = CmdItem[j].name => i = j

(* No message buffer is in two places.  (It may be nowhere: ProcessMMLMsg loses
   the message of a command that is gone.) *)
Holders(b) ==
  (IF b \in free THEN 1 ELSE 0)
  + Cardinality({m \in sending \cup posted : m.buf = b})
  + Cardinality({r \in running : r.msg.buf = b})

BufferOnce == \A b \in Bufs : Holders(b) <= 1

(* A user is refused a message because of messages that are gone only as far as
   updates of its count were lost since it registered, or messages were counted
   that had been looked up for the number before: besides those it has at least
   as many as are counted for it, also after it unregistered, registered again
   and left messages behind that now belong to another's command. *)
CountNotAbove ==
  \A u \in Users :
    MsgBufNum[u] <= Cardinality({m \in Sent : m.user = u})
                    + Cardinality({r \in AtEnd : r.num = u})
                    + strays[u]

(* An installation is not refused for want of room while there is room. *)
RoomIsUsed == TotalNum >= MaxCmd => \A i \in Items : CmdItem[i].FnPtr

(* "MML command was not installed" is what the client reads of a command whose
   search fails: an installed command is found. *)
InstalledFound == \A i \in Items : CmdItem[i].FnPtr => Searched(CmdItem[i].name) # {}
=============================================================================
