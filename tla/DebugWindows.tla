---------------------------- MODULE DebugWindows ----------------------------
(***************************************************************************)
(* The debug windows of the data collection tool,                          *)
(* src/Lwdp/code/PModule/DctMgr/DataCollectTool.cpp.  A client connects    *)
(* to the debug port and names a window; what the application prints to    *)
(* that window with MmlPrintf then travels, one buffer a message, through  *)
(* the pipe of the connection's slot to the client.                        *)
(*                                                                         *)
(* Four kinds of tasks work on the tables with no lock between them:       *)
(*   - ListenTask accepts connections and orders them to be entered;       *)
(*   - DataCollectTask goes round: select, one MML command, one order      *)
(*     from the control pipe, then socket and pipe of every slot;          *)
(*   - application tasks print, pause, resume and time windows;            *)
(*   - the timer thread orders a timed window to be printed.               *)
(* A step is a handler of DataCollectTask, or what another task does       *)
(* between two of its accesses to the shared tables.  mWndConnNum is read  *)
(* and written in steps of their own, as two tasks change it; the pipe's   *)
(* message count moves in one step.                                        *)
(***************************************************************************)
EXTENDS Integers, Sequences, FiniteSets

CONSTANTS WndNum,    \* MAX_MML_WNDNUM, the number of slots
          WinNum,    \* MAX_WINPTR_NUM, the number of windows
          PipeNum,   \* MML_WATCH_PIPE_NUM, messages a pipe holds
          CtrlNum,   \* bound: orders waiting in the control pipe
          MissNum,   \* bound: increments of mWndConnNum that get lost
          Bufs,      \* the nodes of mDataBuf
          Apps,      \* application tasks that print
          Conns      \* connections; an id is used again once closed

NoSock == "none"      \* SockId 0

ASSUME DebugWindowsAssumption ==
  /\ WndNum \in Nat \ {0} /\ WinNum \in Nat \ {0}
  /\ PipeNum \in Nat /\ CtrlNum \in Nat /\ MissNum \in Nat
  /\ IsFiniteSet(Bufs) /\ IsFiniteSet(Apps)
  /\ NoSock \notin Conns

Slots == 0 .. WndNum - 1
Windows == 0 .. WinNum - 1
None == -1            \* winNum and WinId of what is not configured
Idle == [pc |-> "idle", num |-> None, buf |-> {}]
Quiet == [says |-> "nothing", win |-> None]
Gone == [says |-> "gone", win |-> None]
Waiting == [pc |-> "waiting", saw |-> 0]
NoUncount == [busy |-> FALSE, saw |-> 0]

VARIABLES
  mMmlCnfg,     \* [Slots -> slot]: WinId, SockId, Status, Period
  winNum,       \* WinPtr[w].winNum
  pipe,         \* the messages in each slot's pipe
  timer,        \* each slot's watchdog: the window it will report, or None
  mWndConnNum,  \* connections, as ListenTask and DataCollectTask count them
  free,         \* the free nodes of mDataBuf
  ctrl,         \* the control pipe
  listener,     \* where ListenTask is between its order and its ++, what it read
  uncount,      \* UserSockFail is between the read and the write of its --
  missed,       \* history: increments that a -- has written over
  ready,        \* what select has reported and is still to be dealt with
  peer,         \* what each client has done that was not yet received
  app,          \* where each application task is in MmlPrintf
  lost          \* history: buffers that a text too long has cost

tables == <<mMmlCnfg, winNum, timer, uncount>>
counts == <<mWndConnNum, listener, missed>>
vars == <<tables, counts, pipe, free, ctrl, ready, peer, app, lost>>

Order == [code : {"TOADDDBG"}, conn : Conns, win : {None}]
         \cup [code : {"TOACTIVE", "TOPAUSE", "TOTIMER", "TOTIMEOUT"},
               conn : {NoSock}, win : Windows]

TypeOK ==
  /\ mMmlCnfg \in [Slots -> [WinId : Windows \cup {None},
                             SockId : Conns \cup {NoSock},
                             Status : {"IDLE", "CONNECT", "ACTIVE", "PAUSE", "RELEASE"},
                             Period : {0, 1}]]
  /\ winNum \in [Windows -> Slots \cup {None}]
  /\ pipe \in [Slots -> Seq(Bufs)]
  /\ timer \in [Slots -> Windows \cup {None}]
  /\ missed \in Nat
  /\ mWndConnNum \in -1 - missed .. WndNum
  /\ free \subseteq Bufs /\ lost \subseteq Bufs
  /\ ctrl \in Seq(Order)
  /\ listener \in [pc : {"waiting", "sent", "read"}, saw : Int]
  /\ uncount \in [busy : BOOLEAN, saw : Int]
  /\ ready \in [mml : BOOLEAN, ctrl : BOOLEAN, socks : SUBSET Slots, pipes : SUBSET Slots]
  /\ peer \in [Conns -> [says : {"nothing", "config", "close", "gone"},
                         win : Windows \cup {None}]]
  /\ app \in [Apps -> [pc : {"idle", "status", "write", "suspended"},
                       num : Slots \cup {None}, buf : SUBSET Bufs]]

NothingReady == [mml |-> FALSE, ctrl |-> FALSE, socks |-> {}, pipes |-> {}]

Init ==
  /\ mMmlCnfg = [i \in Slots |-> [WinId |-> None, SockId |-> NoSock,
                                  Status |-> "IDLE", Period |-> 0]]
  /\ winNum = [w \in Windows |-> None]
  /\ pipe = [i \in Slots |-> << >>]
  /\ timer = [i \in Slots |-> None]
  /\ mWndConnNum = 0
  /\ free = Bufs
  /\ ctrl = << >>
  /\ listener = Waiting
  /\ uncount = NoUncount
  /\ missed = 0
  /\ lost = {}
  /\ ready = NothingReady
  /\ peer = [c \in Conns |-> Gone]
  /\ app = [a \in Apps |-> Idle]

-----------------------------------------------------------------------------
(* What an update of the tables is made of.  Each takes the slot's record  *)
(* apart the way the C++ function does and says the whole of tables'.      *)

FirstOf(S) == CHOOSE i \in S : \A j \in S : i <= j

\* Faults of UserSockFail: one takes window 0 for none, as StatSockFail does;
\* one releases the slot without looking into its pipe.
FaultWindowZero(i) ==
  LET s == mMmlCnfg[i]
      after == CASE s.Status = "CONNECT" \/ pipe[i] = << >> -> "IDLE"
                 [] OTHER -> "RELEASE"
  IN /\ peer' = [peer EXCEPT ![s.SockId] = Gone]
     /\ winNum' = IF s.WinId > 0 THEN [winNum EXCEPT ![s.WinId] = None] ELSE winNum
     /\ mMmlCnfg' = [mMmlCnfg EXCEPT
          ![i] = [WinId |-> None, SockId |-> NoSock, Status |-> after,
                  Period |-> IF after = "RELEASE" THEN 0 ELSE s.Period]]
     /\ timer' = IF after = "RELEASE" /\ s.Period # 0 THEN [timer EXCEPT ![i] = None] ELSE timer
     /\ uncount' = [busy |-> TRUE, saw |-> mWndConnNum]

FaultReleaseEmpty(i) ==
  LET s == mMmlCnfg[i]
      after == IF s.Status = "CONNECT" THEN "IDLE" ELSE "RELEASE"
  IN /\ peer' = [peer EXCEPT ![s.SockId] = Gone]
     /\ winNum' = IF s.WinId \in Windows THEN [winNum EXCEPT ![s.WinId] = None] ELSE winNum
     /\ mMmlCnfg' = [mMmlCnfg EXCEPT
          ![i] = [WinId |-> None, SockId |-> NoSock, Status |-> after, Period |-> 0]]
     /\ timer' = [timer EXCEPT ![i] = None]
     /\ uncount' = [busy |-> TRUE, saw |-> mWndConnNum]

\* UserSockFail, after MmlCloseSocket: the client of slot i is gone.  The
\* watchdog is stopped only if messages are still waiting.  It ends with the
\* read of the count; WriteUncount is the write.
UserSockFail(i) ==
  LET s == mMmlCnfg[i]
      empty == pipe[i] = << >>
      open == s.Status \in {"ACTIVE", "PAUSE"}
      after == CASE s.Status = "CONNECT" -> "IDLE"
                 [] open /\ empty -> "IDLE"
                 [] open /\ ~empty -> "RELEASE"
                 [] OTHER -> s.Status
  IN /\ peer' = [peer EXCEPT ![s.SockId] = Gone]
     /\ winNum' = IF s.WinId \in Windows THEN [winNum EXCEPT ![s.WinId] = None] ELSE winNum
     /\ mMmlCnfg' = [mMmlCnfg EXCEPT
          ![i] = [WinId |-> None, SockId |-> NoSock, Status |-> after,
                  Period |-> IF after = "RELEASE" THEN 0 ELSE s.Period]]
     /\ timer' = IF after = "RELEASE" /\ s.Period # 0 THEN [timer EXCEPT ![i] = None] ELSE timer
     /\ uncount' = [busy |-> TRUE, saw |-> mWndConnNum]

\* The slot is configured for window w and made active.
Configure(i, w) ==
  /\ mMmlCnfg' = [mMmlCnfg EXCEPT ![i].WinId = w, ![i].Status = "ACTIVE"]
  /\ winNum' = [winNum EXCEPT ![w] = i]
  /\ UNCHANGED <<timer, uncount>>

\* A fault: buffers come back only if there was somebody to send them to, as in
\* DealStatPipe.
FaultKeepUnsent(i) ==
  /\ pipe' = [pipe EXCEPT ![i] = << >>]
  /\ free' = IF mMmlCnfg[i].SockId = NoSock THEN free
             ELSE free \cup {pipe[i][k] : k \in DOMAIN pipe[i]}

\* All messages of slot i are read and their buffers given back.
EmptyPipe(i) ==
  /\ pipe' = [pipe EXCEPT ![i] = << >>]
  /\ free' = free \cup {pipe[i][k] : k \in DOMAIN pipe[i]}

-----------------------------------------------------------------------------
(* Clients.                                                                *)

\* A fault: the limit is compared with > and not with >=.
FaultOneTooMany(c) ==
  /\ listener.pc = "waiting"
  /\ mWndConnNum <= WndNum
  /\ peer[c] = Gone
  /\ Len(ctrl) < CtrlNum
  /\ peer' = [peer EXCEPT ![c] = Quiet]
  /\ ctrl' = Append(ctrl, [code |-> "TOADDDBG", conn |-> c, win |-> None])
  /\ listener' = [pc |-> "sent", saw |-> 0]
  /\ UNCHANGED <<tables, mWndConnNum, missed, pipe, free, ready, app, lost>>

\* ListenTask accepts a connection, if the count says there is room.
Accept(c) ==
  /\ listener.pc = "waiting"
  /\ mWndConnNum < WndNum
  /\ peer[c] = Gone
  /\ Len(ctrl) < CtrlNum
  /\ peer' = [peer EXCEPT ![c] = Quiet]
  /\ ctrl' = Append(ctrl, [code |-> "TOADDDBG", conn |-> c, win |-> None])
  /\ listener' = [pc |-> "sent", saw |-> 0]
  /\ UNCHANGED <<tables, mWndConnNum, missed, pipe, free, ready, app, lost>>

\* Bound: when so many increments are lost, the two tasks no longer overlap.
Apart == missed = MissNum

\* ... and counts it after its order is in the pipe: it reads the count ...
ReadCount ==
  /\ listener.pc = "sent"
  /\ Apart => ~uncount.busy
  /\ listener' = [pc |-> "read", saw |-> mWndConnNum]
  /\ UNCHANGED <<tables, mWndConnNum, missed, pipe, free, ctrl, ready, peer, app, lost>>

\* ... and writes it, one more.
CountConnection ==
  /\ listener.pc = "read"
  /\ uncount.busy => missed + listener.saw + 1 - uncount.saw <= MissNum
  /\ mWndConnNum' = listener.saw + 1
  /\ listener' = Waiting
  /\ UNCHANGED <<tables, missed, pipe, free, ctrl, ready, peer, app, lost>>

\* A client names the window it wants, or closes its connection.  What it does
\* before it has a slot is as if done when it has one: nobody looks before.
PeerSends(c) ==
  /\ peer[c] = Quiet
  /\ \E i \in Slots : mMmlCnfg[i].SockId = c
  /\ \/ \E w \in Windows : peer' = [peer EXCEPT ![c] = [says |-> "config", win |-> w]]
     \/ peer' = [peer EXCEPT ![c] = [says |-> "close", win |-> None]]
  /\ UNCHANGED <<tables, counts, pipe, free, ctrl, ready, app, lost>>

-----------------------------------------------------------------------------
(* Application tasks and the timer thread.                                 *)

\* MmlPrintf, and in the same way MmlLog and MmlLogPrintf, reads which slot
\* serves the window ...
MmlPrintf(a, w) ==
  /\ app[a].pc = "idle"
  /\ winNum[w] \in Slots
  /\ app' = [app EXCEPT ![a] = [pc |-> "status", num |-> winNum[w], buf |-> {}]]
  /\ UNCHANGED <<tables, counts, pipe, free, ctrl, ready, peer, lost>>

\* ... then whether the pipe has room and the slot is in use, and takes a
\* buffer; GetDataBuf may find none, or its semaphore taken.  A text of 2048 or
\* more has overrun MmlPrintfdatabuf: the task suspends itself for ever, or goes
\* back if that fails, and keeps the buffer either way ...
PrintCheck(a) ==
  LET i == app[a].num
      goesOn == Len(pipe[i]) # PipeNum /\ mMmlCnfg[i].Status \in {"ACTIVE", "PAUSE"}
  IN /\ app[a].pc = "status"
     /\ \/ /\ goesOn
           /\ \E b \in free :
                /\ free' = free \ {b}
                /\ \/ app' = [app EXCEPT ![a].pc = "write", ![a].buf = {b}] /\ lost' = lost
                   \/ app' = [app EXCEPT ![a].pc = "suspended"] /\ lost' = lost \cup {b}
                   \/ app' = [app EXCEPT ![a] = Idle] /\ lost' = lost \cup {b}
        \/ app' = [app EXCEPT ![a] = Idle] /\ UNCHANGED <<free, lost>>
     /\ UNCHANGED <<tables, counts, pipe, ctrl, ready, peer>>

\* ... and writes the buffer to the pipe of the slot it has read at first, or
\* gives it back if the pipe does not take it.
PrintWrite(a) ==
  /\ app[a].pc = "write"
  /\ \E b \in app[a].buf :
       \/ pipe' = [pipe EXCEPT ![app[a].num] = Append(@, b)] /\ free' = free
       \/ pipe' = pipe /\ free' = free \cup {b}
  /\ app' = [app EXCEPT ![a] = Idle]
  /\ UNCHANGED <<tables, counts, ctrl, ready, peer, lost>>

\* MmlPause, MmlResume and MmlTimer (with a period other than 0) only send an
\* order; the commands PAUSE_WIN and TIMER_WIN call them too.
SendOrder(w) ==
  /\ Len(ctrl) < CtrlNum
  /\ \E code \in {"TOPAUSE", "TOACTIVE", "TOTIMER"} :
       ctrl' = Append(ctrl, [code |-> code, conn |-> NoSock, win |-> w])
  /\ UNCHANGED <<tables, counts, pipe, free, ready, peer, app, lost>>

\* A watchdog expires: MmlTimeout reports the window it was started for.
MmlTimeout(i) ==
  /\ timer[i] # None
  /\ Len(ctrl) < CtrlNum
  /\ ctrl' = Append(ctrl, [code |-> "TOTIMEOUT", conn |-> NoSock, win |-> timer[i]])
  /\ timer' = [timer EXCEPT ![i] = None]
  /\ UNCHANGED <<mMmlCnfg, winNum, uncount, counts, pipe, free, ready, peer, app, lost>>

-----------------------------------------------------------------------------
(* DataCollectTask.  `ready' holds what select has reported and the round  *)
(* has not come to yet: commands first, then the control pipe, then slot   *)
(* by slot the socket and the pipe.                                        *)

WatchesSock(i) == mMmlCnfg[i].Status \in {"CONNECT", "PAUSE", "ACTIVE"}
WatchesPipe(i) == mMmlCnfg[i].Status \in {"RELEASE", "ACTIVE"}

Select ==
  /\ ready = NothingReady
  /\ \E mml \in BOOLEAN :
       ready' = [mml |-> mml,
                 ctrl |-> ctrl # << >>,
                 socks |-> {i \in Slots : WatchesSock(i) /\ peer[mMmlCnfg[i].SockId] # Quiet},
                 pipes |-> {i \in Slots : WatchesPipe(i) /\ pipe[i] # << >>}]
  /\ ready' # NothingReady
  /\ UNCHANGED <<tables, counts, pipe, free, ctrl, peer, app, lost>>

\* No MML connection has sent another command that changes a debug window.
NoCommand ==
  /\ ready.mml
  /\ ready' = [ready EXCEPT !.mml = FALSE]
  /\ UNCHANGED <<tables, counts, pipe, free, ctrl, peer, app, lost>>

\* The command that configures connection i as window w.
CmdCfgWin(i, w) ==
  /\ ready.mml
  /\ winNum[w] = None
  /\ mMmlCnfg[i].Status = "CONNECT"
  /\ Configure(i, w)
  /\ UNCHANGED <<counts, pipe, free, ctrl, ready, peer, app, lost>>

\* The command that deletes debug window w.  The closed socket is in nobody's
\* slot any more when the round comes to it.
deleteconnection(w) ==
  /\ ready.mml
  /\ winNum[w] \in Slots
  /\ UserSockFail(winNum[w])
  /\ ready' = [ready EXCEPT !.socks = @ \ {winNum[w]}]
  /\ UNCHANGED <<counts, pipe, free, ctrl, app, lost>>

SlotsOf(w) == {i \in Slots : mMmlCnfg[i].WinId = w}
FreeSlots == {i \in Slots : mMmlCnfg[i].SockId = NoSock}

AddDbg(c) ==
  /\ mMmlCnfg' = IF FreeSlots = {} THEN mMmlCnfg
                 ELSE [mMmlCnfg EXCEPT ![FirstOf(FreeSlots)].SockId = c,
                                       ![FirstOf(FreeSlots)].Status = "CONNECT"]
  /\ UNCHANGED <<timer, pipe, free>>

Activate(w) ==
  LET paused == {i \in SlotsOf(w) : mMmlCnfg[i].Status = "PAUSE"}
  IN /\ mMmlCnfg' = IF paused = {} THEN mMmlCnfg
                    ELSE [mMmlCnfg EXCEPT ![FirstOf(paused)].Status = "ACTIVE",
                                          ![FirstOf(paused)].Period = 0]
     /\ timer' = IF paused = {} THEN timer ELSE [timer EXCEPT ![FirstOf(paused)] = None]
     /\ UNCHANGED <<pipe, free>>

Pause(w) ==
  \/ /\ SlotsOf(w) = {}
     /\ UNCHANGED <<mMmlCnfg, timer, pipe, free>>
  \/ \E i \in SlotsOf(w) :
       LET s == mMmlCnfg[i]
           timed == s.Status = "PAUSE" /\ s.Period # 0
       IN /\ i = FirstOf(SlotsOf(w))
          /\ mMmlCnfg' = [mMmlCnfg EXCEPT
                            ![i].Period = IF timed THEN 0 ELSE @,
                            ![i].Status = IF @ = "ACTIVE" THEN "PAUSE" ELSE @]
          /\ timer' = IF timed THEN [timer EXCEPT ![i] = None] ELSE timer
          /\ UNCHANGED <<pipe, free>>

Timer(w) ==
  /\ mMmlCnfg' = [i \in Slots |-> IF i \in SlotsOf(w)
                                  THEN [mMmlCnfg[i] EXCEPT !.Status = "PAUSE", !.Period = 1]
                                  ELSE mMmlCnfg[i]]
  /\ timer' = [i \in Slots |-> IF i \in SlotsOf(w) THEN w ELSE timer[i]]
  /\ UNCHANGED <<pipe, free>>

\* The watchdog is started again, whatever Status and Period now are.
Timeout(w) ==
  \/ /\ SlotsOf(w) = {}
     /\ UNCHANGED <<mMmlCnfg, timer, pipe, free>>
  \/ \E i \in SlotsOf(w) :
       /\ i = FirstOf(SlotsOf(w))
       /\ EmptyPipe(i)
       /\ timer' = [timer EXCEPT ![i] = w]
       /\ UNCHANGED mMmlCnfg

DealMmlCtrlOrd ==
  /\ ~ready.mml /\ ready.ctrl
  /\ ready' = [ready EXCEPT !.ctrl = FALSE]
  /\ ctrl' = Tail(ctrl)
  /\ LET o == Head(ctrl)
     IN \/ o.code = "TOADDDBG" /\ AddDbg(o.conn)
        \/ o.code = "TOACTIVE" /\ Activate(o.win)
        \/ o.code = "TOPAUSE" /\ Pause(o.win)
        \/ o.code = "TOTIMER" /\ Timer(o.win)
        \/ o.code = "TOTIMEOUT" /\ Timeout(o.win)
  /\ UNCHANGED <<winNum, uncount, counts, peer, app, lost>>

\* The loop over the slots has come to slot i.  It passes over a slot that is
\* idle; but what select has reported of a slot keeps it from being idle before
\* its socket is dealt with, and after that the loop does not ask again.
AtSlot(i) ==
  /\ ~ready.mml /\ ~ready.ctrl
  /\ i \in ready.socks \cup ready.pipes
  /\ \A j \in ready.socks \cup ready.pipes : i <= j

\* What the client of the slot has sent: the end of the connection, or the
\* number of a window, refused if that window has a slot already.
DealWatchSock(i) ==
  LET s == mMmlCnfg[i]
      said == peer[s.SockId]
      heard == peer' = [peer EXCEPT ![s.SockId] = Quiet]
  IN /\ AtSlot(i)
     /\ i \in ready.socks
     /\ ready' = [ready EXCEPT !.socks = @ \ {i}]
     /\ \/ said.says = "close" /\ UserSockFail(i)
        \/ said.says = "config" /\ s.WinId # None /\ heard /\ UNCHANGED tables
        \/ said.says = "config" /\ s.WinId = None /\ winNum[said.win] # None /\ UserSockFail(i)
        \/ said.says = "config" /\ s.WinId = None /\ winNum[said.win] = None
           /\ heard /\ Configure(i, said.win)
     /\ UNCHANGED <<counts, pipe, free, ctrl, app, lost>>

\* What waits in the slot's pipe is sent, or dropped if nobody is there.
DealWatchPipe(i) ==
  /\ AtSlot(i)
  /\ i \notin ready.socks
  /\ ready' = [ready EXCEPT !.pipes = @ \ {i}]
  /\ EmptyPipe(i)
  /\ mMmlCnfg' = [mMmlCnfg EXCEPT ![i].Status = IF @ = "RELEASE" THEN "IDLE" ELSE @]
  /\ UNCHANGED <<winNum, timer, uncount, counts, ctrl, peer, app, lost>>

\* The end of UserSockFail: the count is written, one less than it was read.
WriteUncount ==
  /\ uncount.busy
  /\ mWndConnNum' = uncount.saw - 1
  /\ missed' = missed + mWndConnNum - uncount.saw
  /\ uncount' = NoUncount
  /\ UNCHANGED <<mMmlCnfg, winNum, timer, listener, pipe, free, ctrl, ready, peer, app, lost>>

DataCollectTask ==
  \/ /\ ~uncount.busy
     /\ Apart => listener.pc # "read"
     /\ \/ Select \/ NoCommand \/ DealMmlCtrlOrd
        \/ \E i \in Slots : DealWatchSock(i) \/ DealWatchPipe(i)
        \/ \E w \in Windows : deleteconnection(w) \/ \E i \in Slots : CmdCfgWin(i, w)
  \/ WriteUncount

Next ==
  \/ DataCollectTask
  \/ ReadCount \/ CountConnection
  \/ \E c \in Conns : Accept(c) \/ PeerSends(c)
  \/ \E a \in Apps : PrintCheck(a) \/ PrintWrite(a) \/ \E w \in Windows : MmlPrintf(a, w)
  \/ \E w \in Windows : SendOrder(w)
  \/ \E i \in Slots : MmlTimeout(i)

\* DataCollectTask never stops: when a descriptor is ready, select returns.
Spec == Init /\ [][Next]_vars /\ WF_vars(DataCollectTask)

-----------------------------------------------------------------------------

(* A slot serves a window exactly if the window names the slot, and then a
   client is connected: no close, deletion, refusal or late configuration
   leaves a window that prints into a slot nobody has configured for it. *)
WindowsMatch ==
  \A i \in Slots, w \in Windows :
    /\ mMmlCnfg[i].WinId = w <=> winNum[w] = i
    /\ winNum[w] = i => mMmlCnfg[i].Status \in {"ACTIVE", "PAUSE"} /\ mMmlCnfg[i].SockId \in Conns

(* Every buffer is in one place: free, in one pipe once, in the hands of one
   task, or lost to a text that was too long; so no other way of printing loses
   one, and none is sent or given back twice, whatever becomes of the connection
   while its messages wait. *)
BufferPlaces ==
  \A b \in Bufs :
    (IF b \in free THEN 1 ELSE 0)
    + (IF b \in lost THEN 1 ELSE 0)
    + Cardinality({a \in Apps : b \in app[a].buf})
    + Cardinality(UNION {{<<i, k>> : k \in {k \in DOMAIN pipe[i] : pipe[i][k] = b}} : i \in Slots})
    = 1

(* An ordered connection finds a slot, except for as many as increments of the
   count were lost: ListenTask compares a count that it moves after it has sent
   the order, and DataCollectTask, with no lock, may write over what it wrote. *)
ConnectionFits ==
  Cardinality({k \in DOMAIN ctrl : ctrl[k].code = "TOADDDBG"})
    <= Cardinality(FreeSlots) + missed

(* A slot released while messages wait has a message in its pipe as long as it
   is released: else select would report it no more and it would never again
   be idle, unless the stale print of a task came to its help. *)
ReleaseCanEnd ==
  \A i \in Slots : mMmlCnfg[i].Status = "RELEASE" => pipe[i] # << >>

(* "This function pauses printing user data information": from a window that
   is paused and not timed nothing is printed, once the round in which it was
   paused is over. *)
PauseHolds ==
  [][\A i \in Slots :
       /\ mMmlCnfg[i].Status = "PAUSE" /\ mMmlCnfg[i].Period = 0
       /\ mMmlCnfg'[i].Status = "PAUSE"
       /\ i \notin ready.pipes
       => Len(pipe'[i]) >= Len(pipe[i])]_vars
=============================================================================
