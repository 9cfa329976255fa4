----------------------------- MODULE StatWindows -----------------------------
(***************************************************************************)
(* The statistic windows of the data collection tool,                      *)
(* src/Lwdp/code/PModule/DctMgr/DataCollectTool.cpp.  They resemble the    *)
(* debug windows (DebugWindows), whose tasks serve them too, but have code *)
(* of their own: a connection may name a window again and again, its end   *)
(* empties the pipe at once, and there is no pausing.                      *)
(*                                                                         *)
(* SockId says whether a slot is in use; Status is ACTIVE just then.  An   *)
(* application's statistic is assumed to be registered.                    *)
(***************************************************************************)
EXTENDS Integers, Sequences, FiniteSets

CONSTANTS StatNum,   \* MAX_MML_STATNUM, the number of slots
          WinNum,    \* MAX_STATPTR_NUM, the number of windows
          PipeNum,   \* MML_STAT_PIPE_NUM, messages a pipe holds
          MinCount,  \* bound: how far mStatConnNum is driven down
          CtrlNum,   \* bound: orders waiting in the control pipe
          Bufs,      \* the nodes of mStatBuf
          Apps,      \* application tasks
          Conns      \* connections; an id is used again once closed

NoSock == "none"      \* SockId 0

ASSUME StatWindowsAssumption ==
  /\ StatNum \in Nat \ {0} /\ WinNum \in Nat \ {0}
  /\ PipeNum \in Nat /\ CtrlNum \in Nat /\ MinCount \in Int
  /\ NoSock \notin Conns

Slots == 0 .. StatNum - 1
Windows == 0 .. WinNum - 1
None == -1
Idle == [pc |-> "idle", win |-> None, num |-> None, buf |-> {}]
Quiet == [says |-> "nothing", win |-> None]
Gone == [says |-> "gone", win |-> None]
Waiting == [pc |-> "waiting", saw |-> 0]
NoUncount == [busy |-> FALSE, saw |-> 0]
NothingReady == [mml |-> FALSE, ctrl |-> FALSE, socks |-> {}, pipes |-> {}]

VARIABLES
  mMmlStat,      \* [Slots -> slot]: WinId, SockId
  winNum,        \* StatPtr[w].winNum
  pipe,          \* the buffers in each slot's pipe
  mStatConnNum,  \* connections, as ListenTask and DataCollectTask count them
  free,          \* the free nodes of mStatBuf
  ctrl,          \* the control pipe: connections to be entered
  listener,      \* where ListenTask is between its order and its ++, what it read
  uncount,       \* StatSockFail is between the read and the write of its --
  ready,         \* what select has reported and is still to be dealt with
  peer,          \* what each client has done that was not yet received
  app            \* where each application task is in MmlStatistic

tables == <<mMmlStat, winNum, uncount>>
counts == <<mStatConnNum, listener>>
vars == <<tables, counts, pipe, free, ctrl, ready, peer, app>>

TypeOK ==
  /\ mMmlStat \in [Slots -> [WinId : Windows \cup {None}, SockId : Conns \cup {NoSock}]]
  /\ winNum \in [Windows -> Slots \cup {None}]
  /\ pipe \in [Slots -> Seq(Bufs)]
  /\ mStatConnNum \in Int /\ mStatConnNum <= StatNum
  /\ free \subseteq Bufs
  /\ ctrl \in Seq(Conns)
  /\ listener \in [pc : {"waiting", "sent", "read"}, saw : Int]
  /\ uncount \in [busy : BOOLEAN, saw : Int]
  /\ ready \in [mml : BOOLEAN, ctrl : BOOLEAN, socks : SUBSET Slots, pipes : SUBSET Slots]
  /\ peer \in [Conns -> [says : {"nothing", "config", "close", "gone"}, win : Windows \cup {None}]]
  /\ app \in [Apps -> [pc : {"idle", "check", "write", "rewrite"}, win : Windows \cup {None},
                       num : Slots \cup {None}, buf : SUBSET Bufs]]

Init ==
  /\ mMmlStat = [i \in Slots |-> [WinId |-> None, SockId |-> NoSock]]
  /\ winNum = [w \in Windows |-> None]
  /\ pipe = [i \in Slots |-> << >>]
  /\ mStatConnNum = 0
  /\ free = Bufs
  /\ ctrl = << >>
  /\ listener = Waiting
  /\ uncount = NoUncount
  /\ ready = NothingReady
  /\ peer = [c \in Conns |-> Gone]
  /\ app = [a \in Apps |-> Idle]

Content(i) == {pipe[i][k] : k \in DOMAIN pipe[i]}

\* A fault: the waiting buffers are given back but stay in the pipe.
FaultKeepPipe(i) ==
  LET s == mMmlStat[i]
  IN /\ peer' = [peer EXCEPT ![s.SockId] = Gone]
     /\ pipe' = pipe
     /\ free' = free \cup Content(i)
     /\ winNum' = IF s.WinId > 0 THEN [winNum EXCEPT ![s.WinId] = None] ELSE winNum
     /\ mMmlStat' = [mMmlStat EXCEPT ![i] = [WinId |-> None, SockId |-> NoSock]]
     /\ uncount' = [busy |-> TRUE, saw |-> mStatConnNum]

\* StatSockFail, after MmlCloseSocket: the waiting buffers are given back and
\* the slot is free.  The window forgets its slot, unless it is window 0.
StatSockFail(i) ==
  LET s == mMmlStat[i]
  IN /\ peer' = [peer EXCEPT ![s.SockId] = Gone]
     /\ pipe' = [pipe EXCEPT ![i] = << >>]
     /\ free' = free \cup Content(i)
     /\ winNum' = IF s.WinId > 0 THEN [winNum EXCEPT ![s.WinId] = None] ELSE winNum
     /\ mMmlStat' = [mMmlStat EXCEPT ![i] = [WinId |-> None, SockId |-> NoSock]]
     /\ uncount' = [busy |-> TRUE, saw |-> mStatConnNum]

-----------------------------------------------------------------------------
(* Clients, and ListenTask on their behalf.                                *)

Accept(c) ==
  /\ listener.pc = "waiting"
  /\ mStatConnNum < StatNum
  /\ peer[c] = Gone
  /\ Len(ctrl) < CtrlNum
  /\ peer' = [peer EXCEPT ![c] = Quiet]
  /\ ctrl' = Append(ctrl, c)
  /\ listener' = [pc |-> "sent", saw |-> 0]
  /\ UNCHANGED <<tables, mStatConnNum, pipe, free, ready, app>>

\* The ++ after the order is sent: the read, and the write.
ReadCount ==
  /\ listener.pc = "sent"
  /\ listener' = [pc |-> "read", saw |-> mStatConnNum]
  /\ UNCHANGED <<tables, mStatConnNum, pipe, free, ctrl, ready, peer, app>>

CountConnection ==
  /\ listener.pc = "read"
  /\ uncount.busy => uncount.saw > MinCount
  /\ mStatConnNum' = listener.saw + 1
  /\ listener' = Waiting
  /\ UNCHANGED <<tables, pipe, free, ctrl, ready, peer, app>>

\* What a client does before it has a slot is as if done when it has one.
PeerSends(c) ==
  /\ peer[c] = Quiet
  /\ \E i \in Slots : mMmlStat[i].SockId = c
  /\ \/ \E w \in Windows : peer' = [peer EXCEPT ![c] = [says |-> "config", win |-> w]]
     \/ peer' = [peer EXCEPT ![c] = [says |-> "close", win |-> None]]
  /\ UNCHANGED <<tables, counts, pipe, free, ctrl, ready, app>>

-----------------------------------------------------------------------------
(* Application tasks.                                                      *)

\* Both forms of MmlStatistic read which slot serves the window ...
MmlStatistic(a, w) ==
  /\ app[a].pc = "idle"
  /\ winNum[w] \in Slots
  /\ app' = [app EXCEPT ![a] = [pc |-> "check", win |-> w, num |-> winNum[w], buf |-> {}]]
  /\ UNCHANGED <<tables, counts, pipe, free, ctrl, ready, peer>>

\* ... see whether its pipe is just full, and take a buffer if there is one.
\* The form with a coordinate ("rewrite") asks the window for its slot again,
\* here and below.
StatCheck(a) ==
  /\ app[a].pc = "check"
  /\ \/ \E b \in free, form \in {"write", "rewrite"} :
          LET i == IF form = "write" THEN app[a].num ELSE winNum[app[a].win]
          IN /\ i \in Slots => Len(pipe[i]) # PipeNum
             /\ free' = free \ {b}
             /\ app' = [app EXCEPT ![a].pc = form, ![a].buf = {b}]
     \/ app' = [app EXCEPT ![a] = Idle] /\ free' = free
  /\ UNCHANGED <<tables, counts, pipe, ctrl, ready, peer>>

\* ... and write it to the slot's pipe, or give it back if the pipe does not take
\* it.  If the window has no slot by now, what precedes the table is read as a
\* pipe; it is taken to be none, so that the write fails.
StatWrite(a) ==
  LET i == IF app[a].pc = "write" THEN app[a].num ELSE winNum[app[a].win]
  IN /\ app[a].pc \in {"write", "rewrite"}
     /\ \/ /\ i \in Slots
           /\ \E b \in app[a].buf : pipe' = [pipe EXCEPT ![i] = Append(@, b)]
           /\ free' = free
        \/ /\ free' = free \cup app[a].buf
           /\ pipe' = pipe
     /\ app' = [app EXCEPT ![a] = Idle]
     /\ UNCHANGED <<tables, counts, ctrl, ready, peer>>

-----------------------------------------------------------------------------
(* DataCollectTask.                                                        *)

InUse == {i \in Slots : mMmlStat[i].SockId # NoSock}

\* A fault: a pipe is watched only once its slot has a window.
FaultSelect ==
  /\ ready = NothingReady
  /\ \E mml \in BOOLEAN :
       ready' = [mml |-> mml,
                 ctrl |-> ctrl # << >>,
                 socks |-> {i \in InUse : peer[mMmlStat[i].SockId] # Quiet},
                 pipes |-> {i \in InUse : mMmlStat[i].WinId # None /\ pipe[i] # << >>}]
  /\ ready' # NothingReady
  /\ UNCHANGED <<tables, counts, pipe, free, ctrl, peer, app>>

Select ==
  /\ ready = NothingReady
  /\ \E mml \in BOOLEAN :
       ready' = [mml |-> mml,
                 ctrl |-> ctrl # << >>,
                 socks |-> {i \in InUse : peer[mMmlStat[i].SockId] # Quiet},
                 pipes |-> {i \in InUse : pipe[i] # << >>}]
  /\ ready' # NothingReady
  /\ UNCHANGED <<tables, counts, pipe, free, ctrl, peer, app>>

NoCommand ==
  /\ ready.mml
  /\ ready' = [ready EXCEPT !.mml = FALSE]
  /\ UNCHANGED <<tables, counts, pipe, free, ctrl, peer, app>>

\* The command that deletes statistic window w.  A window may name a slot that
\* was given up long ago: closing socket 0 does nothing, the rest is done.
deleteconnection(w) ==
  /\ ready.mml
  /\ winNum[w] \in Slots
  /\ LET i == winNum[w]
     IN IF mMmlStat[i].SockId # NoSock
        THEN StatSockFail(i)
        ELSE /\ mStatConnNum > MinCount
             /\ pipe' = [pipe EXCEPT ![i] = << >>]
             /\ free' = free \cup Content(i)
             /\ uncount' = [busy |-> TRUE, saw |-> mStatConnNum]
             /\ UNCHANGED <<mMmlStat, winNum, peer>>
  /\ ready' = [ready EXCEPT !.socks = @ \ {winNum[w]}]
  /\ UNCHANGED <<counts, ctrl, app>>

AddStat ==
  /\ ~ready.mml /\ ready.ctrl
  /\ ready' = [ready EXCEPT !.ctrl = FALSE]
  /\ ctrl' = Tail(ctrl)
  /\ mMmlStat' = IF InUse = Slots THEN mMmlStat
                 ELSE [mMmlStat EXCEPT ![CHOOSE i \in Slots \ InUse :
                                          \A j \in Slots \ InUse : i <= j].SockId = Head(ctrl)]
  /\ UNCHANGED <<winNum, uncount, counts, pipe, free, peer, app>>

AtSlot(i) ==
  /\ ~ready.mml /\ ~ready.ctrl
  /\ i \in ready.socks \cup ready.pipes
  /\ \A j \in ready.socks \cup ready.pipes : i <= j

\* A fault: a window that has a slot is not refused.
FaultStatSock(i) ==
  LET s == mMmlStat[i]
      said == peer[s.SockId]
  IN /\ AtSlot(i)
     /\ i \in ready.socks
     /\ ready' = [ready EXCEPT !.socks = @ \ {i}]
     /\ \/ said.says = "close" /\ StatSockFail(i)
        \/ /\ said.says = "config"
           /\ mMmlStat' = [mMmlStat EXCEPT ![i].WinId = said.win]
           /\ winNum' = [winNum EXCEPT ![said.win] = i]
           /\ peer' = [peer EXCEPT ![s.SockId] = Quiet]
           /\ UNCHANGED <<uncount, pipe, free>>
     /\ UNCHANGED <<counts, ctrl, app>>

\* The end of the connection, or the number of a window, refused if that
\* window has a slot already; `connect' is never set, so a window can be named
\* by a connection that has one.
DealStatSock(i) ==
  LET s == mMmlStat[i]
      said == peer[s.SockId]
  IN /\ AtSlot(i)
     /\ i \in ready.socks
     /\ ready' = [ready EXCEPT !.socks = @ \ {i}]
     /\ \/ said.says = "close" /\ StatSockFail(i)
        \/ said.says = "config" /\ winNum[said.win] # None /\ StatSockFail(i)
        \/ /\ said.says = "config" /\ winNum[said.win] = None
           /\ mMmlStat' = [mMmlStat EXCEPT ![i].WinId = said.win]
           /\ winNum' = [winNum EXCEPT ![said.win] = i]
           /\ peer' = [peer EXCEPT ![s.SockId] = Quiet]
           /\ UNCHANGED <<uncount, pipe, free>>
     /\ UNCHANGED <<counts, ctrl, app>>

\* What waits is read; a buffer is given back only if it could be sent.
DealStatPipe(i) ==
  /\ AtSlot(i)
  /\ i \notin ready.socks
  /\ ready' = [ready EXCEPT !.pipes = @ \ {i}]
  /\ pipe' = [pipe EXCEPT ![i] = << >>]
  /\ free' = IF i \in InUse THEN free \cup Content(i) ELSE free
  /\ UNCHANGED <<tables, counts, ctrl, peer, app>>

\* The end of StatSockFail: the count is written, one less than it was read.
WriteUncount ==
  /\ uncount.busy
  /\ mStatConnNum' = uncount.saw - 1
  /\ uncount' = NoUncount
  /\ UNCHANGED <<mMmlStat, winNum, listener, pipe, free, ctrl, ready, peer, app>>

DataCollectTask ==
  \/ /\ ~uncount.busy
     /\ \/ Select \/ NoCommand \/ AddStat
        \/ \E i \in Slots : DealStatSock(i) \/ DealStatPipe(i)
        \/ \E w \in Windows : deleteconnection(w)
  \/ WriteUncount

Next ==
  \/ DataCollectTask
  \/ ReadCount \/ CountConnection
  \/ \E c \in Conns : Accept(c) \/ PeerSends(c)
  \/ \E a \in Apps : StatCheck(a) \/ StatWrite(a) \/ \E w \in Windows : MmlStatistic(a, w)

\* DataCollectTask never stops: when a descriptor is ready, select returns.
Spec == Init /\ [][Next]_vars /\ WF_vars(DataCollectTask)

-----------------------------------------------------------------------------

(* A slot that is configured for a window is the one the window names: no two
   connections are served one window's data, although a window may still name
   a slot that was given up and taken by another connection. *)
WindowOwned ==
  \A i \in Slots, w \in Windows :
    mMmlStat[i].WinId = w => winNum[w] = i /\ mMmlStat[i].SockId \in Conns

(* No buffer is in two places: free, in a pipe, or in the hands of a task.
   (It may be nowhere: DealStatPipe loses what it cannot send.) *)
BufferOnce ==
  \A b \in Bufs :
    (IF b \in free THEN 1 ELSE 0)
    + Cardinality({a \in Apps : b \in app[a].buf})
    + Cardinality(UNION {{<<i, k>> : k \in {k \in DOMAIN pipe[i] : pipe[i][k] = b}} : i \in Slots})
    <= 1

(* What was written to the pipe of a connected slot is sent or given back, also
   if it was written for a window whose connection has left the slot. *)
DataArrives ==
  \A i \in Slots : (i \in InUse /\ pipe[i] # << >>) ~> (i \notin InUse \/ pipe[i] = << >>)

=============================================================================
