------------------------------ MODULE DataBuf -------------------------------
(***************************************************************************)
(* The buffer pools of the data collection tool                            *)
(* (PModule/DctMgr/DataCollectTool.cpp: InitDataBuf, GetDataBuf,           *)
(* PutDataBuf) and the semaphore of the Windows port that guards them      *)
(* (CsOsApi.cpp: semMCreate, semTake, semGive).                            *)
(*                                                                         *)
(* A pool is a list linked through the first word of each free buffer,     *)
(* which is also the first word of the message when the buffer is in use.  *)
(* All pools share one semaphore, an event that wakes one waiter.          *)
(* GetDataBuf looks at HeadPtr before it takes the semaphore and does not  *)
(* wait for it; PutDataBuf waits as long as it takes.                      *)
(*                                                                         *)
(* A step ends where another task may look: HeadPtr before the semaphore   *)
(* is taken, the event, the pointers that are written one after the other. *)
(* BusyNum is left out: it moves against FreeNum on every path.            *)
(***************************************************************************)
EXTENDS Integers, FiniteSets, Sequences, Functions

CONSTANTS
  Tasks,
  Pools,
  Chain,  \* the buffers of each pool, in the order of their addresses
  MaxDrift,  \* bound: the counter is not followed below -MaxDrift
  NULL,   \* no buffer
  Text    \* a first word that holds part of a message

Bufs == UNION {Range(Chain[p]) : p \in Pools}

\* InitDataBuf is called with constants that are not 0, and each pool has
\* memory of its own.
ASSUME DataBufAssumption ==
  /\ IsFiniteSet(Pools)
  /\ \A p \in Pools : /\ Chain[p] \in Seq(Bufs) \ {<<>>}
                      /\ IsInjective(Chain[p])
  /\ \A p, q \in Pools : p # q => Range(Chain[p]) \cap Range(Chain[q]) = {}
  /\ NULL \notin Bufs /\ Text \notin Bufs /\ NULL # Text
  /\ MaxDrift \in Nat

VARIABLES
  HeadPtr, TailPtr, FreeNum,  \* of each pool
  link,     \* the first word of each buffer
  signaled, \* the event behind semIdForDataBuf
  task,     \* [at, pool, ptr] of each task
  inUse     \* the buffers that were handed out and not yet given back

listVars == <<HeadPtr, TailPtr, FreeNum, link>>
vars == <<listVars, signaled, task, inUse>>

Idle == [at |-> "idle", pool |-> NULL, ptr |-> NULL]

Init ==
  /\ HeadPtr = [p \in Pools |-> Chain[p][1]]
  /\ TailPtr = [p \in Pools |-> Chain[p][Len(Chain[p])]]
  /\ FreeNum = [p \in Pools |-> Len(Chain[p])]
  /\ link = [b \in Bufs |->
       LET p == CHOOSE q \in Pools : b \in Range(Chain[q])
           i == CHOOSE j \in DOMAIN Chain[p] : Chain[p][j] = b
       IN  IF i < Len(Chain[p]) THEN Chain[p][i + 1] ELSE NULL]
  /\ signaled = TRUE
  /\ task = [t \in Tasks |-> Idle]
  /\ inUse = {}

Goto(t, at) == task' = [task EXCEPT ![t].at = at]
PoolOf(b) == CHOOSE p \in Pools : b \in Range(Chain[p])

-----------------------------------------------------------------------------
(* The semaphore.  The event has no owner and no count: setting it while   *)
(* it is set does nothing.                                                 *)

semTake == signaled /\ signaled' = FALSE
semGive == signaled' = TRUE

-----------------------------------------------------------------------------
(* GetDataBuf.                                                             *)

\* With an empty list the call returns NULL at once and changes nothing.
GetDataBuf(t, p) ==
  /\ task[t].at = "idle"
  /\ HeadPtr[p] # NULL
  /\ task' = [task EXCEPT ![t] = [at |-> "take", pool |-> p, ptr |-> NULL]]
  /\ UNCHANGED <<listVars, signaled, inUse>>

GetLocked(t) ==
  /\ task[t].at = "take"
  /\ semTake /\ Goto(t, "read")
  /\ UNCHANGED <<listVars, inUse>>

\* A bug: the result of semTake is not looked at.
FaultGetRefused(t) ==
  /\ task[t].at = "take" /\ ~signaled
  /\ Goto(t, "read")
  /\ UNCHANGED <<listVars, signaled, inUse>>

\* NO_WAIT: the call reports the failure and returns NULL.
GetRefused(t) ==
  /\ task[t].at = "take" /\ ~signaled
  /\ task' = [task EXCEPT ![t] = Idle]
  /\ UNCHANGED <<listVars, signaled, inUse>>

GetRead(t) ==
  /\ task[t].at = "read"
  /\ LET p == task[t].pool IN
     task' = [task EXCEPT ![t] = [at |-> "unlink", pool |-> p, ptr |-> HeadPtr[p]]]
  /\ UNCHANGED <<listVars, signaled, inUse>>

OneLess(n) == IF n > -MaxDrift THEN n - 1 ELSE n

\* A bug: taking the last buffer is not counted.
FaultGetUnlink(t) ==
  LET p == task[t].pool
      only == HeadPtr[p] = TailPtr[p]
  IN
  /\ task[t].at = "unlink"
  /\ HeadPtr' = [HeadPtr EXCEPT ![p] = IF only THEN NULL ELSE link[@]]
  /\ TailPtr' = [TailPtr EXCEPT ![p] = IF only THEN NULL ELSE @]
  /\ FreeNum' = [FreeNum EXCEPT ![p] = IF only THEN @ ELSE OneLess(@)]
  /\ inUse' = inUse \cup ({task[t].ptr} \ {NULL})
  /\ Goto(t, "give")
  /\ UNCHANGED <<link, signaled>>

\* The list may have been emptied since the first look: then both pointers
\* are NULL, hence equal, and the caller gets NULL, but is counted.
GetUnlink(t) ==
  LET p == task[t].pool
      only == HeadPtr[p] = TailPtr[p]
  IN
  /\ task[t].at = "unlink"
  /\ HeadPtr' = [HeadPtr EXCEPT ![p] = IF only THEN NULL ELSE link[@]]
  /\ TailPtr' = [TailPtr EXCEPT ![p] = IF only THEN NULL ELSE @]
  /\ FreeNum' = [FreeNum EXCEPT ![p] = OneLess(@)]
  /\ inUse' = inUse \cup ({task[t].ptr} \ {NULL})
  /\ Goto(t, "give")
  /\ UNCHANGED <<link, signaled>>

\* A bug: the way out with nothing in hand forgets semGive.
FaultGive(t) ==
  /\ task[t].at = "give"
  /\ IF task[t].ptr = NULL THEN UNCHANGED signaled ELSE semGive
  /\ task' = [task EXCEPT ![t] = Idle]
  /\ UNCHANGED <<listVars, inUse>>

Give(t) ==
  /\ task[t].at = "give"
  /\ semGive
  /\ task' = [task EXCEPT ![t] = Idle]
  /\ UNCHANGED <<listVars, inUse>>

-----------------------------------------------------------------------------
(* The callers.  A buffer goes from task to task through pipes; whoever has *)
(* it writes into it and gives it back.                                    *)

Fill(b) ==
  /\ b \in inUse
  /\ link' = [link EXCEPT ![b] = Text]
  /\ UNCHANGED <<HeadPtr, TailPtr, FreeNum, signaled, task, inUse>>

-----------------------------------------------------------------------------
(* PutDataBuf.                                                             *)

PutDataBuf(t, b) ==
  /\ task[t].at = "idle" /\ b \in inUse
  /\ task' = [task EXCEPT ![t] = [at |-> "wait", pool |-> PoolOf(b), ptr |-> b]]
  /\ inUse' = inUse \ {b}
  /\ UNCHANGED <<listVars, signaled>>

PutLocked(t) ==
  /\ task[t].at = "wait"
  /\ semTake /\ Goto(t, "append")
  /\ UNCHANGED <<listVars, inUse>>

\* A bug: the end is moved before the old end is linked to the new one.
FaultPutAppend(t) ==
  LET p == task[t].pool
      b == task[t].ptr
  IN
  /\ task[t].at = "append"
  /\ IF HeadPtr[p] = NULL
       THEN /\ HeadPtr' = [HeadPtr EXCEPT ![p] = b]
            /\ UNCHANGED link
       ELSE /\ link' = [link EXCEPT ![b] = b]
            /\ UNCHANGED HeadPtr
  /\ TailPtr' = [TailPtr EXCEPT ![p] = b]
  /\ Goto(t, "end")
  /\ UNCHANGED <<FreeNum, signaled, inUse>>

PutAppend(t) ==
  LET p == task[t].pool
      b == task[t].ptr
  IN
  /\ task[t].at = "append"
  /\ IF HeadPtr[p] = NULL
       THEN /\ HeadPtr' = [HeadPtr EXCEPT ![p] = b]
            /\ UNCHANGED link
       ELSE /\ link' = [link EXCEPT ![TailPtr[p]] = b]
            /\ UNCHANGED HeadPtr
  /\ TailPtr' = [TailPtr EXCEPT ![p] = b]
  /\ Goto(t, "end")
  /\ UNCHANGED <<FreeNum, signaled, inUse>>

\* A bug: the new end keeps what the message left in its first word.
FaultPutEnd(t) ==
  /\ task[t].at = "end"
  /\ FreeNum' = [FreeNum EXCEPT ![task[t].pool] = @ + 1]
  /\ Goto(t, "give")
  /\ UNCHANGED <<HeadPtr, TailPtr, link, signaled, inUse>>

PutEnd(t) ==
  /\ task[t].at = "end"
  /\ link' = [link EXCEPT ![task[t].ptr] = NULL]
  /\ FreeNum' = [FreeNum EXCEPT ![task[t].pool] = @ + 1]
  /\ Goto(t, "give")
  /\ UNCHANGED <<HeadPtr, TailPtr, signaled, inUse>>

-----------------------------------------------------------------------------
Step(t) ==
  \/ GetLocked(t) \/ GetRefused(t) \/ GetRead(t) \/ GetUnlink(t)
  \/ PutAppend(t) \/ PutEnd(t) \/ Give(t)

Call(t) ==
  \/ \E p \in Pools : GetDataBuf(t, p)
  \/ \E b \in Bufs : PutDataBuf(t, b)

Next ==
  \/ \E t \in Tasks : Call(t) \/ Step(t) \/ PutLocked(t)
  \/ \E b \in Bufs : Fill(b)

Spec == Init /\ [][Next]_vars

\* A task inside a call is scheduled; Windows grants an event to a thread that
\* waits for it when it is set again and again.
Fairness ==
  \A t \in Tasks : WF_vars(Step(t)) /\ SF_vars(PutLocked(t))

FairSpec == Spec /\ Fairness

-----------------------------------------------------------------------------
(* The free list as the code would walk it.                                *)

\* The node n links behind the head; the walk stops behind the end.
Node(p) ==
  LET node[n \in 0 .. Cardinality(Bufs)] ==
        IF n = 0 THEN HeadPtr[p]
        ELSE IF node[n - 1] \notin Bufs \/ node[n - 1] = TailPtr[p] THEN NULL
        ELSE link[node[n - 1]]
  IN  node

OnList(p) == Range(Node(p)) \ {NULL}

TypeOK ==
  /\ HeadPtr \in [Pools -> Bufs \cup {NULL}]
  /\ TailPtr \in [Pools -> Bufs \cup {NULL}]
  /\ FreeNum \in [Pools -> Int]
  /\ link \in [Bufs -> Bufs \cup {NULL, Text}]
  /\ signaled \in BOOLEAN
  /\ task \in [Tasks ->
       [at : {"idle", "take", "read", "unlink", "wait", "append", "end", "give"},
        pool : Pools \cup {NULL}, ptr : Bufs \cup {NULL}]]
  /\ inUse \subseteq Bufs

Inside(t) == task[t].at \in {"read", "unlink", "append", "end", "give"}

\* The semaphore keeps the lists to one task at a time, although its event has
\* no owner and a GetDataBuf does not wait for it (GetDataBuf, PutDataBuf).
OneInside ==
  \A t, u \in Tasks : Inside(t) => ~signaled /\ (Inside(u) => t = u)

\* Whenever the semaphore is free, each list is made of buffers of its own pool
\* only, ends where TailPtr says and at a zero link, and is empty for both
\* pointers alike, whatever the tasks wrote into the buffers they had.
ListSound ==
  signaled => \A p \in Pools :
    /\ OnList(p) \subseteq Range(Chain[p])
    /\ IF HeadPtr[p] = NULL THEN TailPtr[p] = NULL
       ELSE TailPtr[p] \in OnList(p) /\ link[TailPtr[p]] = NULL

\* The counter printed as the number of free nodes may fall behind, since a get
\* that found nothing is counted (GetDataBuf), but never promises more buffers
\* than the list has.
FreeNumNotAbove ==
  signaled => \A p \in Pools : FreeNum[p] <= Cardinality(OnList(p))

\* The list implements a pool of buffers: it hands out no buffer that a task
\* still has, and loses none, whatever races with the first look at HeadPtr.
Ptrs(at) == {task[t].ptr : t \in {u \in Tasks : task[u].at \in at}}

Pool == INSTANCE BufPool WITH
  free <- (UNION {OnList(p) : p \in Pools}) \ Ptrs({"end"}),
  used <- inUse \cup Ptrs({"wait", "append", "end"})

ImplementsPool == Pool!PoolSpec

\* A buffer is given back in the end: PutDataBuf waits without a timeout and
\* every way out of GetDataBuf and PutDataBuf gives the semaphore back.
PutReturns ==
  \A t \in Tasks : (task[t].at = "wait") ~> (task[t].at = "idle")

=============================================================================
