--------------------------- MODULE DataBufProofs ----------------------------
(***************************************************************************)
(* The semaphore of the buffer pools keeps to one task inside, for every   *)
(* set of tasks, pools and buffers.  The invariant is inductive with the   *)
(* fact that task is a function: a task that gives the semaphore back is   *)
(* the only one inside, and the event is set just then.                    *)
(*                                                                         *)
(* The lists are sound and implement a pool.  They are chains of links, so *)
(* that what a walk meets is no formula over the state; the inductive      *)
(* invariant (Good) numbers the buffers of each list in the order in which *)
(* they were put, and says that there are such numbers.  Every step keeps  *)
(* them: a get takes the lowest, a put adds one above the highest.  A walk *)
(* from HeadPtr meets what is numbered (Walk, by descent on the number).   *)
(***************************************************************************)
EXTENDS DataBuf, FiniteSetTheorems, WellFoundedInduction, TLAPS

\* The tasks are records with the fields that Init gives them.
Places ==
  /\ DOMAIN task = Tasks /\ signaled \in BOOLEAN
  /\ \A t \in Tasks :
       task[t] = [at |-> task[t].at, pool |-> task[t].pool, ptr |-> task[t].ptr]

IsFun == task = [t \in Tasks |-> task[t]]

\* The inductive invariant.
IInv == IsFun /\ Places /\ OneInside

\* Where the tasks are after a step of t, when it is inside before or takes the
\* semaphore, and when it stays outside.
LEMMA MoveKeeps ==
  ASSUME IInv, NEW t \in Tasks, NEW new,
         new = [at |-> new.at, pool |-> new.pool, ptr |-> new.ptr],
         task' = [task EXCEPT ![t] = new],
         \/ /\ signaled' = signaled
            /\ new.at \in {"read", "unlink", "append", "end", "give"} <=> Inside(t)
         \/ /\ signaled /\ signaled' = FALSE
         \/ /\ Inside(t) /\ signaled' = TRUE /\ new.at = "idle"
  PROVE  IInv'
<1>1. IsFun' /\ Places'
  BY DEF IInv, IsFun, Places
<1>2. \A u \in Tasks : u # t => task'[u] = task[u]
  BY DEF IInv, IsFun
<1>3. task'[t] = new
  BY DEF IInv, IsFun
<1>4. OneInside'
  BY <1>2, <1>3 DEF IInv, OneInside, Inside, Places
<1>. QED  BY <1>1, <1>4 DEF IInv

\* A step that concerns neither the tasks nor the event.
LEMMA StayKeeps == ASSUME IInv, task' = task, signaled' = signaled PROVE IInv'
  BY DEF IInv, IsFun, Places, OneInside, Inside

-----------------------------------------------------------------------------
LEMMA InitInv == Init => IInv
<1>. SUFFICES ASSUME Init PROVE IInv
  OBVIOUS
<1>1. task = [t \in Tasks |-> Idle] /\ signaled = TRUE
  BY DEF Init
<1>. QED  BY <1>1 DEF IInv, IsFun, Places, OneInside, Inside, Idle

LEMMA StepInv == IInv /\ [Next]_vars => IInv'
<1>. SUFFICES ASSUME IInv, [Next]_vars PROVE IInv'
  OBVIOUS
<1>0. /\ task = [t \in Tasks |-> task[t]]
      /\ \A t \in Tasks : task[t] = [at |-> task[t].at, pool |-> task[t].pool,
                                     ptr |-> task[t].ptr]
  BY DEF IInv, IsFun, Places
<1>1. ASSUME NEW t \in Tasks, Call(t) \/ Step(t) \/ PutLocked(t) PROVE IInv'
  <2>1. ASSUME NEW p \in Pools, GetDataBuf(t, p) PROVE IInv'
    <3> DEFINE new == [at |-> "take", pool |-> p, ptr |-> NULL]
    <3>1. task' = [task EXCEPT ![t] = new] /\ signaled' = signaled /\ ~Inside(t)
      BY <2>1 DEF GetDataBuf, Inside
    <3>2. new = [at |-> new.at, pool |-> new.pool, ptr |-> new.ptr]
          /\ new.at \notin {"read", "unlink", "append", "end", "give"}
      OBVIOUS
    <3> HIDE DEF new
    <3>. QED  BY <3>1, <3>2, MoveKeeps
  <2>2. ASSUME NEW b \in Bufs, PutDataBuf(t, b) PROVE IInv'
    <3> DEFINE new == [at |-> "wait", pool |-> PoolOf(b), ptr |-> b]
    <3>1. task' = [task EXCEPT ![t] = new] /\ signaled' = signaled /\ ~Inside(t)
      BY <2>2 DEF PutDataBuf, Inside
    <3>2. new = [at |-> new.at, pool |-> new.pool, ptr |-> new.ptr]
          /\ new.at \notin {"read", "unlink", "append", "end", "give"}
      OBVIOUS
    <3> HIDE DEF new
    <3>. QED  BY <3>1, <3>2, MoveKeeps
  <2>3. CASE GetRefused(t)
    <3>1. task' = [task EXCEPT ![t] = Idle] /\ signaled' = signaled /\ ~Inside(t)
      BY <2>3 DEF GetRefused, Inside
    <3>2. Idle = [at |-> Idle.at, pool |-> Idle.pool, ptr |-> Idle.ptr]
          /\ Idle.at \notin {"read", "unlink", "append", "end", "give"}
      BY DEF Idle
    <3>. QED  BY <3>1, <3>2, MoveKeeps
  <2>4. CASE GetLocked(t) \/ PutLocked(t)
    <3>1. PICK at : task' = [task EXCEPT ![t].at = at]
                    /\ signaled /\ signaled' = FALSE
      BY <2>4 DEF GetLocked, PutLocked, semTake, Goto
    <3> DEFINE new == [at |-> at, pool |-> task[t].pool, ptr |-> task[t].ptr]
    <3>2. [task[t] EXCEPT !.at = at] = new
      BY <1>0
    <3>3. task' = [task EXCEPT ![t] = new]
      BY <3>1, <3>2
    <3>4. new = [at |-> new.at, pool |-> new.pool, ptr |-> new.ptr]
      OBVIOUS
    <3> HIDE DEF new
    <3>. QED  BY <3>1, <3>3, <3>4, MoveKeeps
  <2>5. CASE GetRead(t)
    <3> DEFINE new == [at |-> "unlink", pool |-> task[t].pool,
                       ptr |-> HeadPtr[task[t].pool]]
    <3>1. task' = [task EXCEPT ![t] = new] /\ signaled' = signaled /\ Inside(t)
      BY <2>5 DEF GetRead, Inside
    <3>2. new = [at |-> new.at, pool |-> new.pool, ptr |-> new.ptr]
          /\ new.at \in {"read", "unlink", "append", "end", "give"}
      OBVIOUS
    <3> HIDE DEF new
    <3>. QED  BY <3>1, <3>2, MoveKeeps
  <2>6. CASE GetUnlink(t) \/ PutAppend(t) \/ PutEnd(t)
    <3>1. PICK at \in {"end", "give"} : task' = [task EXCEPT ![t].at = at]
      BY <2>6 DEF GetUnlink, PutAppend, PutEnd, Goto
    <3> DEFINE new == [at |-> at, pool |-> task[t].pool, ptr |-> task[t].ptr]
    <3>2. [task[t] EXCEPT !.at = at] = new
      BY <1>0
    <3>3. task' = [task EXCEPT ![t] = new]
      BY <3>1, <3>2
    <3>4. signaled' = signaled /\ Inside(t)
      BY <2>6 DEF GetUnlink, PutAppend, PutEnd, Inside
    <3>5. new = [at |-> new.at, pool |-> new.pool, ptr |-> new.ptr]
          /\ new.at \in {"read", "unlink", "append", "end", "give"}
      OBVIOUS
    <3> HIDE DEF new
    <3>. QED  BY <3>3, <3>4, <3>5, MoveKeeps
  <2>7. CASE Give(t)
    <3>1. task' = [task EXCEPT ![t] = Idle] /\ signaled' = TRUE /\ Inside(t)
      BY <2>7 DEF Give, semGive, Inside
    <3>2. Idle = [at |-> Idle.at, pool |-> Idle.pool, ptr |-> Idle.ptr]
          /\ Idle.at = "idle"
      BY DEF Idle
    <3>. QED  BY <3>1, <3>2, MoveKeeps
  <2>. QED  BY <1>1, <2>1, <2>2, <2>3, <2>4, <2>5, <2>6, <2>7 DEF Call, Step
<1>2. ASSUME NEW b \in Bufs, Fill(b) PROVE IInv'
  BY <1>2, StayKeeps DEF Fill
<1>3. CASE UNCHANGED vars
  BY <1>3, StayKeeps DEF vars
<1>. QED  BY <1>1, <1>2, <1>3 DEF Next

\* One task at a time is inside the lists, although GetDataBuf does not wait for
\* the semaphore and its event has no owner (semTake, semGive).
THEOREM DataBufOneInside == Spec => []OneInside
<1>1. IInv => OneInside
  BY DEF IInv
<1>. QED  BY <1>1, InitInv, StepInv, PTL DEF Spec

-----------------------------------------------------------------------------
(* The lists.  The buffers of a list are numbered in the order in which    *)
(* they were put, and keep their numbers: lo[p] were taken from list p     *)
(* since the start, hi[p] were put, and s[p][i] is the i-th.               *)

Own(p) == Range(Chain[p])
On(lo, hi, s, p) == {s[p][i] : i \in (lo[p] + 1) .. hi[p]}

\* Each list has buffers of its own pool, none twice.
Numbered(lo, hi, s) ==
  /\ lo \in [Pools -> Nat] /\ hi \in [Pools -> Nat] /\ s \in [Pools -> [Nat -> Bufs]]
  /\ \A p \in Pools :
       /\ lo[p] <= hi[p]
       /\ \A i \in (lo[p] + 1) .. hi[p] : s[p][i] \in Own(p)
       /\ \A i, j \in (lo[p] + 1) .. hi[p] : s[p][i] = s[p][j] => i = j

\* The pointers and the links say so.
Linked(lo, hi, s) ==
  \A p \in Pools :
    /\ IF lo[p] = hi[p] THEN HeadPtr[p] = NULL /\ TailPtr[p] = NULL
       ELSE HeadPtr[p] = s[p][lo[p] + 1] /\ TailPtr[p] = s[p][hi[p]]
    /\ \A i \in (lo[p] + 1) .. hi[p] : i < hi[p] => link[s[p][i]] = s[p][i + 1]

LEMMA Pooled ==
  /\ \A p \in Pools : Own(p) \subseteq Bufs /\ IsFiniteSet(Own(p))
  /\ \A p, q \in Pools : p # q => Own(p) \cap Own(q) = {}
  /\ \A b \in Bufs : PoolOf(b) \in Pools /\ b \in Own(PoolOf(b))
  /\ \A p \in Pools : \A b \in Own(p) : PoolOf(b) = p
  /\ NULL \notin Bufs /\ Text \notin Bufs
  /\ IsFiniteSet(Bufs) /\ Cardinality(Bufs) \in Nat
<1>1. ASSUME NEW p \in Pools PROVE Own(p) \subseteq Bufs /\ IsFiniteSet(Own(p))
  <2>1. Own(p) \subseteq Bufs
    BY DEF Own, Bufs
  <2>2. Chain[p] \in Seq(Bufs)
    BY DataBufAssumption
  <2> DEFINE c == Chain[p]
  <2>3. Len(c) \in Nat /\ DOMAIN c = 1 .. Len(c) /\ c \in [1 .. Len(c) -> Bufs]
    BY <2>2
  <2>4. c \in Surjection(1 .. Len(c), Own(p))
    BY <2>3 DEF Surjection, Own, Range
  <2>5. IsFiniteSet(1 .. Len(c))
    BY <2>3, FS_Interval
  <2> HIDE DEF c
  <2>. QED  BY <2>1, <2>4, <2>5, FS_Surjection
<1>2. \A p, q \in Pools : p # q => Own(p) \cap Own(q) = {}
  BY DataBufAssumption DEF Own
<1>3. \A b \in Bufs : PoolOf(b) \in Pools /\ b \in Own(PoolOf(b))
  <2>. SUFFICES ASSUME NEW b \in Bufs PROVE PoolOf(b) \in Pools /\ b \in Own(PoolOf(b))
    OBVIOUS
  <2>1. \E p \in Pools : b \in Range(Chain[p])
    BY DEF Bufs
  <2>. QED  BY <2>1 DEF PoolOf, Own
<1>4. \A p \in Pools : \A b \in Own(p) : PoolOf(b) = p
  BY <1>1, <1>2, <1>3
<1>5. IsFiniteSet(Bufs)
  <2> DEFINE S == {Own(p) : p \in Pools}
             f == [p \in Pools |-> Own(p)]
  <2>1. f \in Surjection(Pools, S)
    BY DEF Surjection
  <2>2. IsFiniteSet(S)
    BY <2>1, DataBufAssumption, FS_Surjection
  <2>3. \A T \in S : IsFiniteSet(T)
    BY <1>1
  <2>4. Bufs = UNION S
    BY DEF Bufs, Own
  <2> HIDE DEF S
  <2>. QED  BY <2>2, <2>3, <2>4, FS_UNION
<1>6. NULL \notin Bufs /\ Text \notin Bufs
  BY DataBufAssumption
<1>. QED  BY <1>1, <1>2, <1>3, <1>4, <1>5, <1>6, FS_CardinalityType

\* A set of numbers has a least one.
LEMMA Smallest == ASSUME NEW S \in SUBSET Nat, S # {} PROVE \E m \in S : \A n \in S : m <= n
<1> DEFINE R == {ss \in Nat \X Nat : ss[1] < ss[2]}
<1>1. IsWellFoundedOn(R, Nat)
  <2>1. R = OpToRel(<, Nat)
    BY DEF OpToRel
  <2>. QED  BY <2>1, NatLessThanWellFounded
<1>2. PICK i \in S : \A j \in S : <<j, i>> \notin R
  BY <1>1, WFMin
<1>3. ASSUME NEW j \in S PROVE i <= j
  <2>1. i \in Nat /\ j \in Nat /\ ~(j < i)
    BY <1>2
  <2>. QED  BY <2>1
<1>. QED  BY <1>3

\* There are as many buffers on a list as its numbers say.
LEMMA OnCount ==
  ASSUME NEW lo, NEW hi, NEW s, Numbered(lo, hi, s), NEW p \in Pools
  PROVE  /\ On(lo, hi, s, p) \subseteq Own(p) /\ NULL \notin On(lo, hi, s, p)
         /\ Cardinality(On(lo, hi, s, p)) = hi[p] - lo[p]
         /\ hi[p] - lo[p] <= Cardinality(Bufs)
<1> DEFINE I == (lo[p] + 1) .. hi[p]
           h == [i \in I |-> s[p][i]]
           S == On(lo, hi, s, p)
<1>1. lo[p] \in Nat /\ hi[p] \in Nat /\ lo[p] <= hi[p]
  BY DEF Numbered
<1>2. S \subseteq Own(p) /\ S \subseteq Bufs /\ NULL \notin S
  <2>1. Own(p) \subseteq Bufs /\ NULL \notin Bufs
    BY Pooled
  <2>2. S \subseteq Own(p)
    BY DEF Numbered, On
  <2>. QED  BY <2>1, <2>2
<1>3. IsFiniteSet(I) /\ Cardinality(I) = hi[p] - lo[p]
  <2> DEFINE a == lo[p] + 1  z == hi[p]
  <2>1. a \in Int /\ z \in Int /\ a <= z + 1 /\ hi[p] - lo[p] = z - a + 1
    BY <1>1
  <2>2. IsFiniteSet(a .. z) /\ Cardinality(a .. z) = IF a > z THEN 0 ELSE z - a + 1
    <3> HIDE DEF a, z
    <3>. QED  BY <2>1, FS_Interval
  <2> HIDE DEF a, z
  <2>3. (IF a > z THEN 0 ELSE z - a + 1) = z - a + 1
    BY <2>1
  <2>. QED  BY <2>1, <2>2, <2>3 DEF a, z
<1>4. h \in Bijection(I, S)
  <2>1. h \in [I -> S] /\ \A i \in I : h[i] = s[p][i]
    BY DEF On
  <2>2. \A i, j \in I : h[i] = h[j] => i = j
    BY DEF Numbered
  <2>3. \A b \in S : \E i \in I : h[i] = b
    BY DEF On
  <2> HIDE DEF h, I, S
  <2>4. h \in Injection(I, S)
    BY <2>1, <2>2 DEF Injection, IsInjective
  <2>5. h \in Surjection(I, S)
    BY <2>1, <2>3 DEF Surjection
  <2>. QED  BY <2>4, <2>5 DEF Bijection
<1>5. IsFiniteSet(S) /\ Cardinality(S) = Cardinality(I)
  BY <1>3, <1>4, FS_Bijection DEF ExistsBijection
<1>6. Cardinality(S) <= Cardinality(Bufs)
  BY <1>2, Pooled, FS_Subset
<1>. QED  BY <1>2, <1>3, <1>5, <1>6

\* What Node(p) is to be.
Follows(p, node) ==
  node = [n \in 0 .. Cardinality(Bufs) |->
            IF n = 0 THEN HeadPtr[p]
            ELSE IF node[n - 1] \notin Bufs \/ node[n - 1] = TailPtr[p] THEN NULL
            ELSE link[node[n - 1]]]

LEMMA NodeFollows == ASSUME NEW p, NEW f, Follows(p, f) PROVE Follows(p, Node(p))
BY DEF Node, Follows

\* A walk along the links meets the buffers in their order and then nothing.
LEMMA Walk ==
  ASSUME NEW lo, NEW hi, NEW s, Numbered(lo, hi, s), Linked(lo, hi, s), NEW p \in Pools
  PROVE  OnList(p) = On(lo, hi, s, p)
<1> DEFINE a == lo[p]  z == hi[p]  K == Cardinality(Bufs)
           f == [n \in 0 .. K |-> IF a + 1 + n <= z THEN s[p][a + 1 + n] ELSE NULL]
<1>1. a \in Nat /\ z \in Nat /\ a <= z /\ K \in Nat
  BY Pooled DEF Numbered
<1>2. \A i \in (a + 1) .. z : s[p][i] \in Bufs
  BY Pooled DEF Numbered
<1>3. \A i, j \in (a + 1) .. z : s[p][i] = s[p][j] => i = j
  BY DEF Numbered
<1>4. /\ a = z => HeadPtr[p] = NULL /\ TailPtr[p] = NULL
      /\ a # z => HeadPtr[p] = s[p][a + 1] /\ TailPtr[p] = s[p][z]
      /\ \A i \in (a + 1) .. z : i < z => link[s[p][i]] = s[p][i + 1]
  BY DEF Linked
<1>5. NULL \notin Bufs
  BY Pooled
<1> HIDE DEF a, z, K
<1>6. ASSUME NEW n \in 0 .. K
      PROVE  f[n] = IF n = 0 THEN HeadPtr[p]
                    ELSE IF f[n - 1] \notin Bufs \/ f[n - 1] = TailPtr[p] THEN NULL
                    ELSE link[f[n - 1]]
  <2>1. CASE n = 0
    BY <1>1, <1>4, <2>1
  <2>2. CASE n # 0 /\ a + n > z
    <3>1. f[n - 1] = NULL /\ f[n] = NULL
      BY <1>1, <2>2
    <3>. QED  BY <1>5, <2>2, <3>1
  <2>3. CASE n # 0 /\ a + n <= z
    <3>1. n - 1 \in 0 .. K /\ a + n \in (a + 1) .. z /\ z \in (a + 1) .. z
      BY <1>1, <2>3
    <3>2. f[n - 1] = s[p][a + n] /\ f[n - 1] \in Bufs
      BY <1>1, <1>2, <2>3, <3>1
    <3>3. a # z
      BY <1>1, <2>3
    <3>4. CASE a + n = z
      <4>1. f[n] = NULL
        BY <1>1, <2>3, <3>4
      <4>2. f[n - 1] = TailPtr[p]
        <5>1. TailPtr[p] = s[p][z]
          BY <1>4, <3>3
        <5>. QED  BY <3>2, <3>4, <5>1
      <4>. HIDE DEF f
      <4>. QED  BY <2>3, <4>1, <4>2
    <3>5. CASE a + n # z
      <4>1. f[n - 1] # TailPtr[p]
        BY <1>3, <1>4, <3>1, <3>2, <3>3, <3>5
      <4>2. link[f[n - 1]] = s[p][a + n + 1]
        BY <1>1, <1>4, <2>3, <3>1, <3>2, <3>5
      <4>3. f[n] = s[p][a + n + 1]
        BY <1>1, <2>3, <3>5
      <4>. QED  BY <2>3, <3>2, <4>1, <4>2, <4>3
    <3>. QED  BY <3>4, <3>5
  <2>. QED  BY <1>1, <2>1, <2>2, <2>3
<1>7. Follows(p, f)
  BY <1>6 DEF Follows, K
<1>8. ASSUME NEW g, Follows(p, g) PROVE g = f
  <2>1. /\ DOMAIN g = 0 .. K /\ g = [n \in 0 .. K |-> g[n]]
        /\ \A n \in 0 .. K :
             g[n] = IF n = 0 THEN HeadPtr[p]
                    ELSE IF g[n - 1] \notin Bufs \/ g[n - 1] = TailPtr[p] THEN NULL
                    ELSE link[g[n - 1]]
    BY <1>8 DEF Follows, K
  <2> DEFINE bad == {n \in 0 .. K : g[n] # f[n]}
  <2>2. ASSUME bad # {} PROVE FALSE
    <3>0. bad \in SUBSET Nat
      BY <1>1
    <3>1. PICK m \in bad : \A n \in bad : m <= n
      <4> HIDE DEF bad
      <4>. QED  BY <2>2, <3>0, Smallest
    <3>2. m \in 0 .. K /\ g[m] # f[m]
      OBVIOUS
    <3> HIDE DEF f
    <3>3. CASE m = 0
      BY <1>6, <2>1, <3>2, <3>3
    <3>4. CASE m # 0
      <4>1. m - 1 \in 0 .. K /\ m - 1 \notin bad
        BY <1>1, <3>1, <3>2, <3>4
      <4>2. g[m - 1] = f[m - 1]
        BY <4>1
      <4>. QED  BY <1>6, <2>1, <3>2, <3>4, <4>2
    <3>. QED  BY <3>3, <3>4
  <2>. QED  BY <2>1, <2>2
<1>9. Node(p) = f
  BY <1>7, <1>8, NodeFollows
<1>10. z - a <= K
  BY OnCount DEF z, a, K
<1>11. ASSUME NEW b \in Range(f) \ {NULL} PROVE b \in On(lo, hi, s, p)
  <2>1. PICK n \in 0 .. K : b = f[n]
    BY DEF Range
  <2>2. a + 1 + n \in (a + 1) .. z /\ b = s[p][a + 1 + n]
    BY <1>1, <2>1
  <2>. QED  BY <2>2 DEF On, a, z
<1>12. ASSUME NEW b \in On(lo, hi, s, p) PROVE b \in Range(f) \ {NULL}
  <2>1. PICK i \in (a + 1) .. z : b = s[p][i]
    BY DEF On, a, z
  <2>2. i - a - 1 \in 0 .. K /\ a + 1 + (i - a - 1) = i /\ i <= z
    BY <1>1, <1>10
  <2>3. f[i - a - 1] = b
    BY <2>1, <2>2
  <2>. QED  BY <1>2, <1>5, <2>1, <2>2, <2>3 DEF Range
<1>. QED  BY <1>9, <1>11, <1>12 DEF OnList

-----------------------------------------------------------------------------
(* The buffers.  One that is not on a list belongs to somebody: a client,  *)
(* or the task that is about to put it back.                               *)

Listed(lo, hi, s) == UNION {On(lo, hi, s, p) : p \in Pools}

\* What a task at r has to do with the lists, of which the heads are H and the
\* counters F, and with the buffers U that clients have.
PlacedAt(r, lo, hi, s, H, F, U) ==
  /\ r.at \in {"take", "read", "unlink", "wait", "append", "end"} => r.pool \in Pools
  /\ r.at = "unlink" => r.ptr = H[r.pool]
  /\ r.at \in {"wait", "append", "end"} => r.ptr \in Own(r.pool)
  /\ r.at \in {"wait", "append"} => r.ptr \notin U /\ r.ptr \notin Listed(lo, hi, s)
  /\ r.at = "end" => /\ lo[r.pool] < hi[r.pool] /\ r.ptr = s[r.pool][hi[r.pool]]
                     /\ F[r.pool] < hi[r.pool] - lo[r.pool]

Placed(lo, hi, s) ==
  \A t \in Tasks : PlacedAt(task[t], lo, hi, s, HeadPtr, FreeNum, inUse)

\* No two tasks put the same buffer.
Putting(r) == r.at \in {"wait", "append"}
Apart == \A t, u \in Tasks : Putting(task[t]) /\ Putting(task[u]) /\ task[t].ptr = task[u].ptr => t = u

\* The last link of a list is zero, but for the task that is just to write it.
Ended(lo, hi, s) ==
  \A p \in Pools : lo[p] < hi[p] =>
    \/ link[s[p][hi[p]]] = NULL
    \/ \E t \in Tasks : task[t].at = "end" /\ task[t].pool = p

Counted(lo, hi) == \A p \in Pools : FreeNum[p] <= hi[p] - lo[p]

ListTypes ==
  /\ HeadPtr \in [Pools -> Bufs \cup {NULL}] /\ TailPtr \in [Pools -> Bufs \cup {NULL}]
  /\ FreeNum \in [Pools -> Int] /\ link \in [Bufs -> Bufs \cup {NULL, Text}]
  /\ inUse \subseteq Bufs

\* The inductive invariant of the lists: there is such a numbering.
Good(lo, hi, s) ==
  /\ ListTypes /\ Numbered(lo, hi, s) /\ Linked(lo, hi, s) /\ Ended(lo, hi, s)
  /\ Placed(lo, hi, s) /\ Apart /\ Counted(lo, hi)
  /\ inUse \cap Listed(lo, hi, s) = {}

\* The pool as BufPool sees it.
Free(lo, hi, s) == Listed(lo, hi, s) \ Ptrs({"end"})
Used == inUse \cup Ptrs({"wait", "append", "end"})

\* A step from one numbering to the next: nothing happens to the pool, or a
\* buffer is got or put.
Moves(lo, hi, s, lo1, hi1, s1) ==
  \/ Free(lo1, hi1, s1)' = Free(lo, hi, s) /\ Used' = Used
  \/ \E b \in Bufs :
       \/ /\ b \in Free(lo, hi, s) /\ Free(lo1, hi1, s1)' = Free(lo, hi, s) \ {b}
          /\ Used' = Used \cup {b}
       \/ /\ b \in Used /\ Used' = Used \ {b}
          /\ Free(lo1, hi1, s1)' = Free(lo, hi, s) \cup {b}

LEMMA TaskMoves ==
  ASSUME IInv, NEW t \in Tasks, NEW r, task' = [task EXCEPT ![t] = r]
  PROVE  task'[t] = r /\ \A u \in Tasks : u # t => task'[u] = task[u]
BY DEF IInv, IsFun

\* A task goes on from where it is to r, and the lists stay as they are, though a
\* counter may fall.  If the task puts a buffer, it did so before or has it from a
\* client.
LEMMA QuietGood ==
  ASSUME IInv, NEW lo, NEW hi, NEW s, Good(lo, hi, s), NEW t \in Tasks, NEW r,
         task' = [task EXCEPT ![t] = r], UNCHANGED <<HeadPtr, TailPtr, link>>,
         inUse' \subseteq inUse,
         FreeNum' \in [Pools -> Int], \A p \in Pools : FreeNum'[p] <= FreeNum[p],
         PlacedAt(r, lo, hi, s, HeadPtr, FreeNum', inUse'),
         task[t].at # "end",
         Putting(r) => r.ptr \in inUse \/ (Putting(task[t]) /\ r.ptr = task[t].ptr)
  PROVE  Good(lo, hi, s)'
<1>1. task'[t] = r /\ \A u \in Tasks : u # t => task'[u] = task[u]
  BY TaskMoves
<1>2. UNCHANGED <<HeadPtr, TailPtr, link>>
  OBVIOUS
<1>3. ListTypes' /\ Numbered(lo, hi, s)' /\ Linked(lo, hi, s)' /\ Counted(lo, hi)'
  <2>1. ListTypes' /\ Numbered(lo, hi, s)' /\ Linked(lo, hi, s)'
    BY <1>2 DEF Good, ListTypes, Numbered, Linked, Own
  <2>2. ASSUME NEW p \in Pools PROVE FreeNum'[p] <= hi[p] - lo[p]
    <3>1. FreeNum[p] \in Int /\ FreeNum'[p] \in Int /\ lo[p] \in Nat /\ hi[p] \in Nat
      BY DEF Good, ListTypes, Numbered
    <3>. QED  BY <3>1 DEF Good, Counted
  <2>. QED  BY <2>1, <2>2 DEF Counted
<1>4. Ended(lo, hi, s)'
  BY <1>1, <1>2 DEF Good, Ended
<1>5. Placed(lo, hi, s)'
  <2>. SUFFICES ASSUME NEW u \in Tasks
                PROVE  PlacedAt(task'[u], lo, hi, s, HeadPtr, FreeNum', inUse')
    BY <1>2 DEF Placed, PlacedAt, Listed, On, Own
  <2>1. CASE u = t
    BY <1>1, <2>1
  <2>2. CASE u # t
    <3>1. PlacedAt(task[u], lo, hi, s, HeadPtr, FreeNum, inUse)
      BY DEF Good, Placed
    <3>2. ASSUME NEW p \in Pools, FreeNum[p] < hi[p] - lo[p] PROVE FreeNum'[p] < hi[p] - lo[p]
      <4>1. FreeNum[p] \in Int /\ FreeNum'[p] \in Int /\ lo[p] \in Nat /\ hi[p] \in Nat
        BY DEF Good, ListTypes, Numbered
      <4>. QED  BY <3>2, <4>1
    <3>. QED  BY <1>1, <2>2, <3>1, <3>2 DEF PlacedAt
  <2>. QED  BY <2>1, <2>2
<1>6. Apart'
  <2>1. ASSUME NEW u \in Tasks, u # t, Putting(task[u]), Putting(r) PROVE task[u].ptr # r.ptr
    <3>1. task[u].ptr \notin inUse
      BY <2>1 DEF Good, Placed, PlacedAt, Putting
    <3>. QED  BY <2>1, <3>1 DEF Good, Apart
  <2>. QED  BY <1>1, <2>1 DEF Good, Apart, Putting
<1>7. (inUse \cap Listed(lo, hi, s) = {})'
  BY DEF Good, Listed, On
<1>. QED  BY <1>3, <1>4, <1>5, <1>6, <1>7 DEF Good

\* Who is inside is alone there.
LEMMA Alone ==
  ASSUME IInv, NEW t \in Tasks, Inside(t)
  PROVE  \A u \in Tasks : u # t => task[u].at \notin {"read", "unlink", "append", "end", "give"}
BY DEF IInv, OneInside, Inside

\* The buffers in the hands of the other tasks that are at A, and of task t.
Others(t, A) == {task[u].ptr : u \in {v \in Tasks \ {t} : task[v].at \in A}}
Hand(r, A) == IF r.at \in A THEN {r.ptr} ELSE {}

LEMMA PtrsMove ==
  ASSUME IInv, NEW t \in Tasks, NEW r, task' = [task EXCEPT ![t] = r], NEW A
  PROVE  /\ Ptrs(A) = Others(t, A) \cup Hand(task[t], A)
         /\ Ptrs(A)' = Others(t, A) \cup Hand(r, A)
<1>1. task'[t] = r /\ \A u \in Tasks : u # t => task'[u] = task[u]
  BY TaskMoves
<1>2. Ptrs(A) = Others(t, A) \cup Hand(task[t], A)
  BY DEF Ptrs, Others, Hand
<1>3. Ptrs(A)' = Others(t, A) \cup Hand(r, A)
  <2>1. Ptrs(A)' = {task'[u].ptr : u \in {v \in Tasks : task'[v].at \in A}}
    BY DEF Ptrs
  <2>2. ASSUME NEW b \in Ptrs(A)' PROVE b \in Others(t, A) \cup Hand(r, A)
    <3>1. PICK u \in Tasks : task'[u].at \in A /\ b = task'[u].ptr
      BY <2>1, <2>2
    <3>. QED  BY <1>1, <3>1 DEF Others, Hand
  <2>3. ASSUME NEW b \in Others(t, A) PROVE b \in Ptrs(A)'
    <3>1. PICK u \in Tasks \ {t} : task[u].at \in A /\ b = task[u].ptr
      BY <2>3 DEF Others
    <3>. QED  BY <1>1, <2>1, <3>1
  <2>4. ASSUME NEW b \in Hand(r, A) PROVE b \in Ptrs(A)'
    <3>1. task'[t].at \in A /\ b = task'[t].ptr
      BY <1>1, <2>4 DEF Hand
    <3>. QED  BY <2>1, <3>1
  <2>. QED  BY <2>2, <2>3, <2>4
<1>. QED  BY <1>2, <1>3

\* Such a step does nothing to the pool.
LEMMA QuietMoves ==
  ASSUME IInv, NEW lo, NEW hi, NEW s, NEW t \in Tasks, NEW r,
         task' = [task EXCEPT ![t] = r], task[t].at # "end", r.at # "end",
         \/ inUse' = inUse /\ ~Putting(task[t]) /\ ~Putting(r)
         \/ inUse' = inUse /\ Putting(task[t]) /\ Putting(r) /\ r.ptr = task[t].ptr
         \/ /\ r.ptr \in inUse /\ inUse' = inUse \ {r.ptr}
            /\ ~Putting(task[t]) /\ Putting(r)
  PROVE  Moves(lo, hi, s, lo, hi, s)
<1>1. /\ Ptrs({"end"})' = Ptrs({"end"})
      /\ Ptrs({"wait", "append", "end"}) =
           Others(t, {"wait", "append", "end"}) \cup (IF Putting(task[t]) THEN {task[t].ptr} ELSE {})
      /\ Ptrs({"wait", "append", "end"})' =
           Others(t, {"wait", "append", "end"}) \cup (IF Putting(r) THEN {r.ptr} ELSE {})
  <2>1. ASSUME NEW A
        PROVE  /\ Ptrs(A) = Others(t, A) \cup Hand(task[t], A)
               /\ Ptrs(A)' = Others(t, A) \cup Hand(r, A)
    BY PtrsMove
  <2>2. /\ Hand(task[t], {"end"}) = {} /\ Hand(r, {"end"}) = {}
        /\ Hand(task[t], {"wait", "append", "end"}) = IF Putting(task[t]) THEN {task[t].ptr} ELSE {}
        /\ Hand(r, {"wait", "append", "end"}) = IF Putting(r) THEN {r.ptr} ELSE {}
    BY DEF Hand, Putting
  <2>. QED  BY <2>1, <2>2
<1>2. Used' = Used
  BY <1>1 DEF Used
<1>3. Free(lo, hi, s)' = Free(lo, hi, s)
  BY <1>1 DEF Free, Listed, On
<1>. QED  BY <1>2, <1>3 DEF Moves

\* What each step is to do.
Keeps(lo, hi, s) ==
  \E lo1, hi1, s1 : Good(lo1, hi1, s1)' /\ Moves(lo, hi, s, lo1, hi1, s1)

\* The calls begin and end, and wait for the semaphore.
LEMMA CallKeeps ==
  ASSUME IInv, NEW lo, NEW hi, NEW s, Good(lo, hi, s), NEW t \in Tasks,
         Call(t) \/ GetLocked(t) \/ GetRefused(t) \/ GetRead(t) \/ Give(t) \/ PutLocked(t)
  PROVE  Keeps(lo, hi, s)
<1>0. /\ task[t] = [at |-> task[t].at, pool |-> task[t].pool, ptr |-> task[t].ptr]
      /\ PlacedAt(task[t], lo, hi, s, HeadPtr, FreeNum, inUse)
      /\ \A b \in Bufs : PoolOf(b) \in Pools /\ b \in Own(PoolOf(b))
      /\ inUse \subseteq Bufs /\ inUse \cap Listed(lo, hi, s) = {}
  BY Pooled DEF IInv, Places, Good, Placed, ListTypes
<1>1. ASSUME NEW r, task' = [task EXCEPT ![t] = r], UNCHANGED listVars, inUse' = inUse,
             PlacedAt(r, lo, hi, s, HeadPtr, FreeNum, inUse),
             task[t].at # "end", r.at # "end",
             Putting(r) <=> Putting(task[t]), Putting(r) => r.ptr = task[t].ptr
      PROVE  Keeps(lo, hi, s)
  <2>1. Good(lo, hi, s)'
    <3>1. /\ UNCHANGED <<HeadPtr, TailPtr, link>> /\ FreeNum' = FreeNum
          /\ FreeNum' \in [Pools -> Int] /\ \A p \in Pools : FreeNum'[p] <= FreeNum[p]
      BY <1>1 DEF listVars, Good, ListTypes
    <3>2. PlacedAt(r, lo, hi, s, HeadPtr, FreeNum', inUse') /\ inUse' \subseteq inUse
      BY <1>1, <3>1
    <3>3. Putting(r) => r.ptr \in inUse \/ (Putting(task[t]) /\ r.ptr = task[t].ptr)
      BY <1>1
    <3>. QED  BY <1>1, <3>1, <3>2, <3>3, QuietGood
  <2>2. Moves(lo, hi, s, lo, hi, s)
    BY <1>1, QuietMoves
  <2>. QED  BY <2>1, <2>2 DEF Keeps
<1>2. ASSUME NEW p \in Pools, GetDataBuf(t, p) PROVE Keeps(lo, hi, s)
  <2>1. PICK r : r = [at |-> "take", pool |-> p, ptr |-> NULL]
    OBVIOUS
  <2>2. PlacedAt(r, lo, hi, s, HeadPtr, FreeNum, inUse) /\ r.at # "end"
    BY <2>1 DEF PlacedAt
  <2>. QED  BY <1>1, <1>2, <2>1, <2>2 DEF GetDataBuf, Putting
<1>3. ASSUME NEW b \in Bufs, PutDataBuf(t, b) PROVE Keeps(lo, hi, s)
  <2>1. PICK r : r = [at |-> "wait", pool |-> PoolOf(b), ptr |-> b]
    OBVIOUS
  <2>2. /\ task' = [task EXCEPT ![t] = r] /\ UNCHANGED listVars
        /\ r.ptr \in inUse /\ inUse' = inUse \ {r.ptr} /\ task[t].at = "idle"
    BY <1>3, <2>1 DEF PutDataBuf
  <2>3. PlacedAt(r, lo, hi, s, HeadPtr, FreeNum, inUse')
    BY <1>0, <2>1, <2>2 DEF PlacedAt
  <2>4. Putting(r) /\ ~Putting(task[t]) /\ r.at # "end" /\ task[t].at # "end" /\ inUse' \subseteq inUse
    BY <2>1, <2>2 DEF Putting
  <2>5. Good(lo, hi, s)'
    <3>1. Putting(r) => r.ptr \in inUse \/ (Putting(task[t]) /\ r.ptr = task[t].ptr)
      BY <2>2
    <3>2. /\ task' = [task EXCEPT ![t] = r] /\ task[t].at # "end"
          /\ UNCHANGED <<HeadPtr, TailPtr, link>>
      BY <2>2 DEF listVars
    <3>3. /\ FreeNum' = FreeNum
          /\ FreeNum' \in [Pools -> Int] /\ \A p \in Pools : FreeNum'[p] <= FreeNum[p]
      BY <2>2 DEF listVars, Good, ListTypes
    <3>4. PlacedAt(r, lo, hi, s, HeadPtr, FreeNum', inUse')
      BY <2>3, <3>3
    <3>. QED  BY <2>4, <3>1, <3>2, <3>3, <3>4, QuietGood
  <2>6. Moves(lo, hi, s, lo, hi, s)
    BY <2>2, <2>4, QuietMoves
  <2>. QED  BY <2>5, <2>6 DEF Keeps
<1>4. CASE GetRefused(t) \/ Give(t)
  <2>1. task' = [task EXCEPT ![t] = Idle] /\ task[t].at \in {"take", "give"}
        /\ UNCHANGED <<listVars, inUse>>
    BY <1>4 DEF GetRefused, Give
  <2>2. PICK r : r = Idle
    OBVIOUS
  <2>3. PlacedAt(r, lo, hi, s, HeadPtr, FreeNum, inUse) /\ r.at = "idle"
    BY <2>2 DEF PlacedAt, Idle
  <2>. QED  BY <1>1, <2>1, <2>2, <2>3 DEF Putting
<1>5. CASE GetLocked(t) \/ PutLocked(t)
  <2>1. PICK at \in {"read", "append"} :
          /\ task' = [task EXCEPT ![t].at = at]
          /\ at = "read" => task[t].at = "take"
          /\ at = "append" => task[t].at = "wait"
          /\ UNCHANGED <<listVars, inUse>>
    BY <1>5 DEF GetLocked, PutLocked, Goto
  <2>2. PICK r : r = [at |-> at, pool |-> task[t].pool, ptr |-> task[t].ptr]
    OBVIOUS
  <2>3. task' = [task EXCEPT ![t] = r]
    <3>1. [task[t] EXCEPT !.at = at] = r
      BY <1>0, <2>2
    <3>. QED  BY <2>1, <3>1
  <2>4. PlacedAt(r, lo, hi, s, HeadPtr, FreeNum, inUse) /\ r.at # "end"
    BY <1>0, <2>1, <2>2 DEF PlacedAt
  <2>5. (Putting(r) <=> Putting(task[t])) /\ r.ptr = task[t].ptr /\ task[t].at # "end"
    BY <2>1, <2>2 DEF Putting
  <2>. QED  BY <1>1, <2>1, <2>3, <2>4, <2>5
<1>6. CASE GetRead(t)
  <2>1. PICK r : r = [at |-> "unlink", pool |-> task[t].pool, ptr |-> HeadPtr[task[t].pool]]
    OBVIOUS
  <2>2. task' = [task EXCEPT ![t] = r] /\ task[t].at = "read" /\ UNCHANGED <<listVars, inUse>>
    BY <1>6, <2>1 DEF GetRead
  <2>3. PlacedAt(r, lo, hi, s, HeadPtr, FreeNum, inUse) /\ r.at = "unlink"
    BY <1>0, <2>1, <2>2 DEF PlacedAt
  <2>. QED  BY <1>1, <2>2, <2>3 DEF Putting
<1>. QED  BY <1>2, <1>3, <1>4, <1>5, <1>6 DEF Call

\* A client writes into a buffer that is on no list.
LEMMA FillKeeps ==
  ASSUME IInv, NEW lo, NEW hi, NEW s, Good(lo, hi, s), NEW b \in Bufs, Fill(b)
  PROVE  Keeps(lo, hi, s)
<1>1. /\ b \notin Listed(lo, hi, s) /\ link' = [link EXCEPT ![b] = Text]
      /\ UNCHANGED <<HeadPtr, TailPtr, FreeNum, task, inUse>>
  BY DEF Fill, Good
<1>2. \A p \in Pools : \A i \in (lo[p] + 1) .. hi[p] : s[p][i] \in Bufs /\ s[p][i] # b
  <2>. SUFFICES ASSUME NEW p \in Pools, NEW i \in (lo[p] + 1) .. hi[p]
                PROVE  s[p][i] \in Bufs /\ s[p][i] # b
    OBVIOUS
  <2>1. s[p][i] \in Own(p)
    BY DEF Good, Numbered
  <2>2. s[p][i] \in Listed(lo, hi, s)
    BY DEF Listed, On
  <2>. QED  BY <1>1, <2>1, <2>2, Pooled
<1>3. \A p \in Pools : \A i \in (lo[p] + 1) .. hi[p] : link'[s[p][i]] = link[s[p][i]]
  BY <1>1, <1>2 DEF Good, ListTypes
<1>4. ListTypes'
  BY <1>1 DEF Good, ListTypes
<1>5. Numbered(lo, hi, s)' /\ Apart' /\ Counted(lo, hi)' /\ (inUse \cap Listed(lo, hi, s) = {})'
  BY <1>1 DEF Good, Numbered, Apart, Putting, Counted, Listed, On, Own
<1>6. Linked(lo, hi, s)'
  BY <1>1, <1>3 DEF Good, Linked
<1>7. Ended(lo, hi, s)'
  <2>. SUFFICES ASSUME NEW p \in Pools, lo[p] < hi[p] PROVE link'[s[p][hi[p]]] = link[s[p][hi[p]]]
    BY <1>1 DEF Good, Ended
  <2>1. hi[p] \in (lo[p] + 1) .. hi[p]
    BY DEF Good, Numbered
  <2>. QED  BY <1>3, <2>1
<1>8. Placed(lo, hi, s)'
  BY <1>1 DEF Good, Placed, PlacedAt, Listed, On, Own
<1>9. Good(lo, hi, s)'
  BY <1>4, <1>5, <1>6, <1>7, <1>8 DEF Good
<1>10. Free(lo, hi, s)' = Free(lo, hi, s) /\ Used' = Used
  BY <1>1 DEF Free, Used, Listed, On, Ptrs
<1>. QED  BY <1>9, <1>10 DEF Keeps, Moves

\* The end of a list is written: its links are complete and it counts one more.
LEMMA EndKeeps ==
  ASSUME IInv, NEW lo, NEW hi, NEW s, Good(lo, hi, s), NEW t \in Tasks, PutEnd(t)
  PROVE  Keeps(lo, hi, s)
<1>1. PICK p \in Pools : /\ p = task[t].pool /\ lo[p] < hi[p] /\ task[t].ptr = s[p][hi[p]]
                         /\ s[p][hi[p]] \in Own(p) /\ FreeNum[p] < hi[p] - lo[p]
  BY DEF PutEnd, Good, Placed, PlacedAt
<1>2. PICK b \in Bufs : b = s[p][hi[p]]
  BY <1>1, Pooled
<1>3. PICK r : r = [at |-> "give", pool |-> p, ptr |-> b]
  OBVIOUS
<1>4. /\ task[t].at = "end" /\ link' = [link EXCEPT ![b] = NULL]
      /\ FreeNum' = [FreeNum EXCEPT ![p] = @ + 1]
      /\ UNCHANGED <<HeadPtr, TailPtr, inUse>>
  BY <1>1, <1>2 DEF PutEnd
<1>5. task' = [task EXCEPT ![t] = r]
  <2>1. task[t] = [at |-> task[t].at, pool |-> p, ptr |-> b]
    BY <1>1, <1>2 DEF IInv, Places
  <2>2. [task[t] EXCEPT !.at = "give"] = r
    BY <1>3, <2>1
  <2>. QED  BY <2>2 DEF PutEnd, Goto
<1>6. /\ task'[t] = r /\ \A u \in Tasks : u # t => task'[u] = task[u]
      /\ \A u \in Tasks : u # t => task[u].at \notin {"read", "unlink", "append", "end", "give"}
  BY <1>4, <1>5, TaskMoves, Alone DEF Inside
<1>7. /\ lo \in [Pools -> Nat] /\ hi \in [Pools -> Nat]
      /\ \A q \in Pools : \A i \in (lo[q] + 1) .. hi[q] :
           /\ s[q][i] \in Bufs
           /\ s[q][i] = b => q = p /\ i = hi[p]
  <2>1. \A q \in Pools : \A i \in (lo[q] + 1) .. hi[q] : s[q][i] \in Bufs /\ s[q][i] \in Own(q)
    BY Pooled DEF Good, Numbered
  <2>2. \A q \in Pools : q # p => Own(q) \cap Own(p) = {}
    BY Pooled
  <2>3. hi[p] \in (lo[p] + 1) .. hi[p]
    BY <1>1 DEF Good, Numbered
  <2>. QED  BY <1>1, <1>2, <2>1, <2>2, <2>3 DEF Good, Numbered
<1>8. link'[b] = NULL /\ \A c \in Bufs : c # b => link'[c] = link[c]
  BY <1>4 DEF Good, ListTypes
<1>9. ListTypes'
  <2>1. FreeNum[p] + 1 \in Int
    BY DEF Good, ListTypes
  <2>. QED  BY <1>4, <2>1 DEF Good, ListTypes
<1>10. Numbered(lo, hi, s)' /\ (inUse \cap Listed(lo, hi, s) = {})'
  BY <1>4 DEF Good, Numbered, Listed, On, Own
<1>11. Linked(lo, hi, s)'
  <2>1. ASSUME NEW q \in Pools, NEW i \in (lo[q] + 1) .. hi[q], i < hi[q]
        PROVE  link'[s[q][i]] = link[s[q][i]]
    BY <1>7, <1>8, <2>1
  <2>. QED  BY <1>4, <2>1 DEF Good, Linked
<1>12. Ended(lo, hi, s)'
  <2>. SUFFICES ASSUME NEW q \in Pools, lo[q] < hi[q] PROVE link'[s[q][hi[q]]] = NULL
    BY DEF Ended
  <2>1. CASE q = p
    BY <1>2, <1>8, <2>1
  <2>2. CASE q # p
    <3>1. ~ \E u \in Tasks : task[u].at = "end" /\ task[u].pool = q
      BY <1>1, <1>6, <2>2
    <3>2. link[s[q][hi[q]]] = NULL
      BY <3>1 DEF Good, Ended
    <3>3. hi[q] \in (lo[q] + 1) .. hi[q]
      BY <1>7
    <3>. QED  BY <1>7, <1>8, <2>2, <3>2, <3>3
  <2>. QED  BY <2>1, <2>2
<1>13. Placed(lo, hi, s)'
  <2>. SUFFICES ASSUME NEW u \in Tasks
                PROVE  PlacedAt(task'[u], lo, hi, s, HeadPtr, FreeNum', inUse)
    BY <1>4 DEF Placed, PlacedAt, Listed, On, Own
  <2>1. CASE u = t
    BY <1>3, <1>6, <2>1 DEF PlacedAt
  <2>2. CASE u # t
    BY <1>6, <2>2 DEF Good, Placed, PlacedAt
  <2>. QED  BY <2>1, <2>2
<1>14. Apart'
  BY <1>3, <1>6 DEF Good, Apart, Putting
<1>15. Counted(lo, hi)'
  <2>1. ASSUME NEW q \in Pools PROVE FreeNum'[q] <= hi[q] - lo[q]
    <3>1. FreeNum[q] \in Int /\ FreeNum[q] <= hi[q] - lo[q] /\ lo[q] \in Nat /\ hi[q] \in Nat
      BY <1>7 DEF Good, Counted, ListTypes
    <3>2. FreeNum'[q] = IF q = p THEN FreeNum[q] + 1 ELSE FreeNum[q]
      BY <1>4 DEF Good, ListTypes
    <3>. QED  BY <1>1, <3>1, <3>2
  <2>. QED  BY <2>1 DEF Counted
<1>16. Good(lo, hi, s)'
  BY <1>9, <1>10, <1>11, <1>12, <1>13, <1>14, <1>15 DEF Good
<1>17. /\ Ptrs({"end"}) = {b} /\ Ptrs({"end"})' = {}
       /\ Ptrs({"wait", "append", "end"}) = Ptrs({"wait", "append", "end"})' \cup {b}
       /\ b \notin Ptrs({"wait", "append", "end"})'
  <2>1. b \in Listed(lo, hi, s)
    <3>1. hi[p] \in (lo[p] + 1) .. hi[p]
      BY <1>1, <1>7
    <3>. QED  BY <1>2, <3>1 DEF Listed, On
  <2>2. b \notin Others(t, {"wait", "append", "end"}) /\ Others(t, {"end"}) = {}
    BY <1>6, <2>1 DEF Others, Good, Placed, PlacedAt
  <2>3. /\ Hand(task[t], {"end"}) = {b} /\ Hand(r, {"end"}) = {}
        /\ Hand(task[t], {"wait", "append", "end"}) = {b}
        /\ Hand(r, {"wait", "append", "end"}) = {}
    BY <1>1, <1>2, <1>3, <1>4 DEF Hand
  <2>4. ASSUME NEW A
        PROVE  /\ Ptrs(A) = Others(t, A) \cup Hand(task[t], A)
               /\ Ptrs(A)' = Others(t, A) \cup Hand(r, A)
    BY <1>5, PtrsMove
  <2>. QED  BY <2>2, <2>3, <2>4
<1>18. b \in Listed(lo, hi, s) /\ b \notin inUse /\ Listed(lo, hi, s)' = Listed(lo, hi, s)
  <2>1. hi[p] \in (lo[p] + 1) .. hi[p]
    BY <1>1, <1>7
  <2>. QED  BY <1>2, <2>1 DEF Listed, On, Good
<1>19. /\ b \in Used /\ Used' = Used \ {b} /\ Free(lo, hi, s)' = Free(lo, hi, s) \cup {b}
  BY <1>4, <1>17, <1>18 DEF Used, Free
<1>. QED  BY <1>16, <1>19 DEF Keeps, Moves

\* Two numbered buffers differ if their pools or their numbers do.
LEMMA Distinct ==
  ASSUME NEW lo, NEW hi, NEW s, Numbered(lo, hi, s),
         NEW p \in Pools, NEW i \in (lo[p] + 1) .. hi[p],
         NEW q \in Pools, NEW j \in (lo[q] + 1) .. hi[q], s[p][i] = s[q][j]
  PROVE  p = q /\ i = j /\ s[p][i] \in Bufs
<1>1. s[p][i] \in Own(p) /\ s[q][j] \in Own(q)
  BY DEF Numbered
<1>2. p = q /\ s[p][i] \in Bufs
  BY <1>1, Pooled
<1>. QED  BY <1>2 DEF Numbered

\* A buffer is appended: it gets the next number, and its task is left to write
\* its link.
LEMMA AppendKeeps ==
  ASSUME IInv, NEW lo, NEW hi, NEW s, Good(lo, hi, s), NEW t \in Tasks, PutAppend(t)
  PROVE  Keeps(lo, hi, s)
<1>1. PICK p \in Pools : p = task[t].pool
  BY DEF PutAppend, Good, Placed, PlacedAt
<1>2. PICK b \in Bufs : b = task[t].ptr /\ b \in Own(p)
  BY <1>1, Pooled DEF PutAppend, Good, Placed, PlacedAt
<1>3. PICK r : r = [at |-> "end", pool |-> p, ptr |-> b]
  OBVIOUS
<1>4. PICK z \in Nat : z = hi[p]
  BY DEF Good, Numbered
<1>5. PICK hi1 : hi1 = [hi EXCEPT ![p] = z + 1]
  OBVIOUS
<1>6. PICK s1 : s1 = [s EXCEPT ![p] = [s[p] EXCEPT ![z + 1] = b]]
  OBVIOUS
<1>7. /\ task[t].at = "append" /\ b \notin inUse /\ b \notin Listed(lo, hi, s)
      /\ UNCHANGED <<FreeNum, inUse>>
  BY <1>1, <1>2 DEF PutAppend, Good, Placed, PlacedAt
<1>8. /\ lo \in [Pools -> Nat] /\ hi \in [Pools -> Nat] /\ s \in [Pools -> [Nat -> Bufs]]
      /\ \A q \in Pools : lo[q] <= hi[q]
      /\ Numbered(lo, hi, s)
  BY DEF Good, Numbered
<1>p. lo[p] \in Nat /\ hi[p] = z /\ lo[p] <= z
  BY <1>4, <1>8
<1>9. /\ hi1 \in [Pools -> Nat] /\ hi1[p] = z + 1 /\ \A q \in Pools : q # p => hi1[q] = hi[q]
  BY <1>4, <1>5, <1>8
<1>10. /\ s1 \in [Pools -> [Nat -> Bufs]] /\ s1[p][z + 1] = b
       /\ \A i \in Nat : i # z + 1 => s1[p][i] = s[p][i]
       /\ \A q \in Pools : q # p => s1[q] = s[q]
  <2>1. [s[p] EXCEPT ![z + 1] = b] \in [Nat -> Bufs] /\ z + 1 \in Nat
    BY <1>4, <1>8
  <2>. QED  BY <1>6, <1>8, <2>1
<1>11. \A i \in (lo[p] + 1) .. hi[p] : i \in Nat /\ i # z + 1 /\ s[p][i] # b
  BY <1>4, <1>7, <1>8 DEF Listed, On
<1>12. \A i \in (lo[p] + 1) .. hi1[p] : i = z + 1 \/ i \in (lo[p] + 1) .. hi[p]
  BY <1>4, <1>8, <1>9
<1>13. Numbered(lo, hi1, s1)
  <2>1. ASSUME NEW q \in Pools
        PROVE  /\ lo[q] <= hi1[q]
               /\ \A i \in (lo[q] + 1) .. hi1[q] : s1[q][i] \in Own(q)
               /\ \A i, j \in (lo[q] + 1) .. hi1[q] : s1[q][i] = s1[q][j] => i = j
    <3>1. CASE q = p
      <4>1. lo[p] <= hi1[p]
        BY <1>4, <1>8, <1>9
      <4>2. \A i \in (lo[p] + 1) .. hi1[p] : s1[p][i] \in Own(p)
        BY <1>2, <1>10, <1>11, <1>12 DEF Good, Numbered
      <4>3. \A i, j \in (lo[p] + 1) .. hi1[p] : s1[p][i] = s1[p][j] => i = j
        BY <1>10, <1>11, <1>12 DEF Good, Numbered
      <4>. QED  BY <3>1, <4>1, <4>2, <4>3
    <3>2. CASE q # p
      BY <1>9, <1>10, <3>2 DEF Good, Numbered
    <3>. QED  BY <3>1, <3>2
  <2>. QED  BY <1>8, <1>9, <1>10, <2>1 DEF Numbered
<1>14. /\ On(lo, hi1, s1, p) = On(lo, hi, s, p) \cup {b}
       /\ \A q \in Pools : q # p => On(lo, hi1, s1, q) = On(lo, hi, s, q)
  <2>1. ASSUME NEW c \in On(lo, hi1, s1, p) PROVE c \in On(lo, hi, s, p) \cup {b}
    BY <1>10, <1>11, <1>12 DEF On
  <2>2. ASSUME NEW c \in On(lo, hi, s, p) PROVE c \in On(lo, hi1, s1, p)
    <3>1. PICK i \in (lo[p] + 1) .. hi[p] : c = s[p][i]
      BY DEF On
    <3>2. i \in (lo[p] + 1) .. hi1[p]
      BY <1>4, <1>8, <1>9
    <3>. QED  BY <1>10, <1>11, <3>1, <3>2 DEF On
  <2>3. b \in On(lo, hi1, s1, p)
    <3>1. z + 1 \in (lo[p] + 1) .. hi1[p]
      BY <1>4, <1>p, <1>9
    <3>2. s1[p][z + 1] \in On(lo, hi1, s1, p)
      BY <3>1 DEF On
    <3>. QED  BY <1>10, <3>2
  <2>4. \A q \in Pools : q # p => On(lo, hi1, s1, q) = On(lo, hi, s, q)
    BY <1>9, <1>10 DEF On
  <2>. QED  BY <2>1, <2>2, <2>3, <2>4
<1>15. Listed(lo, hi1, s1) = Listed(lo, hi, s) \cup {b}
  BY <1>14 DEF Listed
<1>16. task' = [task EXCEPT ![t] = r]
  <2>1. task[t] = [at |-> task[t].at, pool |-> p, ptr |-> b]
    BY <1>1, <1>2 DEF IInv, Places
  <2>2. [task[t] EXCEPT !.at = "end"] = r
    BY <1>3, <2>1
  <2>. QED  BY <2>2 DEF PutAppend, Goto
<1>17. /\ task'[t] = r /\ \A u \in Tasks : u # t => task'[u] = task[u]
       /\ \A u \in Tasks : u # t => task[u].at \notin {"read", "unlink", "append", "end", "give"}
  BY <1>7, <1>16, TaskMoves, Alone DEF Inside
<1>18. /\ lo[p] = z => HeadPtr[p] = NULL
       /\ lo[p] # z => HeadPtr[p] = s[p][lo[p] + 1] /\ TailPtr[p] = s[p][z] /\ HeadPtr[p] # NULL
                       /\ s[p][z] \in Bufs
  <2>1. lo[p] # z => lo[p] + 1 \in (lo[p] + 1) .. hi[p] /\ z \in (lo[p] + 1) .. hi[p]
    BY <1>4, <1>p
  <2>2. lo[p] # z => s[p][lo[p] + 1] \in Bufs /\ s[p][z] \in Bufs
    BY <1>8, <1>4, <2>1
  <2>. QED  BY <1>4, <2>2, Pooled DEF Good, Linked
<1>19. /\ HeadPtr' = (IF lo[p] = z THEN [HeadPtr EXCEPT ![p] = b] ELSE HeadPtr)
       /\ link' = (IF lo[p] = z THEN link ELSE [link EXCEPT ![s[p][z]] = b])
       /\ TailPtr' = [TailPtr EXCEPT ![p] = b]
  BY <1>1, <1>2, <1>18 DEF PutAppend
<1>20. /\ HeadPtr'[p] = (IF lo[p] = z THEN b ELSE s[p][lo[p] + 1]) /\ TailPtr'[p] = b
       /\ \A q \in Pools : q # p => HeadPtr'[q] = HeadPtr[q] /\ TailPtr'[q] = TailPtr[q]
  BY <1>18, <1>19 DEF Good, ListTypes
<1>21. /\ lo[p] # z => link'[s[p][z]] = b
       /\ \A c \in Bufs : c # s[p][z] \/ lo[p] = z => link'[c] = link[c]
  BY <1>18, <1>19 DEF Good, ListTypes
<1>22. ListTypes'
  BY <1>7, <1>18, <1>19 DEF Good, ListTypes
<1>23. \A q \in Pools : q # p => \A i \in (lo[q] + 1) .. hi[q] : link'[s[q][i]] = link[s[q][i]]
  <2>. SUFFICES ASSUME NEW q \in Pools, q # p, NEW i \in (lo[q] + 1) .. hi[q]
                PROVE  link'[s[q][i]] = link[s[q][i]]
    OBVIOUS
  <2>1. s[q][i] \in Bufs
    BY <1>8, Distinct
  <2>2. lo[p] # z => z \in (lo[p] + 1) .. hi[p]
    BY <1>4, <1>8
  <2>3. lo[p] # z => s[q][i] # s[p][z]
    BY <1>8, <2>2, Distinct
  <2>. QED  BY <1>21, <2>1, <2>3
<1>24. Linked(lo, hi1, s1)'
  <2>. SUFFICES ASSUME NEW q \in Pools
                PROVE  /\ IF lo[q] = hi1[q] THEN HeadPtr'[q] = NULL /\ TailPtr'[q] = NULL
                          ELSE HeadPtr'[q] = s1[q][lo[q] + 1] /\ TailPtr'[q] = s1[q][hi1[q]]
                       /\ \A i \in (lo[q] + 1) .. hi1[q] :
                            i < hi1[q] => link'[s1[q][i]] = s1[q][i + 1]
    BY DEF Linked
  <2>1. CASE q # p
    BY <1>9, <1>10, <1>20, <1>23, <2>1 DEF Good, Linked
  <2>2. CASE q = p
    <3>1. lo[p] # hi1[p] /\ TailPtr'[p] = s1[p][hi1[p]]
      BY <1>4, <1>8, <1>9, <1>10, <1>20
    <3>2. HeadPtr'[p] = s1[p][lo[p] + 1]
      <4>1. CASE lo[p] = z
        BY <1>10, <1>20, <4>1
      <4>2. CASE lo[p] # z
        <5>1. lo[p] + 1 \in (lo[p] + 1) .. hi[p]
          BY <1>4, <1>p, <4>2
        <5>. QED  BY <1>10, <1>11, <1>20, <4>2, <5>1
      <4>. QED  BY <4>1, <4>2
    <3>3. ASSUME NEW i \in (lo[p] + 1) .. hi1[p], i < hi1[p]
          PROVE  link'[s1[p][i]] = s1[p][i + 1]
      <4>1. i \in (lo[p] + 1) .. hi[p] /\ i \in Nat /\ lo[p] # z /\ i # z + 1 /\ i <= z
        BY <1>4, <1>8, <1>9, <3>3
      <4>2. s1[p][i] = s[p][i] /\ s[p][i] \in Bufs
        BY <1>10, <1>8, <4>1
      <4>3. CASE i = z
        BY <1>10, <1>21, <4>1, <4>2, <4>3
      <4>4. CASE i # z
        <5>1. i < hi[p] /\ i + 1 # z + 1 /\ i + 1 \in Nat /\ z \in (lo[p] + 1) .. hi[p]
          BY <1>4, <1>p, <4>1, <4>4
        <5>2. link[s[p][i]] = s[p][i + 1]
          BY <4>1, <5>1 DEF Good, Linked
        <5>3. s[p][i] # s[p][z]
          BY <1>8, <4>1, <4>4, <5>1, Distinct
        <5>4. link'[s[p][i]] = link[s[p][i]]
          BY <1>21, <4>2, <5>3
        <5>. QED  BY <1>10, <4>2, <5>1, <5>2, <5>4
      <4>. QED  BY <4>3, <4>4
    <3>. QED  BY <2>2, <3>1, <3>2, <3>3
  <2>. QED  BY <2>1, <2>2
<1>25. Ended(lo, hi1, s1)'
  <2>. SUFFICES ASSUME NEW q \in Pools, lo[q] < hi1[q]
                PROVE  \/ link'[s1[q][hi1[q]]] = NULL
                       \/ \E u \in Tasks : task'[u].at = "end" /\ task'[u].pool = q
    BY DEF Ended
  <2>1. CASE q = p
    BY <1>3, <1>17, <2>1
  <2>2. CASE q # p
    <3>1. ~ \E u \in Tasks : task[u].at = "end"
      BY <1>7, <1>17
    <3>2. link[s[q][hi[q]]] = NULL
      BY <1>9, <2>2, <3>1 DEF Good, Ended
    <3>3. hi[q] \in (lo[q] + 1) .. hi[q]
      BY <1>8, <1>9, <2>2
    <3>. QED  BY <1>9, <1>10, <1>23, <2>2, <3>2, <3>3
  <2>. QED  BY <2>1, <2>2
<1>26. Placed(lo, hi1, s1)'
  <2>. SUFFICES ASSUME NEW u \in Tasks
                PROVE  PlacedAt(task'[u], lo, hi1, s1, HeadPtr', FreeNum, inUse)
    BY <1>7 DEF Placed, PlacedAt, Listed, On, Own
  <2>1. CASE u = t
    <3>1. lo[p] < hi1[p] /\ b = s1[p][hi1[p]]
      BY <1>4, <1>8, <1>9, <1>10
    <3>2. FreeNum[p] < hi1[p] - lo[p]
      <4>1. FreeNum[p] \in Int /\ FreeNum[p] <= hi[p] - lo[p]
        BY DEF Good, Counted, ListTypes
      <4>. QED  BY <1>4, <1>8, <1>9, <4>1
    <3>. QED  BY <1>2, <1>3, <1>17, <2>1, <3>1, <3>2 DEF PlacedAt
  <2>2. CASE u # t
    <3>1. PlacedAt(task[u], lo, hi, s, HeadPtr, FreeNum, inUse)
      BY DEF Good, Placed
    <3>2. Putting(task[u]) => task[u].ptr # b
      BY <1>2, <1>7, <2>2 DEF Good, Apart, Putting
    <3>3. task'[u] = task[u] /\ task[u].at \notin {"read", "unlink", "append", "end", "give"}
      BY <1>17, <2>2
    <3>. QED  BY <1>15, <3>1, <3>2, <3>3 DEF PlacedAt, Putting
  <2>. QED  BY <2>1, <2>2
<1>27. Apart'
  BY <1>3, <1>17 DEF Good, Apart, Putting
<1>28. Counted(lo, hi1)'
  <2>1. ASSUME NEW q \in Pools PROVE FreeNum[q] <= hi1[q] - lo[q]
    <3>1. FreeNum[q] \in Int /\ FreeNum[q] <= hi[q] - lo[q]
      BY DEF Good, Counted, ListTypes
    <3>. QED  BY <1>4, <1>8, <1>9, <3>1
  <2>. QED  BY <1>7, <2>1 DEF Counted
<1>29. (inUse \cap Listed(lo, hi1, s1) = {})'
  <2>1. inUse \cap Listed(lo, hi1, s1) = {}
    BY <1>7, <1>15 DEF Good
  <2>. QED  BY <1>7, <2>1 DEF Listed, On
<1>30. Good(lo, hi1, s1)'
  <2>1. Numbered(lo, hi1, s1)'
    BY <1>13 DEF Numbered, Own
  <2>. QED  BY <1>22, <1>24, <1>25, <1>26, <1>27, <1>28, <1>29, <2>1 DEF Good
<1>31. /\ Ptrs({"end"}) = {} /\ Ptrs({"end"})' = {b}
       /\ Ptrs({"wait", "append", "end"})' = Ptrs({"wait", "append", "end"})
  <2>1. Others(t, {"end"}) = {}
    BY <1>17 DEF Others
  <2>2. /\ Hand(task[t], {"end"}) = {} /\ Hand(r, {"end"}) = {b}
        /\ Hand(task[t], {"wait", "append", "end"}) = Hand(r, {"wait", "append", "end"})
    BY <1>2, <1>3, <1>7 DEF Hand
  <2>3. ASSUME NEW A
        PROVE  /\ Ptrs(A) = Others(t, A) \cup Hand(task[t], A)
               /\ Ptrs(A)' = Others(t, A) \cup Hand(r, A)
    BY <1>16, PtrsMove
  <2>. QED  BY <2>1, <2>2, <2>3
<1>32. Free(lo, hi1, s1)' = Free(lo, hi, s) /\ Used' = Used
  <2>1. Listed(lo, hi1, s1)' = Listed(lo, hi1, s1)
    BY DEF Listed, On
  <2>. QED  BY <1>7, <1>15, <1>31, <2>1 DEF Free, Used
<1>. QED  BY <1>30, <1>32 DEF Keeps, Moves

LEMMA OneLessLess ==
  ASSUME NEW n \in Int, NEW k \in Nat, n <= k
  PROVE  OneLess(n) \in Int /\ OneLess(n) <= n /\ (OneLess(n) <= k - 1 \/ k = 0)
BY DataBufAssumption DEF OneLess

\* A task that finds the list empty takes nothing; the counter falls behind.
LEMMA NothingKeeps ==
  ASSUME IInv, NEW lo, NEW hi, NEW s, Good(lo, hi, s), NEW t \in Tasks, GetUnlink(t),
         lo[task[t].pool] = hi[task[t].pool]
  PROVE  Keeps(lo, hi, s)
<1>1. PICK p \in Pools : p = task[t].pool
  BY DEF GetUnlink, Good, Placed, PlacedAt
<1>2. HeadPtr[p] = NULL /\ TailPtr[p] = NULL /\ task[t].ptr = NULL /\ task[t].at = "unlink"
  BY <1>1 DEF GetUnlink, Good, Placed, PlacedAt, Linked
<1>3. /\ UNCHANGED <<HeadPtr, TailPtr, link, inUse>>
      /\ FreeNum' = [FreeNum EXCEPT ![p] = OneLess(@)]
  <2>1. /\ HeadPtr' = [HeadPtr EXCEPT ![p] = NULL] /\ TailPtr' = [TailPtr EXCEPT ![p] = NULL]
        /\ inUse' = inUse \cup ({NULL} \ {NULL}) /\ link' = link
        /\ FreeNum' = [FreeNum EXCEPT ![p] = OneLess(@)]
    BY <1>1, <1>2 DEF GetUnlink
  <2>. QED  BY <1>2, <2>1 DEF Good, ListTypes
<1>4. FreeNum' \in [Pools -> Int] /\ \A q \in Pools : FreeNum'[q] <= FreeNum[q]
  <2>1. /\ FreeNum \in [Pools -> Int] /\ FreeNum[p] \in Int
        /\ OneLess(FreeNum[p]) \in Int /\ OneLess(FreeNum[p]) <= FreeNum[p]
    BY DataBufAssumption DEF Good, ListTypes, OneLess
  <2>. QED  BY <1>3, <2>1
<1>5. PICK r : r = [at |-> "give", pool |-> p, ptr |-> NULL]
  OBVIOUS
<1>6. task' = [task EXCEPT ![t] = r]
  <2>1. task[t] = [at |-> task[t].at, pool |-> p, ptr |-> NULL]
    BY <1>1, <1>2 DEF IInv, Places
  <2>2. [task[t] EXCEPT !.at = "give"] = r
    BY <1>5, <2>1
  <2>. QED  BY <2>2 DEF GetUnlink, Goto
<1>7. PlacedAt(r, lo, hi, s, HeadPtr, FreeNum', inUse') /\ r.at = "give"
  BY <1>5 DEF PlacedAt
<1>8. Good(lo, hi, s)'
  BY <1>2, <1>3, <1>4, <1>6, <1>7, QuietGood DEF Putting
<1>9. Moves(lo, hi, s, lo, hi, s)
  BY <1>2, <1>3, <1>6, <1>7, QuietMoves DEF Putting
<1>. QED  BY <1>8, <1>9 DEF Keeps

\* Otherwise it takes the first, and the next number is the first.
LEMMA TakeKeeps ==
  ASSUME IInv, NEW lo, NEW hi, NEW s, Good(lo, hi, s), NEW t \in Tasks, GetUnlink(t),
         lo[task[t].pool] # hi[task[t].pool]
  PROVE  Keeps(lo, hi, s)
<1>1. PICK p \in Pools : p = task[t].pool
  BY DEF GetUnlink, Good, Placed, PlacedAt
<1>2. PICK a \in Nat : a = lo[p]
  BY DEF Good, Numbered
<1>3. PICK z \in Nat : z = hi[p]
  BY DEF Good, Numbered
<1>4. /\ lo \in [Pools -> Nat] /\ hi \in [Pools -> Nat] /\ s \in [Pools -> [Nat -> Bufs]]
      /\ \A q \in Pools : lo[q] <= hi[q]
      /\ Numbered(lo, hi, s)
  BY DEF Good, Numbered
<1>5. a < z /\ a + 1 \in (lo[p] + 1) .. hi[p] /\ z \in (lo[p] + 1) .. hi[p]
  <2>1. a <= z /\ a # z
    BY <1>1, <1>2, <1>3, <1>4
  <2>2. a + 1 \in (a + 1) .. z /\ z \in (a + 1) .. z
    BY <2>1
  <2>. QED  BY <1>2, <1>3, <2>1, <2>2
<1>6. PICK b \in Bufs : b = s[p][a + 1]
  BY <1>4, <1>5
<1>7. PICK lo1 : lo1 = [lo EXCEPT ![p] = a + 1]
  OBVIOUS
<1>8. PICK r : r = [at |-> "give", pool |-> p, ptr |-> b]
  OBVIOUS
<1>9. /\ HeadPtr[p] = b /\ TailPtr[p] = s[p][z] /\ task[t].ptr = b /\ task[t].at = "unlink"
      /\ b # NULL
  <2>1. HeadPtr[p] = s[p][a + 1] /\ TailPtr[p] = s[p][z]
    BY <1>2, <1>3, <1>5 DEF Good, Linked
  <2>. QED  BY <1>1, <1>6, <2>1, Pooled DEF GetUnlink, Good, Placed, PlacedAt
<1>10. HeadPtr[p] = TailPtr[p] <=> a + 1 = z
  BY <1>4, <1>5, <1>6, <1>9, Distinct
<1>11. /\ HeadPtr' = [HeadPtr EXCEPT ![p] = IF a + 1 = z THEN NULL ELSE link[b]]
       /\ TailPtr' = [TailPtr EXCEPT ![p] = IF a + 1 = z THEN NULL ELSE TailPtr[p]]
       /\ FreeNum' = [FreeNum EXCEPT ![p] = OneLess(FreeNum[p])]
       /\ inUse' = inUse \cup {b} /\ link' = link
  BY <1>1, <1>9, <1>10 DEF GetUnlink
<1>12. task' = [task EXCEPT ![t] = r]
  <2>1. task[t] = [at |-> task[t].at, pool |-> p, ptr |-> b]
    BY <1>1, <1>9 DEF IInv, Places
  <2>2. [task[t] EXCEPT !.at = "give"] = r
    BY <1>8, <2>1
  <2>. QED  BY <2>2 DEF GetUnlink, Goto
<1>13. /\ task'[t] = r /\ \A u \in Tasks : u # t => task'[u] = task[u]
       /\ \A u \in Tasks : u # t => task[u].at \notin {"read", "unlink", "append", "end", "give"}
  BY <1>9, <1>12, TaskMoves, Alone DEF Inside
<1>14. /\ lo1 \in [Pools -> Nat] /\ lo1[p] = a + 1 /\ \A q \in Pools : q # p => lo1[q] = lo[q]
  BY <1>4, <1>7
<1>15. \A q \in Pools : \A i \in (lo1[q] + 1) .. hi[q] :
         i \in (lo[q] + 1) .. hi[q] /\ (q = p => i # a + 1)
  <2>1. \A i \in (lo1[p] + 1) .. hi[p] : i \in (lo[p] + 1) .. hi[p] /\ i # a + 1
    BY <1>2, <1>3, <1>14
  <2>. QED  BY <1>14, <2>1
<1>16. Numbered(lo1, hi, s)
  <2>1. \A q \in Pools : lo1[q] <= hi[q]
    <3>1. a + 1 <= z
      BY <1>5
    <3>. QED  BY <1>3, <1>4, <1>14, <3>1
  <2>. QED  BY <1>4, <1>14, <1>15, <2>1 DEF Numbered
<1>17. Listed(lo1, hi, s) = Listed(lo, hi, s) \ {b} /\ b \in Listed(lo, hi, s)
  <2>1. b \in On(lo, hi, s, p)
    BY <1>5, <1>6 DEF On
  <2>2. ASSUME NEW q \in Pools, NEW c \in On(lo1, hi, s, q)
        PROVE  c \in On(lo, hi, s, q) /\ c # b
    <3>1. PICK i \in (lo1[q] + 1) .. hi[q] : c = s[q][i]
      BY DEF On
    <3>2. i \in (lo[q] + 1) .. hi[q] /\ (q = p => i # a + 1)
      BY <1>15
    <3>3. c # b
      BY <1>4, <1>5, <1>6, <3>1, <3>2, Distinct
    <3>. QED  BY <3>1, <3>2, <3>3 DEF On
  <2>3. ASSUME NEW q \in Pools, NEW c \in On(lo, hi, s, q), c # b
        PROVE  c \in On(lo1, hi, s, q)
    <3>1. PICK i \in (lo[q] + 1) .. hi[q] : c = s[q][i]
      BY DEF On
    <3>2. i \in (lo1[q] + 1) .. hi[q]
      <4>1. CASE q = p
        <5>1. i # a + 1
          BY <1>6, <2>3, <3>1, <4>1
        <5>2. i \in (a + 1) .. z
          BY <1>2, <1>3, <4>1
        <5>3. i \in (a + 1 + 1) .. z
          BY <5>1, <5>2
        <5>. QED  BY <1>3, <1>14, <4>1, <5>3
      <4>2. CASE q # p
        BY <1>14, <4>2
      <4>. QED  BY <4>1, <4>2
    <3>. QED  BY <3>1, <3>2 DEF On
  <2>. QED  BY <2>1, <2>2, <2>3 DEF Listed
<1>18. ListTypes'
  <2>1. link[b] \in Bufs \cup {NULL} \/ a + 1 = z
    <3>1. ASSUME a + 1 # z PROVE link[b] = s[p][a + 1 + 1] /\ link[b] \in Bufs
      <4>1. a + 1 < hi[p]
        BY <1>3, <1>5, <3>1
      <4>2. link[s[p][a + 1]] = s[p][a + 1 + 1]
        BY <1>5, <4>1 DEF Good, Linked
      <4>. QED  BY <1>4, <1>6, <4>2
    <3>. QED  BY <3>1
  <2>2. OneLess(FreeNum[p]) \in Int
    BY DataBufAssumption DEF Good, ListTypes, OneLess
  <2>3. HeadPtr' \in [Pools -> Bufs \cup {NULL}] /\ TailPtr' \in [Pools -> Bufs \cup {NULL}]
    BY <1>11, <2>1 DEF Good, ListTypes
  <2>. QED  BY <1>11, <2>2, <2>3 DEF Good, ListTypes
<1>19. Linked(lo1, hi, s)'
  <2>. SUFFICES ASSUME NEW q \in Pools
                PROVE  /\ IF lo1[q] = hi[q] THEN HeadPtr'[q] = NULL /\ TailPtr'[q] = NULL
                          ELSE HeadPtr'[q] = s[q][lo1[q] + 1] /\ TailPtr'[q] = s[q][hi[q]]
                       /\ \A i \in (lo1[q] + 1) .. hi[q] : i < hi[q] => link[s[q][i]] = s[q][i + 1]
    BY <1>11 DEF Linked
  <2>1. \A i \in (lo1[q] + 1) .. hi[q] : i < hi[q] => link[s[q][i]] = s[q][i + 1]
    BY <1>15 DEF Good, Linked
  <2>2. CASE q # p
    <3>1. HeadPtr'[q] = HeadPtr[q] /\ TailPtr'[q] = TailPtr[q] /\ lo1[q] = lo[q]
      BY <1>11, <1>14, <2>2 DEF Good, ListTypes
    <3>. QED  BY <2>1, <3>1 DEF Good, Linked
  <2>3. CASE q = p
    <3>1. /\ HeadPtr'[p] = IF a + 1 = z THEN NULL ELSE link[b]
          /\ TailPtr'[p] = IF a + 1 = z THEN NULL ELSE s[p][z]
      BY <1>9, <1>11 DEF Good, ListTypes
    <3>2. a + 1 # z => link[b] = s[p][a + 1 + 1]
      <4>1. a + 1 # z => a + 1 < hi[p]
        BY <1>3, <1>5
      <4>. QED  BY <1>5, <1>6, <4>1 DEF Good, Linked
    <3>. QED  BY <1>3, <1>14, <2>1, <2>3, <3>1, <3>2
  <2>. QED  BY <2>2, <2>3
<1>20. Ended(lo1, hi, s)'
  <2>. SUFFICES ASSUME NEW q \in Pools, lo1[q] < hi[q] PROVE link[s[q][hi[q]]] = NULL
    BY <1>11 DEF Ended
  <2>1. ~ \E u \in Tasks : task[u].at = "end"
    BY <1>9, <1>13
  <2>2. lo[q] < hi[q]
    BY <1>2, <1>3, <1>5, <1>14
  <2>. QED  BY <2>1, <2>2 DEF Good, Ended
<1>21. Placed(lo1, hi, s)'
  <2>. SUFFICES ASSUME NEW u \in Tasks
                PROVE  PlacedAt(task'[u], lo1, hi, s, HeadPtr', FreeNum', inUse')
    BY DEF Placed, PlacedAt, Listed, On, Own
  <2>1. CASE u = t
    BY <1>8, <1>13, <2>1 DEF PlacedAt
  <2>2. CASE u # t
    <3>1. PlacedAt(task[u], lo, hi, s, HeadPtr, FreeNum, inUse)
      BY DEF Good, Placed
    <3>2. task'[u] = task[u] /\ task[u].at \notin {"read", "unlink", "append", "end", "give"}
      BY <1>13, <2>2
    <3>. QED  BY <1>11, <1>17, <3>1, <3>2 DEF PlacedAt
  <2>. QED  BY <2>1, <2>2
<1>22. Apart'
  BY <1>8, <1>13 DEF Good, Apart, Putting
<1>23. Counted(lo1, hi)'
  <2>1. ASSUME NEW q \in Pools PROVE FreeNum'[q] <= hi[q] - lo1[q]
    <3>1. FreeNum \in [Pools -> Int] /\ FreeNum[q] \in Int /\ FreeNum[q] <= hi[q] - lo[q]
      BY DEF Good, Counted, ListTypes
    <3>2. CASE q = p
      <4>1. FreeNum[p] \in Int /\ z - a \in Nat /\ FreeNum[p] <= z - a /\ z - a # 0
        BY <1>2, <1>3, <1>5, <3>1, <3>2
      <4>2. OneLess(FreeNum[p]) <= z - a - 1 /\ OneLess(FreeNum[p]) \in Int
        BY <4>1, OneLessLess
      <4>3. FreeNum'[p] = OneLess(FreeNum[p])
        BY <1>11, <3>1
      <4>. QED  BY <1>3, <1>14, <3>2, <4>2, <4>3
    <3>3. CASE q # p
      BY <1>11, <1>14, <3>1, <3>3
    <3>. QED  BY <3>2, <3>3
  <2>. QED  BY <2>1 DEF Counted
<1>24. (inUse \cap Listed(lo1, hi, s) = {})'
  <2>1. inUse' \cap Listed(lo1, hi, s) = {}
    BY <1>11, <1>17 DEF Good
  <2>. QED  BY <2>1 DEF Listed, On
<1>25. Good(lo1, hi, s)'
  <2>1. Numbered(lo1, hi, s)'
    BY <1>16 DEF Numbered, Own
  <2>. QED  BY <1>18, <1>19, <1>20, <1>21, <1>22, <1>23, <1>24, <2>1 DEF Good
<1>26. /\ Ptrs({"end"}) = {} /\ Ptrs({"end"})' = {}
       /\ Ptrs({"wait", "append", "end"})' = Ptrs({"wait", "append", "end"})
  <2>1. Others(t, {"end"}) = {}
    BY <1>13 DEF Others
  <2>2. \A A \in {{"end"}, {"wait", "append", "end"}} : Hand(task[t], A) = {} /\ Hand(r, A) = {}
    BY <1>8, <1>9 DEF Hand
  <2>3. ASSUME NEW A
        PROVE  /\ Ptrs(A) = Others(t, A) \cup Hand(task[t], A)
               /\ Ptrs(A)' = Others(t, A) \cup Hand(r, A)
    BY <1>12, PtrsMove
  <2>. QED  BY <2>1, <2>2, <2>3
<1>27. /\ b \in Free(lo, hi, s) /\ Free(lo1, hi, s)' = Free(lo, hi, s) \ {b}
       /\ Used' = Used \cup {b}
  <2>1. Listed(lo1, hi, s)' = Listed(lo1, hi, s)
    BY DEF Listed, On
  <2>. QED  BY <1>11, <1>17, <1>26, <2>1 DEF Free, Used
<1>. QED  BY <1>25, <1>27 DEF Keeps, Moves

-----------------------------------------------------------------------------
(* In the beginning the numbers are the places in the chains.              *)

LEMMA ChainFacts ==
  ASSUME NEW p \in Pools
  PROVE  /\ Len(Chain[p]) \in Nat /\ Len(Chain[p]) >= 1
         /\ DOMAIN Chain[p] = 1 .. Len(Chain[p])
         /\ \A i \in 1 .. Len(Chain[p]) : Chain[p][i] \in Own(p)
         /\ \A b \in Own(p) : \E i \in 1 .. Len(Chain[p]) : b = Chain[p][i]
         /\ \A i, j \in 1 .. Len(Chain[p]) : Chain[p][i] = Chain[p][j] => i = j
<1> DEFINE c == Chain[p]
<1>1. c \in Seq(Bufs) /\ c # <<>> /\ IsInjective(c)
  BY DataBufAssumption
<1>2. Len(c) \in Nat /\ DOMAIN c = 1 .. Len(c)
  BY <1>1
<1>3. Len(c) >= 1
  BY <1>1, <1>2
<1>4. \A i, j \in 1 .. Len(c) : c[i] = c[j] => i = j
  BY <1>1, <1>2 DEF IsInjective
<1>5. /\ \A i \in 1 .. Len(c) : c[i] \in Own(p)
      /\ \A b \in Own(p) : \E i \in 1 .. Len(c) : b = c[i]
  BY <1>2 DEF Own, Range
<1>. QED  BY <1>2, <1>3, <1>4, <1>5

\* The links that Init gives the buffers.
LEMMA InitLink ==
  ASSUME Init, NEW p \in Pools, NEW i \in 1 .. Len(Chain[p])
  PROVE  link[Chain[p][i]] = IF i < Len(Chain[p]) THEN Chain[p][i + 1] ELSE NULL
<1> DEFINE b == Chain[p][i]
           q == CHOOSE x \in Pools : b \in Range(Chain[x])
           j == CHOOSE k \in DOMAIN Chain[q] : Chain[q][k] = b
<1>1. b \in Own(p) /\ b \in Bufs
  BY ChainFacts, Pooled
<1>2. q = p
  BY <1>1, Pooled DEF PoolOf
<1>3. DOMAIN Chain[p] = 1 .. Len(Chain[p])
  BY ChainFacts
<1>4. j = i
  <2>1. j \in DOMAIN Chain[q] /\ Chain[q][j] = b
    <3>1. \E k \in DOMAIN Chain[q] : Chain[q][k] = b
      BY <1>2, <1>3
    <3>. QED  BY <3>1
  <2> HIDE DEF j, q
  <2>. QED  BY <1>2, <1>3, <2>1, ChainFacts
<1>5. link[b] = IF j < Len(Chain[q]) THEN Chain[q][j + 1] ELSE NULL
  BY <1>1 DEF Init
<1> HIDE DEF b, q, j
<1>6. link[b] = IF i < Len(Chain[p]) THEN Chain[p][i + 1] ELSE NULL
  BY <1>2, <1>4, <1>5
<1>. QED  BY <1>6 DEF b

LEMMA InitGood ==
  ASSUME Init
  PROVE  \E lo, hi, s : /\ Good(lo, hi, s)
                        /\ Free(lo, hi, s) = Bufs /\ Used = {}
<1>1. PICK lo : lo = [p \in Pools |-> 0]
  OBVIOUS
<1>2. PICK hi : hi = [p \in Pools |-> Len(Chain[p])]
  OBVIOUS
<1>3. PICK s : s = [p \in Pools |-> [i \in Nat |->
                      IF i \in 1 .. Len(Chain[p]) THEN Chain[p][i] ELSE Chain[p][1]]]
  OBVIOUS
<1>4. \A p \in Pools :
        /\ lo[p] = 0 /\ hi[p] = Len(Chain[p]) /\ hi[p] \in Nat /\ hi[p] >= 1
        /\ \A i \in (lo[p] + 1) .. hi[p] : i \in 1 .. Len(Chain[p]) /\ s[p][i] = Chain[p][i]
  <2>. SUFFICES ASSUME NEW p \in Pools
                PROVE  /\ lo[p] = 0 /\ hi[p] = Len(Chain[p]) /\ hi[p] \in Nat /\ hi[p] >= 1
                       /\ \A i \in (lo[p] + 1) .. hi[p] :
                            i \in 1 .. Len(Chain[p]) /\ s[p][i] = Chain[p][i]
    OBVIOUS
  <2>1. lo[p] = 0 /\ hi[p] = Len(Chain[p]) /\ hi[p] \in Nat /\ hi[p] >= 1
    BY <1>1, <1>2, ChainFacts
  <2>2. \A i \in (lo[p] + 1) .. hi[p] : i \in Nat /\ i \in 1 .. Len(Chain[p])
    BY <2>1
  <2>. QED  BY <1>3, <2>1, <2>2
<1>5. Numbered(lo, hi, s)
  <2>1. s \in [Pools -> [Nat -> Bufs]]
    <3>1. ASSUME NEW p \in Pools, NEW i \in Nat
          PROVE  (IF i \in 1 .. Len(Chain[p]) THEN Chain[p][i] ELSE Chain[p][1]) \in Bufs
      <4>1. 1 \in 1 .. Len(Chain[p])
        BY ChainFacts
      <4>. QED  BY <4>1, ChainFacts, Pooled
    <3>. QED  BY <1>3, <3>1
  <2>2. lo \in [Pools -> Nat] /\ hi \in [Pools -> Nat]
    BY <1>1, <1>2, <1>4
  <2>3. \A p \in Pools : lo[p] <= hi[p]
    BY <1>4
  <2>4. \A p \in Pools : \A i \in (lo[p] + 1) .. hi[p] : s[p][i] \in Own(p)
    BY <1>4, ChainFacts
  <2>5. \A p \in Pools : \A i, j \in (lo[p] + 1) .. hi[p] : s[p][i] = s[p][j] => i = j
    BY <1>4, ChainFacts
  <2>. QED  BY <2>1, <2>2, <2>3, <2>4, <2>5 DEF Numbered
<1>6. ASSUME NEW p \in Pools
      PROVE  /\ lo[p] # hi[p] /\ HeadPtr[p] = s[p][lo[p] + 1] /\ TailPtr[p] = s[p][hi[p]]
             /\ link[s[p][hi[p]]] = NULL
  <2>1. lo[p] # hi[p] /\ lo[p] + 1 = 1 /\ 1 \in (lo[p] + 1) .. hi[p] /\ hi[p] \in (lo[p] + 1) .. hi[p]
    BY <1>4
  <2>2. HeadPtr[p] = Chain[p][1] /\ TailPtr[p] = Chain[p][Len(Chain[p])]
    BY DEF Init
  <2>3. link[Chain[p][Len(Chain[p])]] = NULL
    <3>1. Len(Chain[p]) \in 1 .. Len(Chain[p]) /\ ~(Len(Chain[p]) < Len(Chain[p]))
      BY ChainFacts
    <3>. QED  BY <3>1, InitLink
  <2>. QED  BY <1>4, <2>1, <2>2, <2>3
<1>7. Linked(lo, hi, s)
  <2>1. ASSUME NEW p \in Pools, NEW i \in (lo[p] + 1) .. hi[p], i < hi[p]
        PROVE  link[s[p][i]] = s[p][i + 1]
    <3>1. i + 1 \in (lo[p] + 1) .. hi[p]
      BY <1>4, <2>1
    <3>2. i \in 1 .. Len(Chain[p]) /\ i < Len(Chain[p])
          /\ s[p][i] = Chain[p][i] /\ s[p][i + 1] = Chain[p][i + 1]
      BY <1>4, <2>1, <3>1
    <3>. QED  BY <3>2, InitLink
  <2>. QED  BY <1>6, <2>1 DEF Linked
<1>8. task = [t \in Tasks |-> Idle] /\ inUse = {}
  BY DEF Init
<1>9. \A t \in Tasks : task[t].at = "idle"
  BY <1>8 DEF Idle
<1>10. Placed(lo, hi, s) /\ Apart /\ Ended(lo, hi, s)
  BY <1>6, <1>9 DEF Placed, PlacedAt, Apart, Putting, Ended
<1>11. Counted(lo, hi)
  <2>1. \A p \in Pools : FreeNum[p] = hi[p] /\ hi[p] - lo[p] = hi[p] /\ hi[p] <= hi[p]
    BY <1>4 DEF Init
  <2>. QED  BY <2>1 DEF Counted
<1>12. ListTypes
  <2>1. \A p \in Pools : Chain[p][1] \in Bufs /\ Chain[p][Len(Chain[p])] \in Bufs
                         /\ Len(Chain[p]) \in Int
    <3>. SUFFICES ASSUME NEW p \in Pools
                  PROVE  Chain[p][1] \in Bufs /\ Chain[p][Len(Chain[p])] \in Bufs
                         /\ Len(Chain[p]) \in Int
      OBVIOUS
    <3>1. 1 \in 1 .. Len(Chain[p]) /\ Len(Chain[p]) \in 1 .. Len(Chain[p])
          /\ Len(Chain[p]) \in Int
      BY ChainFacts
    <3>. QED  BY <3>1, ChainFacts, Pooled
  <2>2. /\ HeadPtr \in [Pools -> Bufs \cup {NULL}] /\ TailPtr \in [Pools -> Bufs \cup {NULL}]
        /\ FreeNum \in [Pools -> Int] /\ inUse \subseteq Bufs
    BY <2>1 DEF Init
  <2>3. \A b \in Bufs : link[b] \in Bufs \cup {NULL}
    <3>. SUFFICES ASSUME NEW b \in Bufs PROVE link[b] \in Bufs \cup {NULL}
      OBVIOUS
    <3>1. PICK p \in Pools : b \in Own(p)
      BY Pooled
    <3>2. PICK i \in 1 .. Len(Chain[p]) : b = Chain[p][i]
      BY <3>1, ChainFacts
    <3>3. link[b] = IF i < Len(Chain[p]) THEN Chain[p][i + 1] ELSE NULL
      BY <3>2, InitLink
    <3>4. i < Len(Chain[p]) => i + 1 \in 1 .. Len(Chain[p])
      BY ChainFacts
    <3>. QED  BY <3>3, <3>4, ChainFacts, Pooled
  <2>4. link = [b \in Bufs |-> link[b]]
    BY DEF Init
  <2>5. link \in [Bufs -> Bufs \cup {NULL, Text}]
    BY <2>3, <2>4
  <2>. QED  BY <2>2, <2>5 DEF ListTypes
<1>13. Good(lo, hi, s)
  BY <1>5, <1>7, <1>8, <1>10, <1>11, <1>12 DEF Good
<1>14. Listed(lo, hi, s) = Bufs
  <2>1. ASSUME NEW b \in Bufs PROVE b \in Listed(lo, hi, s)
    <3>1. PICK p \in Pools : b \in Own(p)
      BY Pooled
    <3>2. PICK i \in 1 .. Len(Chain[p]) : b = Chain[p][i]
      BY <3>1, ChainFacts
    <3>3. i \in (lo[p] + 1) .. hi[p]
      BY <1>4
    <3>. QED  BY <1>4, <3>2, <3>3 DEF Listed, On
  <2>2. \A p \in Pools : On(lo, hi, s, p) \subseteq Bufs
    BY <1>5, OnCount, Pooled
  <2>. QED  BY <2>1, <2>2 DEF Listed
<1>15. \A A : "idle" \notin A => Ptrs(A) = {}
  BY <1>9 DEF Ptrs
<1>16. Ptrs({"end"}) = {} /\ Ptrs({"wait", "append", "end"}) = {}
  BY <1>15
<1>17. Free(lo, hi, s) = Bufs /\ Used = {}
  BY <1>8, <1>14, <1>16 DEF Free, Used
<1>. QED  BY <1>13, <1>17

-----------------------------------------------------------------------------
(* Every step leads from one numbering to the next.                        *)

LEMMA StepKeeps ==
  ASSUME IInv, [Next]_vars, NEW lo, NEW hi, NEW s, Good(lo, hi, s)
  PROVE  Keeps(lo, hi, s)
<1>1. ASSUME NEW t \in Tasks, Call(t) \/ Step(t) \/ PutLocked(t) PROVE Keeps(lo, hi, s)
  <2>1. CASE GetUnlink(t)
    BY <2>1, NothingKeeps, TakeKeeps
  <2>2. CASE PutAppend(t)
    BY <2>2, AppendKeeps
  <2>3. CASE PutEnd(t)
    BY <2>3, EndKeeps
  <2>4. CASE Call(t) \/ GetLocked(t) \/ GetRefused(t) \/ GetRead(t) \/ Give(t) \/ PutLocked(t)
    BY <2>4, CallKeeps
  <2>. QED  BY <1>1, <2>1, <2>2, <2>3, <2>4 DEF Step
<1>2. ASSUME NEW b \in Bufs, Fill(b) PROVE Keeps(lo, hi, s)
  BY <1>2, FillKeeps
<1>3. CASE UNCHANGED vars
  <2>1. UNCHANGED <<HeadPtr, TailPtr, FreeNum, link, task, inUse>>
    BY <1>3 DEF vars, listVars
  <2>2. ListTypes' /\ Numbered(lo, hi, s)' /\ Linked(lo, hi, s)' /\ Ended(lo, hi, s)'
    BY <2>1 DEF Good, ListTypes, Numbered, Linked, Ended, Own
  <2>3. /\ Placed(lo, hi, s)' /\ Apart' /\ Counted(lo, hi)'
        /\ (inUse \cap Listed(lo, hi, s) = {})'
    BY <2>1 DEF Good, Placed, PlacedAt, Apart, Putting, Counted, Listed, On, Own
  <2>4. Free(lo, hi, s)' = Free(lo, hi, s) /\ Used' = Used
    BY <2>1 DEF Free, Used, Listed, On, Ptrs
  <2>. QED  BY <2>2, <2>3, <2>4 DEF Keeps, Good, Moves
<1>. QED  BY <1>1, <1>2, <1>3 DEF Next

PoolInv == \E lo, hi, s : Good(lo, hi, s)

LEMMA InitPool == Init => PoolInv
BY InitGood DEF PoolInv

LEMMA StepPool == IInv /\ PoolInv /\ [Next]_vars => PoolInv'
<1>. SUFFICES ASSUME IInv, PoolInv, [Next]_vars PROVE PoolInv'
  OBVIOUS
<1>1. PICK lo, hi, s : Good(lo, hi, s)
  BY DEF PoolInv
<1>2. PICK lo1, hi1, s1 : Good(lo1, hi1, s1)'
  BY <1>1, StepKeeps DEF Keeps
<1>. QED  BY <1>2 DEF PoolInv

LEMMA InvHolds == Spec => [](IInv /\ PoolInv)
BY InitInv, StepInv, InitPool, StepPool, PTL DEF Spec

\* The buffers that a walk meets are those of the numbering.
Walks ==
  \A lo, hi, s : Good(lo, hi, s) => \A p \in Pools : OnList(p) = On(lo, hi, s, p)

LEMMA WalksHold == Walks
BY Walk DEF Walks, Good

-----------------------------------------------------------------------------
\* While nobody has the semaphore, each list is made of buffers of its own pool,
\* and ends at TailPtr and at a zero link (GetDataBuf, PutDataBuf).
THEOREM DataBufListSound == Spec => []ListSound
<1>1. IInv /\ PoolInv => ListSound
  <2>. SUFFICES ASSUME IInv, PoolInv, signaled, NEW p \in Pools
                PROVE  /\ OnList(p) \subseteq Range(Chain[p])
                       /\ IF HeadPtr[p] = NULL THEN TailPtr[p] = NULL
                          ELSE TailPtr[p] \in OnList(p) /\ link[TailPtr[p]] = NULL
    BY DEF ListSound
  <2>1. PICK lo, hi, s : Good(lo, hi, s)
    BY DEF PoolInv
  <2>2. OnList(p) = On(lo, hi, s, p) /\ OnList(p) \subseteq Own(p) /\ NULL \notin OnList(p)
    BY <2>1, WalksHold, OnCount DEF Walks, Good
  <2>3. ~ \E t \in Tasks : task[t].at = "end"
    BY DEF IInv, OneInside, Inside
  <2>4. CASE lo[p] = hi[p]
    BY <2>1, <2>2, <2>4 DEF Good, Linked, Own
  <2>5. CASE lo[p] # hi[p]
    <3>1. lo[p] < hi[p] /\ hi[p] \in (lo[p] + 1) .. hi[p] /\ lo[p] + 1 \in (lo[p] + 1) .. hi[p]
      <4>1. lo[p] \in Nat /\ hi[p] \in Nat /\ lo[p] <= hi[p]
        BY <2>1 DEF Good, Numbered
      <4>. QED  BY <2>5, <4>1
    <3>2. HeadPtr[p] = s[p][lo[p] + 1] /\ TailPtr[p] = s[p][hi[p]]
      BY <2>1, <2>5 DEF Good, Linked
    <3>3. HeadPtr[p] \in OnList(p) /\ TailPtr[p] \in OnList(p)
      BY <2>2, <3>1, <3>2 DEF On
    <3>4. link[TailPtr[p]] = NULL
      BY <2>1, <2>3, <3>1, <3>2 DEF Good, Ended
    <3>. QED  BY <2>2, <3>3, <3>4 DEF Own
  <2>. QED  BY <2>4, <2>5
<1>. QED  BY <1>1, InvHolds, PTL

\* The counter of free nodes never promises more than the list has, although a
\* get that found nothing was counted (GetDataBuf).
THEOREM DataBufFreeNumNotAbove == Spec => []FreeNumNotAbove
<1>1. PoolInv => FreeNumNotAbove
  <2>. SUFFICES ASSUME PoolInv, NEW p \in Pools
                PROVE  FreeNum[p] <= Cardinality(OnList(p))
    BY DEF FreeNumNotAbove
  <2>1. PICK lo, hi, s : Good(lo, hi, s)
    BY DEF PoolInv
  <2>2. OnList(p) = On(lo, hi, s, p) /\ Cardinality(On(lo, hi, s, p)) = hi[p] - lo[p]
    BY <2>1, WalksHold, OnCount DEF Walks, Good
  <2>. QED  BY <2>1, <2>2 DEF Good, Counted
<1>. QED  BY <1>1, InvHolds, PTL

\* The lists implement a pool: no buffer is handed out that somebody has, and
\* none is lost, whatever races with the first look at HeadPtr.
THEOREM DataBufImplementsPool == Spec => ImplementsPool
<1>1. ASSUME NEW lo, NEW hi, NEW s, Good(lo, hi, s)
      PROVE  (UNION {OnList(p) : p \in Pools}) \ Ptrs({"end"}) = Free(lo, hi, s)
  BY <1>1, WalksHold DEF Walks, Free, Listed
<1>2. Init => Pool!PoolInit
  <2>. SUFFICES ASSUME Init PROVE Pool!PoolInit
    OBVIOUS
  <2>1. PICK lo, hi, s : Good(lo, hi, s) /\ Free(lo, hi, s) = Bufs /\ Used = {}
    BY InitGood
  <2>. QED  BY <1>1, <2>1 DEF Pool!PoolInit, Used
<1>3. IInv /\ PoolInv /\ [Next]_vars /\ Walks' => [Pool!PoolNext]_(Pool!poolVars)
  <2>. SUFFICES ASSUME IInv, PoolInv, [Next]_vars, Walks'
                PROVE  [Pool!PoolNext]_(Pool!poolVars)
    OBVIOUS
  <2>1. PICK lo, hi, s : Good(lo, hi, s)
    BY DEF PoolInv
  <2>2. PICK lo1, hi1, s1 : Good(lo1, hi1, s1)' /\ Moves(lo, hi, s, lo1, hi1, s1)
    BY <2>1, StepKeeps DEF Keeps
  <2>3. \A p \in Pools : OnList(p)' = On(lo1, hi1, s1, p)'
    BY <2>2 DEF Walks
  <2>4. ((UNION {OnList(p) : p \in Pools}) \ Ptrs({"end"}))' = Free(lo1, hi1, s1)'
    BY <2>3 DEF Free, Listed
  <2>5. (UNION {OnList(p) : p \in Pools}) \ Ptrs({"end"}) = Free(lo, hi, s)
    BY <1>1, <2>1
  <2>. QED  BY <2>2, <2>4, <2>5
       DEF Moves, Used, Pool!PoolNext, Pool!poolVars, Pool!GetBuf, Pool!PutBuf
<1>. QED  BY <1>2, <1>3, InvHolds, WalksHold, PTL DEF Spec, ImplementsPool, Pool!PoolSpec

=============================================================================
