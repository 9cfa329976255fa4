-------------------------- MODULE ObjectLifeProofs --------------------------
(***************************************************************************)
(* However many threads race to create the singleton, whoever loses, and   *)
(* while the loader clears the stack beside them: Instance() never points  *)
(* to a deleted instance, and the item stack holds live instances but for  *)
(* the one being taken out, none twice.  The reference count of a regular object is *)
(* the number of references its users have, between any two halves of      *)
(* AddRef and Release.  And the two counters that decide whether the       *)
(* plugin may go err on one side each: the regular class's never shows a   *)
(* user who is not there, the singleton's never misses one.                *)
(***************************************************************************)
EXTENDS ObjectLife, FiniteSetTheorems, TLAPS

\* From its creation until it is in the stack or deleted an instance is in the
\* hands of the thread that created it.
Owning == {"lock", "publish", "first", "reserve", "store", "lose"}
Owns(t) == pc[t].at \in Owning

Pc == [at : Places, obj : Obj \cup Inst \cup {None},
       then : {"idle", "keep", "subOthers"}, slot : Int]

UnloadTypes == [at : {"no", "ask", "look", "reset", "free", "drop", "items", "bare"},
                left : SUBSET Classes, slot : Int, force : BOOLEAN]

Types ==
  /\ pc \in [Thread -> Pc]
  /\ items \in [Item -> Inst \cup {None}]
  /\ instance \in Inst \cup {None}
  /\ fresh \cap alive = {} /\ \A i \in Item : items[i] # None => items[i] \notin fresh
  /\ unload \in UnloadTypes

\* What a thread has in its hands lives, nobody else has it, nor has the stack.
OwnsSound ==
  \A t \in Thread : Owns(t) =>
    /\ pc[t].obj \in alive \cap Inst
    /\ \A s \in Thread : Owns(s) /\ pc[s].obj = pc[t].obj => s = t
    /\ \A i \in Item : items[i] # pc[t].obj

\* The loader deletes what is in the stack, and no longer Instance().
LoaderSound ==
  /\ unload.at \in {"reset", "free", "drop"} =>
       unload.slot \in Item /\ items[unload.slot] # None
  /\ unload.at \in {"free", "drop"} => instance # items[unload.slot]

\* The inductive invariant.
IInv == Types /\ OwnsSound /\ InstanceLive /\ ItemsSound /\ LoaderSound

\* A slot is empty until the thread that reserved it fills it, which no other does.
SlotSound ==
  /\ index \in Int /\ index <= MaxCount
  /\ \A i \in Item : i < index => items[i] = None
  /\ \A t \in Thread : pc[t].at = "store" =>
       /\ pc[t].slot \in Int /\ pc[t].slot < MaxCount
       /\ pc[t].slot >= 0 =>
            /\ pc[t].slot >= index /\ items[pc[t].slot] = None
            /\ \A s \in Thread : pc[s].at = "store" /\ pc[s].slot = pc[t].slot => s = t

-----------------------------------------------------------------------------
LEMMA InitInv == Init => IInv
<1>. SUFFICES ASSUME Init PROVE IInv
  OBVIOUS
<1>1. Types
  BY DEF Init, Types, UnloadTypes, Pc, Places, Idle, NoUnload
<1>2. OwnsSound
  BY DEF Init, OwnsSound, Owns, Owning, Idle
<1>3. InstanceLive /\ ItemsSound /\ LoaderSound
  BY DEF Init, InstanceLive, ItemsSound, LoaderSound, NoUnload
<1>. QED  BY <1>1, <1>2, <1>3 DEF IInv

\* A thread that owns the same as before or nothing, while nothing that anybody
\* owns, the stack holds or Instance() points to is deleted.
LEMMA OwnerMoves ==
  ASSUME IInv, NEW t \in Thread, pc' \in [Thread -> Pc],
         \A s \in Thread : s # t => pc'[s] = pc[s],
         Owns(t)' => Owns(t) /\ pc'[t].obj = pc[t].obj,
         UNCHANGED <<items, instance, unload>>,
         alive \cap Inst \subseteq alive', fresh' \cap alive' = {}, fresh' \subseteq fresh
  PROVE  IInv'
<1>1. Types'
  BY DEF IInv, Types
<1>2. \A s \in Thread : Owns(s)' => Owns(s) /\ pc'[s].obj = pc[s].obj
  BY DEF Owns
<1>3. OwnsSound'
  BY <1>2 DEF IInv, OwnsSound
<1>4. InstanceLive'
  BY DEF IInv, InstanceLive, Types
<1>5. ItemsSound'
  BY DEF IInv, ItemsSound, Types
<1>6. LoaderSound'
  BY DEF IInv, LoaderSound
<1>. QED  BY <1>1, <1>3, <1>4, <1>5, <1>6 DEF IInv

\* Most steps only move a thread on.
LEMMA Places1 ==
  ASSUME IInv, NEW t \in Thread, NEW place \in Places, Go(t, place),
         place \in Owning => pc[t].at \in Owning,
         UNCHANGED <<items, instance, alive, fresh, unload>>
  PROVE  IInv'
<1>1. pc' = [pc EXCEPT ![t] = [pc[t] EXCEPT !.at = place]]
  BY DEF Go, IInv, Types
<1>2. pc[t] \in Pc
  BY DEF IInv, Types
<1> DEFINE new == [pc[t] EXCEPT !.at = place]
<1>3. new \in Pc /\ new.at = place /\ new.obj = pc[t].obj
  BY <1>2 DEF Pc
<1> HIDE DEF new
<1>4. pc' \in [Thread -> Pc] /\ pc'[t] = new /\ \A s \in Thread : s # t => pc'[s] = pc[s]
  BY <1>1, <1>3 DEF new, IInv, Types
<1>5. Owns(t)' => Owns(t) /\ pc'[t].obj = pc[t].obj
  BY <1>3, <1>4 DEF Owns
<1>6. fresh' \cap alive' = {}
  BY DEF IInv, Types
<1>. QED  BY <1>4, <1>5, <1>6, OwnerMoves

\* ... or send it where it owns nothing.
LEMMA Free1 ==
  ASSUME IInv, NEW t \in Thread, NEW new \in Pc, new.at \notin Owning,
         pc' = [pc EXCEPT ![t] = new],
         UNCHANGED <<items, instance, unload>>,
         alive \cap Inst \subseteq alive', fresh' \cap alive' = {}, fresh' \subseteq fresh
  PROVE  IInv'
<1>1. pc' \in [Thread -> Pc] /\ pc'[t] = new /\ \A s \in Thread : s # t => pc'[s] = pc[s]
  BY DEF IInv, Types
<1>2. ~Owns(t)'
  BY <1>1 DEF Owns
<1>. QED  BY <1>1, <1>2, OwnerMoves

LEMMA IdleIsPc == Idle \in Pc /\ Idle.at \notin Owning
  BY DEF Idle, Pc, Places, Owning

\* AddRef, Release and their halves delete objects of the regular class only.
LEMMA RefsInv ==
  ASSUME IInv, NEW t \in Thread, AddOthers(t) \/ AddRef(t) \/ SubOthers(t) \/ SubRef(t)
  PROVE  IInv'
<1>0. pc[t] \in Pc /\ fresh \cap alive = {}
  BY DEF IInv, Types
<1>1. CASE AddOthers(t)
  BY <1>1, Places1 DEF AddOthers, Places, Owning, itemVars, loadVars
<1>2. CASE AddRef(t)
  <2>1. CASE pc' = [pc EXCEPT ![t].at = "subOthers", ![t].then = "keep"]
    <3> DEFINE new == [pc[t] EXCEPT !.at = "subOthers", !.then = "keep"]
    <3>1. new \in Pc /\ new.at \notin Owning
      BY <1>0 DEF Pc, Places, Owning
    <3>2. pc' = [pc EXCEPT ![t] = new]
      BY <2>1 DEF IInv, Types
    <3> HIDE DEF new
    <3>. QED  BY <1>0, <1>2, <3>1, <3>2, Free1 DEF AddRef, itemVars, loadVars
  <2>2. CASE pc' = [pc EXCEPT ![t] = Idle]
    BY <1>0, <1>2, <2>2, IdleIsPc, Free1 DEF AddRef, itemVars, loadVars
  <2>. QED  BY <1>2, <2>1, <2>2 DEF AddRef
<1>3. CASE SubOthers(t)
  BY <1>3, Places1 DEF SubOthers, Places, Owning, itemVars, loadVars
<1>4. CASE SubRef(t)
  <2>1. alive \cap Inst \subseteq alive' /\ alive' \subseteq alive
    BY <1>4, ObjectLifeAssumption DEF SubRef
  <2>2. pc' = [pc EXCEPT ![t] = Idle] /\ UNCHANGED <<items, instance, fresh, unload>>
    BY <1>4 DEF SubRef, itemVars, loadVars
  <2>3. fresh' \cap alive' = {}
    BY <1>0, <2>1, <2>2
  <2>. QED  BY <2>1, <2>2, <2>3, IdleIsPc, Free1
<1>. QED  BY <1>1, <1>2, <1>3, <1>4

LEMMA ClientInv ==
  ASSUME IInv, NEW t \in Thread, NEW o \in Obj \cup Inst,
         CopyInterface(t, o) \/ ReleaseInterface(t, o)
  PROVE  IInv'
<1>0. fresh \cap alive = {}
  BY DEF IInv, Types
<1>1. PICK place \in {"addOthers", "subOthers"} :
        pc' = [pc EXCEPT ![t] = [at |-> place, obj |-> o, then |-> "idle", slot |-> -1]]
  BY DEF CopyInterface, ReleaseInterface
<1> DEFINE new == [at |-> place, obj |-> o, then |-> "idle", slot |-> -1]
<1>2. new \in Pc /\ new.at \notin Owning
  BY DEF Pc, Places, Owning
<1>3. pc' = [pc EXCEPT ![t] = new] /\ UNCHANGED <<items, instance, alive, fresh, unload>>
  BY <1>1 DEF CopyInterface, ReleaseInterface, itemVars, loadVars
<1> HIDE DEF new
<1>. QED  BY <1>0, <1>2, <1>3, Free1

LEMMA CreateInv ==
  ASSUME IInv, NEW t \in Thread, NEW o \in Obj, NEW supported \in BOOLEAN,
         CreateObject(t, o, supported)
  PROVE  IInv'
<1> DEFINE new == IF supported
                  THEN [at |-> "addOthers", obj |-> o, then |-> "subOthers", slot |-> -1]
                  ELSE [at |-> "subOthers", obj |-> o, then |-> "idle", slot |-> -1]
<1>1. new \in Pc /\ new.at \notin Owning
  BY DEF Pc, Places, Owning
<1>2. pc' = [pc EXCEPT ![t] = new] /\ UNCHANGED <<items, instance, unload>>
      /\ fresh' = fresh \ {o} /\ alive' = alive \cup {o}
  BY DEF CreateObject, itemVars, loadVars
<1>3. fresh' \cap alive' = {}
  BY <1>2 DEF IInv, Types
<1> HIDE DEF new
<1>. QED  BY <1>1, <1>2, <1>3, Free1

-----------------------------------------------------------------------------
(* The singleton.                                                          *)

\* A new instance is nobody else's: it was not alive.
LEMMA NewInv == ASSUME IInv, NEW t \in Thread, NEW p \in Inst, NewInstance(t, p) PROVE IInv'
<1>1. /\ p \in fresh /\ fresh' = fresh \ {p} /\ alive' = alive \cup {p}
      /\ pc' = [pc EXCEPT ![t].at = "lock", ![t].obj = p]
      /\ UNCHANGED <<items, instance, unload>>
  BY DEF NewInstance, itemVars, loadVars
<1> DEFINE new == [pc[t] EXCEPT !.at = "lock", !.obj = p]
<1>2. new \in Pc /\ new.at = "lock" /\ new.obj = p
  BY DEF IInv, Types, Pc, Places
<1>3. pc' = [pc EXCEPT ![t] = new]
  BY <1>1 DEF IInv, Types
<1> HIDE DEF new
<1>4. pc' \in [Thread -> Pc] /\ pc'[t] = new /\ \A s \in Thread : s # t => pc'[s] = pc[s]
  BY <1>2, <1>3 DEF IInv, Types
<1>5. p \notin alive /\ p # None
  BY <1>1, ObjectLifeAssumption DEF IInv, Types
<1>6. Types'
  BY <1>1, <1>4 DEF IInv, Types
<1>7. \A i \in Item : items[i] # p
  BY <1>1, <1>5 DEF IInv, Types
<1>8. OwnsSound'
  <2>. SUFFICES ASSUME NEW u \in Thread, Owns(u)'
                PROVE  /\ pc'[u].obj \in alive' \cap Inst
                       /\ \A s \in Thread : Owns(s)' /\ pc'[s].obj = pc'[u].obj => s = u
                       /\ \A i \in Item : items'[i] # pc'[u].obj
    BY DEF OwnsSound
  <2>1. \A s \in Thread : s # t /\ Owns(s)' =>
          Owns(s) /\ pc'[s].obj = pc[s].obj /\ pc[s].obj \in alive \cap Inst
    BY <1>4 DEF Owns, IInv, OwnsSound
  <2>2. CASE u = t
    <3>1. pc'[u].obj = p /\ p \in alive' \cap Inst
      BY <1>1, <1>2, <1>4, <2>2
    <3>2. \A s \in Thread : Owns(s)' /\ pc'[s].obj = p => s = u
      BY <1>5, <2>1, <2>2
    <3>3. \A i \in Item : items'[i] # p
      BY <1>1, <1>7
    <3>. QED  BY <3>1, <3>2, <3>3
  <2>3. CASE u # t
    <3>1. Owns(u) /\ pc'[u].obj = pc[u].obj /\ pc[u].obj \in alive \cap Inst
      BY <2>1, <2>3
    <3>2. pc'[t].obj # pc'[u].obj
      BY <1>2, <1>4, <1>5, <3>1
    <3>3. \A s \in Thread : Owns(s)' /\ pc'[s].obj = pc'[u].obj => s = u
      BY <2>1, <3>1, <3>2 DEF IInv, OwnsSound
    <3>4. \A i \in Item : items'[i] # pc'[u].obj
      BY <1>1, <3>1 DEF IInv, OwnsSound
    <3>5. pc'[u].obj \in alive' \cap Inst
      BY <1>1, <3>1
    <3>. QED  BY <3>3, <3>4, <3>5
  <2>. QED  BY <2>2, <2>3
<1>9. InstanceLive' /\ ItemsSound' /\ LoaderSound'
  BY <1>1 DEF IInv, InstanceLive, ItemsSound, LoaderSound
<1>. QED  BY <1>6, <1>8, <1>9 DEF IInv

\* Instance() is overwritten by an instance that lives; the one it pointed to
\* before stays alive, in the stack or on its way there.
LEMMA PublishInv == ASSUME IInv, NEW t \in Thread, Publish(t) PROVE IInv'
<1>1. /\ instance' = pc[t].obj /\ Owns(t)
      /\ pc' = [pc EXCEPT ![t].at = "first"]
      /\ UNCHANGED <<items, alive, fresh, unload>>
  BY DEF Publish, At, Go, itemVars, loadVars, Owns, Owning
<1> DEFINE new == [pc[t] EXCEPT !.at = "first"]
<1>2. new \in Pc /\ new.at = "first" /\ new.obj = pc[t].obj
  BY DEF IInv, Types, Pc, Places
<1>3. pc' = [pc EXCEPT ![t] = new]
  BY <1>1 DEF IInv, Types
<1> HIDE DEF new
<1>4. pc' \in [Thread -> Pc] /\ pc'[t] = new /\ \A s \in Thread : s # t => pc'[s] = pc[s]
  BY <1>2, <1>3 DEF IInv, Types
<1>5. pc[t].obj \in alive \cap Inst
  BY <1>1 DEF IInv, OwnsSound
<1>6. \A s \in Thread : Owns(s)' => Owns(s) /\ pc'[s].obj = pc[s].obj
  BY <1>1, <1>2, <1>4 DEF Owns
<1>7. Types'
  BY <1>1, <1>4, <1>5 DEF IInv, Types
<1>8. OwnsSound'
  BY <1>1, <1>6 DEF IInv, OwnsSound
<1>9. InstanceLive' /\ ItemsSound'
  BY <1>1, <1>5 DEF IInv, InstanceLive, ItemsSound
<1>10. LoaderSound'
  <2>1. \A i \in Item : items[i] # instance'
    BY <1>1 DEF IInv, OwnsSound
  <2>. QED  BY <1>1, <2>1 DEF IInv, LoaderSound
<1>. QED  BY <1>7, <1>8, <1>9, <1>10 DEF IInv

LEMMA StoreInv ==
  ASSUME IInv, SlotSound, NEW t \in Thread, StoreItem(t)
  PROVE  IInv'
<1> DEFINE p == pc[t].obj
<1>1. /\ Owns(t) /\ pc' = [pc EXCEPT ![t].at = "unlock"]
      /\ UNCHANGED <<instance, alive, fresh, unload>>
      /\ items' = items \/ (items' = [items EXCEPT ![pc[t].slot] = p] /\ pc[t].slot >= 0)
  BY DEF StoreItem, At, Go, Owns, Owning, loadVars
<1>2. pc' \in [Thread -> Pc] /\ pc'[t].at = "unlock" /\ \A s \in Thread : s # t => pc'[s] = pc[s]
  BY <1>1 DEF IInv, Types, Pc, Places
<1>3. /\ p \in alive \cap Inst /\ \A i \in Item : items[i] # p
      /\ \A s \in Thread : Owns(s) /\ pc[s].obj = p => s = t
  BY <1>1 DEF IInv, OwnsSound
<1> HIDE DEF p
<1>4. items' \in [Item -> Inst \cup {None}]
  BY <1>1, <1>3 DEF IInv, Types
<1>5. \A i \in Item : \/ items'[i] = items[i]
                      \/ items'[i] = p /\ i = pc[t].slot /\ items[i] = None
  <2>1. CASE items' = items
    BY <2>1
  <2>2. CASE items' = [items EXCEPT ![pc[t].slot] = p] /\ pc[t].slot >= 0
    <3>1. items[pc[t].slot] = None
      BY <2>2 DEF SlotSound, StoreItem, At
    <3>. QED  BY <2>2, <3>1 DEF IInv, Types
  <2>. QED  BY <1>1, <2>1, <2>2
<1>6. \A s \in Thread : Owns(s)' => s # t /\ Owns(s) /\ pc'[s] = pc[s]
  BY <1>2 DEF Owns, Owning
<1>7. Types'
  <2>1. \A i \in Item : items'[i] # None => items'[i] \notin fresh'
    BY <1>1, <1>3, <1>5 DEF IInv, Types
  <2>. QED  BY <1>1, <1>2, <1>4, <2>1 DEF IInv, Types
<1>8. OwnsSound'
  <2>. SUFFICES ASSUME NEW u \in Thread, Owns(u)'
                PROVE  /\ pc'[u].obj \in alive' \cap Inst
                       /\ \A s \in Thread : Owns(s)' /\ pc'[s].obj = pc'[u].obj => s = u
                       /\ \A i \in Item : items'[i] # pc'[u].obj
    BY DEF OwnsSound
  <2>1. u # t /\ Owns(u) /\ pc'[u] = pc[u] /\ pc[u].obj # p
    BY <1>3, <1>6
  <2>2. pc'[u].obj \in alive' \cap Inst
    BY <1>1, <2>1 DEF IInv, OwnsSound
  <2>3. \A s \in Thread : Owns(s)' /\ pc'[s].obj = pc'[u].obj => s = u
    BY <1>6, <2>1 DEF IInv, OwnsSound
  <2>4. \A i \in Item : items'[i] # pc'[u].obj
    BY <1>5, <2>1 DEF IInv, OwnsSound
  <2>. QED  BY <2>2, <2>3, <2>4
<1>9. InstanceLive'
  BY <1>1 DEF IInv, InstanceLive
<1>10. ItemsSound'
  <2>1. \A i \in Item : items'[i] # None =>
          items'[i] \in alive' \/ (unload'.at = "drop" /\ unload'.slot = i)
    BY <1>1, <1>3, <1>5 DEF IInv, ItemsSound
  <2>2. ASSUME NEW i \in Item, NEW j \in Item, items'[i] = items'[j], items'[i] # None
        PROVE  i = j
    <3>1. CASE items'[i] = p
      BY <1>3, <1>5, <2>2, <3>1
    <3>2. CASE items'[i] # p
      <4>1. items'[i] = items[i] /\ items'[j] = items[j]
        BY <1>5, <2>2, <3>2
      <4>. QED  BY <2>2, <4>1 DEF IInv, ItemsSound
    <3>. QED  BY <3>1, <3>2
  <2>. QED  BY <2>1, <2>2 DEF ItemsSound
<1>11. LoaderSound'
  BY <1>1, <1>5 DEF IInv, LoaderSound
<1>. QED  BY <1>7, <1>8, <1>9, <1>10, <1>11 DEF IInv

\* The loser deletes what only it has; if that is Instance(), it is cleared.
LEMMA LoseInv == ASSUME IInv, NEW t \in Thread, Lose(t) PROVE IInv'
<1> DEFINE p == pc[t].obj
<1>1. /\ Owns(t) /\ pc' = [pc EXCEPT ![t].at = "unlock"]
      /\ alive' = alive \ {p}
      /\ instance' = IF instance = p THEN None ELSE instance
      /\ UNCHANGED <<items, fresh, unload>>
  BY DEF Lose, At, Go, Owns, Owning, itemVars, loadVars, loadVars
<1>2. pc' \in [Thread -> Pc] /\ pc'[t].at = "unlock" /\ \A s \in Thread : s # t => pc'[s] = pc[s]
  BY <1>1 DEF IInv, Types, Pc, Places
<1>3. /\ p \in alive \cap Inst /\ \A i \in Item : items[i] # p
      /\ \A s \in Thread : Owns(s) /\ pc[s].obj = p => s = t
  BY <1>1 DEF IInv, OwnsSound
<1> HIDE DEF p
<1>4. \A s \in Thread : Owns(s)' => s # t /\ Owns(s) /\ pc'[s] = pc[s] /\ pc[s].obj # p
  BY <1>2, <1>3 DEF Owns, Owning
<1>5. Types'
  BY <1>1, <1>2 DEF IInv, Types
<1>6. OwnsSound'
  <2>. SUFFICES ASSUME NEW u \in Thread, Owns(u)'
                PROVE  /\ pc'[u].obj \in alive' \cap Inst
                       /\ \A s \in Thread : Owns(s)' /\ pc'[s].obj = pc'[u].obj => s = u
                       /\ \A i \in Item : items'[i] # pc'[u].obj
    BY DEF OwnsSound
  <2>. QED  BY <1>1, <1>4 DEF IInv, OwnsSound
<1>7. InstanceLive'
  BY <1>1 DEF IInv, InstanceLive
<1>8. ItemsSound'
  BY <1>1, <1>3 DEF IInv, ItemsSound
<1>9. LoaderSound'
  BY <1>1 DEF IInv, LoaderSound
<1>. QED  BY <1>5, <1>6, <1>7, <1>8, <1>9 DEF IInv

LEMMA UseInv == ASSUME IInv, NEW t \in Thread, Use(t) PROVE IInv'
<1>0. fresh \cap alive = {} /\ instance \in Inst \cup {None}
  BY DEF IInv, Types
<1>1. UNCHANGED <<items, instance, alive, fresh, unload>>
  BY DEF Use, itemVars, loadVars
<1>2. CASE Go(t, "crashed")
  BY <1>1, <1>2, Places1 DEF Places, Owning
<1>3. CASE pc' = [pc EXCEPT ![t] = [at |-> "addOthers", obj |-> instance,
                                    then |-> "idle", slot |-> -1]]
  <2> DEFINE new == [at |-> "addOthers", obj |-> instance, then |-> "idle", slot |-> -1]
  <2>1. new \in Pc /\ new.at \notin Owning
    BY <1>0 DEF Pc, Places, Owning
  <2>2. pc' = [pc EXCEPT ![t] = new]
    BY <1>3
  <2> HIDE DEF new
  <2>. QED  BY <1>0, <1>1, <2>1, <2>2, Free1
<1>. QED  BY <1>2, <1>3 DEF Use

LEMMA ReserveInv == ASSUME IInv, NEW t \in Thread, ReserveItem(t), index \in Int PROVE IInv'
<1> DEFINE new == [pc[t] EXCEPT !.at = "store", !.slot = index - 1]
<1>1. new \in Pc /\ new.obj = pc[t].obj
  <2>1. pc[t] \in Pc /\ index - 1 \in Int /\ "store" \in Places
    BY DEF IInv, Types, Places
  <2>. QED  BY <2>1 DEF Pc
<1>2. pc' = [pc EXCEPT ![t] = new] /\ UNCHANGED <<items, instance, alive, fresh, unload>> /\ Owns(t)
  BY DEF ReserveItem, At, Owns, Owning, IInv, Types, loadVars
<1> HIDE DEF new
<1>3. pc' \in [Thread -> Pc] /\ pc'[t] = new /\ \A s \in Thread : s # t => pc'[s] = pc[s]
  BY <1>1, <1>2 DEF IInv, Types
<1>4. fresh' \cap alive' = {}
  BY <1>2 DEF IInv, Types
<1>. QED  BY <1>1, <1>2, <1>3, <1>4, OwnerMoves

\* The loader touches no thread, and of the instances only those in the stack.
LEMMA LoaderInv ==
  ASSUME IInv, \/ \E force \in BOOLEAN : UnloadPlugin(force)
               \/ \E c \in Classes : AskClass(c)
               \/ BeginClear /\ index \in Int
               \/ SkipItem \/ DestroyItem \/ ResetInstance \/ FreeItem \/ DropItem
               \/ EndClear \/ FreeItems \/ ReleaseModule
  PROVE  IInv'
<1>1. /\ UNCHANGED <<pc, fresh>> /\ alive' \subseteq alive
      /\ items \in [Item -> Inst \cup {None}] /\ unload.slot \in Int /\ unload' \in UnloadTypes
  <2>1. unload \in UnloadTypes
    BY DEF IInv, Types
  <2>2. /\ UNCHANGED <<pc, fresh>> /\ alive' \subseteq alive
        /\ items \in [Item -> Inst \cup {None}] /\ unload.slot \in Int
    BY <2>1
       DEF UnloadPlugin, AskClass, BeginClear, SkipItem, DestroyItem, ResetInstance, FreeItem,
           DropItem, EndClear, FreeItems, ReleaseModule, itemVars, IInv, Types, UnloadTypes
  <2>3. unload' \in UnloadTypes
    <3>1. CASE \E force \in BOOLEAN : UnloadPlugin(force)
      BY <3>1 DEF UnloadPlugin, UnloadTypes, Classes
    <3>2. ASSUME NEW c \in Classes, AskClass(c) PROVE unload' \in UnloadTypes
      <4>1. unload.left \ {c} \in SUBSET Classes /\ NoUnload \in UnloadTypes
        BY <2>1 DEF NoUnload, UnloadTypes, Classes
      <4>2. [unload EXCEPT !.left = @ \ {c}] \in UnloadTypes
        BY <2>1, <4>1 DEF UnloadTypes
      <4>. QED  BY <3>2, <4>1, <4>2 DEF AskClass
    <3>3. CASE BeginClear /\ index \in Int
      BY <2>1, <3>3 DEF BeginClear, UnloadTypes
    <3>4. CASE SkipItem \/ DropItem
      <4>1. unload.slot + 1 \in Int
        BY <2>1 DEF UnloadTypes
      <4>2. /\ [unload EXCEPT !.slot = unload.slot + 1] \in UnloadTypes
            /\ [unload EXCEPT !.at = "look", !.slot = unload.slot + 1] \in UnloadTypes
        BY <2>1, <4>1 DEF UnloadTypes
      <4>. QED  BY <3>4, <4>2 DEF SkipItem, DropItem
    <3>5. CASE DestroyItem \/ ResetInstance \/ FreeItem \/ EndClear \/ FreeItems
      BY <2>1, <3>5 DEF DestroyItem, ResetInstance, FreeItem, EndClear, FreeItems, UnloadTypes
    <3>6. CASE ReleaseModule
      BY <2>1, <3>6 DEF ReleaseModule
    <3>. QED  BY <3>1, <3>2, <3>3, <3>4, <3>5, <3>6
  <2>. QED  BY <2>2, <2>3
<1>2. CASE ~(ResetInstance \/ FreeItem \/ DropItem \/ FreeItems)
  <2>0. unload \in UnloadTypes /\ unload'.slot \in Int
    BY <1>1 DEF IInv, Types, UnloadTypes
  <2>1. /\ UNCHANGED <<items, instance, alive>> /\ unload.at # "drop" /\ unload'.at # "drop"
        /\ unload'.at \in {"reset", "free"} => DestroyItem
    <3>1. CASE \E force \in BOOLEAN : UnloadPlugin(force)
      BY <3>1 DEF UnloadPlugin, itemVars
    <3>2. CASE \E c \in Classes : AskClass(c)
      BY <2>0, <3>2 DEF AskClass, NoUnload, UnloadTypes, itemVars
    <3>3. CASE BeginClear \/ SkipItem \/ EndClear \/ DestroyItem
      BY <2>0, <3>3 DEF BeginClear, SkipItem, EndClear, DestroyItem, UnloadTypes, itemVars
    <3>4. CASE ReleaseModule
      BY <3>4 DEF ReleaseModule, itemVars
    <3>. QED  BY <1>2, <3>1, <3>2, <3>3, <3>4
  <2>2. DestroyItem => /\ unload.slot \in Item /\ items[unload.slot] # None
                       /\ unload'.slot = unload.slot
                       /\ unload'.at = "free" => instance # items[unload.slot]
    BY <2>0, ObjectLifeAssumption DEF DestroyItem, Filled, Item, UnloadTypes
  <2>3. LoaderSound'
    BY <2>1, <2>2 DEF LoaderSound
  <2>4. Types' /\ OwnsSound' /\ InstanceLive' /\ ItemsSound'
    BY <1>1, <2>1 DEF IInv, Types, OwnsSound, Owns, InstanceLive, ItemsSound
  <2>. QED  BY <2>3, <2>4 DEF IInv
<1>3. CASE ResetInstance
  <2>1. /\ instance' = None /\ UNCHANGED <<items, alive>>
        /\ unload.at = "reset" /\ unload'.at = "free" /\ unload'.slot = unload.slot
    BY <1>3 DEF ResetInstance, itemVars, IInv, Types, UnloadTypes
  <2>2. unload.slot \in Item /\ items[unload.slot] # None
    BY <2>1 DEF IInv, LoaderSound
  <2>3. Types' /\ OwnsSound' /\ InstanceLive' /\ ItemsSound'
    BY <1>1, <2>1 DEF IInv, Types, OwnsSound, Owns, InstanceLive, ItemsSound
  <2>4. LoaderSound'
    BY <2>1, <2>2 DEF LoaderSound
  <2>. QED  BY <2>3, <2>4 DEF IInv
<1>4. CASE FreeItem
  <2>1. /\ alive' = alive \ {items[unload.slot]} /\ UNCHANGED <<items, instance>>
        /\ unload.at = "free" /\ unload'.at = "drop" /\ unload'.slot = unload.slot
    BY <1>4 DEF FreeItem, itemVars, IInv, Types, UnloadTypes
  <2>2. unload.slot \in Item /\ items[unload.slot] # None /\ instance # items[unload.slot]
    BY <2>1 DEF IInv, LoaderSound
  <2>3. Types' /\ LoaderSound' /\ InstanceLive'
    BY <1>1, <2>1, <2>2 DEF IInv, Types, LoaderSound, InstanceLive
  <2>4. OwnsSound'
    BY <1>1, <2>1, <2>2 DEF IInv, OwnsSound, Owns
  <2>5. ItemsSound'
    BY <1>1, <2>1, <2>2 DEF IInv, ItemsSound
  <2>. QED  BY <2>3, <2>4, <2>5 DEF IInv
<1>5. CASE DropItem
  <2>1. /\ items' = [items EXCEPT ![unload.slot] = None] /\ UNCHANGED <<alive, instance>>
        /\ unload.at = "drop" /\ unload'.at = "look" /\ unload'.slot \in Int
    BY <1>1, <1>5 DEF DropItem, IInv, Types, UnloadTypes
  <2>2. \A i \in Item : items'[i] = (IF i = unload.slot THEN None ELSE items[i])
    BY <1>1, <2>1
  <2>3. items' \in [Item -> Inst \cup {None}]
    BY <1>1, <2>1
  <2>4. Types' /\ LoaderSound' /\ InstanceLive'
    BY <1>1, <2>1, <2>2, <2>3 DEF IInv, Types, LoaderSound, InstanceLive
  <2>5. OwnsSound'
    <3>1. \A t \in Thread : Owns(t) => pc[t].obj # None
      BY ObjectLifeAssumption DEF IInv, OwnsSound
    <3>. QED  BY <1>1, <2>1, <2>2, <3>1 DEF IInv, OwnsSound, Owns
  <2>6. ItemsSound'
    BY <2>1, <2>2 DEF IInv, ItemsSound
  <2>. QED  BY <2>4, <2>5, <2>6 DEF IInv
<1>6. CASE FreeItems
  <2>1. /\ items' = [i \in Item |-> None] /\ UNCHANGED <<alive, instance>>
        /\ unload'.at = "bare" /\ unload'.slot = unload.slot
    BY <1>6 DEF FreeItems, IInv, Types, UnloadTypes
  <2>2. Types' /\ LoaderSound' /\ InstanceLive' /\ ItemsSound'
    BY <1>1, <2>1 DEF IInv, Types, LoaderSound, InstanceLive, ItemsSound
  <2>3. OwnsSound'
    <3>1. \A t \in Thread : Owns(t) => pc[t].obj # None
      BY ObjectLifeAssumption DEF IInv, OwnsSound
    <3>. QED  BY <1>1, <2>1, <3>1 DEF IInv, OwnsSound, Owns
  <2>. QED  BY <2>2, <2>3 DEF IInv
<1>. QED  BY <1>2, <1>3, <1>4, <1>5, <1>6

-----------------------------------------------------------------------------
(* The slots.                                                              *)

\* A thread that does not come to have a slot, while nothing fills or frees one.
LEMMA SlotKept ==
  ASSUME SlotSound, IInv, NEW t \in Thread, NEW q, q.at # "store", pc' = [pc EXCEPT ![t] = q],
         UNCHANGED <<items, index>>
  PROVE  SlotSound'
<1>1. pc'[t] = q /\ \A s \in Thread : s # t => pc'[s] = pc[s]
  BY DEF IInv, Types
<1>. QED  BY <1>1 DEF SlotSound

LEMMA SlotGo ==
  ASSUME SlotSound, IInv, NEW t \in Thread, NEW place \in Places, place # "store", Go(t, place),
         UNCHANGED <<items, index>>
  PROVE  SlotSound'
<1> DEFINE q == [pc[t] EXCEPT !.at = place]
<1>1. q.at # "store" /\ pc' = [pc EXCEPT ![t] = q]
  BY DEF Go, IInv, Types, Pc
<1> HIDE DEF q
<1>. QED  BY <1>1, SlotKept

\* Every action of a thread but the two of AddModuleItem.
LEMMA ThreadSlots ==
  ASSUME SlotSound, IInv, NEW t \in Thread,
         \/ AddOthers(t) \/ AddRef(t) \/ SubOthers(t) \/ SubRef(t)
         \/ TestInstance(t) \/ Lock(t) \/ Publish(t) \/ FirstRef(t)
         \/ Lose(t) \/ Unlock(t) \/ Use(t)
         \/ \E o \in Obj, supported \in BOOLEAN : CreateObject(t, o, supported)
         \/ \E o \in Obj \cup Inst : CopyInterface(t, o) \/ ReleaseInterface(t, o)
         \/ \E p \in Inst : NewInstance(t, p)
  PROVE  SlotSound'
<1>1. UNCHANGED <<items, index>>
  BY DEF AddOthers, AddRef, SubOthers, SubRef, TestInstance, Lock, Publish, FirstRef, Lose,
         Unlock, Use, CreateObject, CopyInterface, ReleaseInterface, NewInstance, itemVars
<1>2. CASE \E place \in Places \ {"store"} : Go(t, place)
  BY <1>1, <1>2, SlotGo
<1>3. CASE \E q : q.at # "store" /\ pc' = [pc EXCEPT ![t] = q]
  BY <1>1, <1>3, SlotKept
<1>4. CASE AddOthers(t) \/ SubOthers(t) \/ TestInstance(t) \/ Lock(t) \/ Publish(t) \/ FirstRef(t)
           \/ Lose(t) \/ Unlock(t) \/ (Use(t) /\ instance = None)
  BY <1>2, <1>4
     DEF AddOthers, SubOthers, TestInstance, Lock, Publish, FirstRef, Lose, Unlock, Use, Places
<1>5. CASE AddRef(t)
  <2> DEFINE q == [pc[t] EXCEPT !.at = "subOthers", !.then = "keep"]
  <2>1. q.at # "store" /\ Idle.at # "store"
    BY DEF IInv, Types, Pc, Idle
  <2>2. pc' = [pc EXCEPT ![t] = q] \/ pc' = [pc EXCEPT ![t] = Idle]
    BY <1>5 DEF AddRef, IInv, Types
  <2> HIDE DEF q
  <2>. QED  BY <1>3, <2>1, <2>2
<1>6. CASE SubRef(t)
  BY <1>3, <1>6 DEF SubRef, Idle
<1>7. CASE Use(t) /\ instance # None
  BY <1>3, <1>7 DEF Use
<1>8. CASE \E o \in Obj, supported \in BOOLEAN : CreateObject(t, o, supported)
  BY <1>3, <1>8 DEF CreateObject
<1>9. CASE \E o \in Obj \cup Inst : CopyInterface(t, o) \/ ReleaseInterface(t, o)
  BY <1>3, <1>9 DEF CopyInterface, ReleaseInterface
<1>10. CASE \E p \in Inst : NewInstance(t, p)
  <2>1. PICK p \in Inst : NewInstance(t, p)
    BY <1>10
  <2> DEFINE q == [pc[t] EXCEPT !.at = "lock", !.obj = p]
  <2>2. q.at # "store"
    BY DEF IInv, Types, Pc
  <2>3. pc' = [pc EXCEPT ![t] = q]
    BY <2>1 DEF NewInstance, IInv, Types
  <2> HIDE DEF q
  <2>. QED  BY <1>3, <2>2, <2>3
<1>. QED  BY <1>4, <1>5, <1>6, <1>7, <1>8, <1>9, <1>10

\* Who reserves gets a slot below all that were reserved before.
LEMMA ReserveSlots == ASSUME SlotSound, IInv, NEW t \in Thread, ReserveItem(t) PROVE SlotSound'
<1> DEFINE q == [pc[t] EXCEPT !.at = "store", !.slot = index - 1]
<1>1. q.at = "store" /\ q.slot = index - 1
  BY DEF IInv, Types, Pc
<1>2. pc' = [pc EXCEPT ![t] = q] /\ index' = index - 1 /\ UNCHANGED items /\ index \in Int
  BY DEF ReserveItem, IInv, Types, SlotSound
<1> HIDE DEF q
<1>3. pc'[t] = q /\ \A s \in Thread : s # t => pc'[s] = pc[s]
  BY <1>2 DEF IInv, Types
<1>4. index' \in Int /\ index' <= MaxCount /\ \A i \in Item : i < index' => items'[i] = None
  BY <1>2, ObjectLifeAssumption DEF SlotSound, Item
<1>5. ASSUME NEW s \in Thread, pc'[s].at = "store"
      PROVE  /\ pc'[s].slot \in Int /\ pc'[s].slot < MaxCount
             /\ pc'[s].slot >= 0 =>
                  /\ pc'[s].slot >= index' /\ items'[pc'[s].slot] = None
                  /\ \A u \in Thread : pc'[u].at = "store" /\ pc'[u].slot = pc'[s].slot => u = s
  <2>0. MaxCount \in Int
    BY ObjectLifeAssumption
  <2>1. CASE s = t
    <3>1. /\ pc'[s].slot = index - 1 /\ index - 1 < MaxCount
          /\ index - 1 >= 0 => index - 1 \in Item
      BY <1>1, <1>2, <1>3, <2>0, <2>1 DEF SlotSound, Item
    <3>2. index - 1 >= 0 => items[index - 1] = None
      BY <1>2, <3>1 DEF SlotSound
    <3>3. ASSUME NEW u \in Thread, pc'[u].at = "store", pc'[u].slot = index - 1, index - 1 >= 0
          PROVE  u = s
      BY <1>2, <1>3, <2>1, <3>3 DEF SlotSound
    <3>. QED  BY <1>2, <3>1, <3>2, <3>3
  <2>2. CASE s # t
    <3>1. pc'[s] = pc[s] /\ pc[s].slot \in Int /\ pc[s].slot < MaxCount
      BY <1>3, <1>5, <2>2 DEF SlotSound
    <3>2. pc[s].slot >= 0 => pc[s].slot >= index /\ items[pc[s].slot] = None
      BY <1>3, <1>5, <2>2 DEF SlotSound
    <3>3. ASSUME NEW u \in Thread, pc'[u].at = "store", pc'[u].slot = pc[s].slot, pc[s].slot >= 0
          PROVE  u = s
      BY <1>1, <1>2, <1>3, <1>5, <2>2, <3>1, <3>2, <3>3 DEF SlotSound
    <3>. QED  BY <1>2, <3>1, <3>2, <3>3
  <2>. QED  BY <2>1, <2>2
<1>. QED  BY <1>4, <1>5 DEF SlotSound

\* Who fills his slot fills nobody else's.
LEMMA StoreSlots == ASSUME SlotSound, IInv, NEW t \in Thread, StoreItem(t) PROVE SlotSound'
<1>1. /\ pc' = [pc EXCEPT ![t].at = "unlock"] /\ pc[t].at = "store" /\ index' = index
      /\ items' = items \/ (items' = [items EXCEPT ![pc[t].slot] = pc[t].obj] /\ pc[t].slot >= 0)
  BY DEF StoreItem, At, Go
<1>2. pc'[t].at = "unlock" /\ \A s \in Thread : s # t => pc'[s] = pc[s]
  BY <1>1 DEF IInv, Types, Pc
<1>3. pc[t].slot \in Int /\ pc[t].slot < MaxCount /\ (pc[t].slot >= 0 => pc[t].slot >= index)
  BY <1>1 DEF SlotSound
<1>4. \A i \in Item : i # pc[t].slot \/ pc[t].slot < 0 => items'[i] = items[i]
  <2>1. CASE items' = items
    BY <2>1
  <2>2. CASE items' = [items EXCEPT ![pc[t].slot] = pc[t].obj] /\ pc[t].slot >= 0
    BY <1>3, <2>2 DEF IInv, Types
  <2>. QED  BY <1>1, <2>1, <2>2
<1>5. index' \in Int /\ index' <= MaxCount
  BY <1>1 DEF SlotSound
<1>6. ASSUME NEW i \in Item, i < index' PROVE items'[i] = None
  BY <1>1, <1>3, <1>4, <1>6 DEF SlotSound, Item
<1>7. ASSUME NEW s \in Thread, pc'[s].at = "store"
      PROVE  /\ pc'[s].slot \in Int /\ pc'[s].slot < MaxCount
             /\ pc'[s].slot >= 0 =>
                  /\ pc'[s].slot >= index' /\ items'[pc'[s].slot] = None
                  /\ \A u \in Thread : pc'[u].at = "store" /\ pc'[u].slot = pc'[s].slot => u = s
  <2>1. s # t /\ pc'[s] = pc[s] /\ pc[s].at = "store"
    BY <1>2, <1>7
  <2>2. pc[s].slot \in Int /\ pc[s].slot < MaxCount
    BY <2>1 DEF SlotSound
  <2>3. pc[s].slot >= 0 => pc[s].slot >= index /\ items[pc[s].slot] = None /\ pc[s].slot # pc[t].slot
    BY <1>1, <2>1 DEF SlotSound
  <2>4. pc[s].slot >= 0 => items'[pc[s].slot] = None
    BY <1>4, <2>2, <2>3, ObjectLifeAssumption DEF Item
  <2>5. ASSUME NEW u \in Thread, pc'[u].at = "store", pc'[u].slot = pc[s].slot, pc[s].slot >= 0
        PROVE  u = s
    BY <1>2, <2>1, <2>5 DEF SlotSound
  <2>. QED  BY <1>1, <2>1, <2>2, <2>3, <2>4, <2>5
<1>. QED  BY <1>5, <1>6, <1>7 DEF SlotSound

\* The loader empties slots only, and ends with the index where none is below it.
LEMMA LoaderSlots ==
  ASSUME SlotSound, IInv,
         \/ \E force \in BOOLEAN : UnloadPlugin(force)
         \/ \E c \in Classes : AskClass(c)
         \/ BeginClear \/ SkipItem \/ DestroyItem \/ ResetInstance \/ FreeItem \/ DropItem
         \/ EndClear \/ FreeItems \/ ReleaseModule
  PROVE  SlotSound'
<1>1. pc' = pc /\ (index' = index \/ index' = 0)
  BY DEF UnloadPlugin, AskClass, BeginClear, SkipItem, DestroyItem, ResetInstance, FreeItem,
         DropItem, EndClear, FreeItems, ReleaseModule, itemVars
<1>2. \A i \in Item : items'[i] = items[i] \/ items'[i] = None
  <2>1. items' = items \/ items' = [items EXCEPT ![unload.slot] = None]
        \/ items' = [i \in Item |-> None]
    BY DEF UnloadPlugin, AskClass, BeginClear, SkipItem, DestroyItem, ResetInstance, FreeItem,
           DropItem, EndClear, FreeItems, ReleaseModule, itemVars
  <2>. QED  BY <2>1 DEF IInv, Types
<1>3. index' \in Int /\ index' <= MaxCount /\ \A i \in Item : i < index' => items'[i] = None
  BY <1>1, <1>2, ObjectLifeAssumption DEF SlotSound, Item
<1>4. ASSUME NEW s \in Thread, pc[s].at = "store"
      PROVE  /\ pc[s].slot \in Int /\ pc[s].slot < MaxCount
             /\ pc[s].slot >= 0 => /\ pc[s].slot >= index' /\ items'[pc[s].slot] = None
  <2>1. pc[s].slot \in Int /\ pc[s].slot < MaxCount
    BY <1>4 DEF SlotSound
  <2>2. pc[s].slot >= 0 => pc[s].slot >= index /\ items[pc[s].slot] = None /\ pc[s].slot \in Item
    BY <1>4, <2>1, ObjectLifeAssumption DEF SlotSound, Item
  <2>. QED  BY <1>1, <1>2, <2>1, <2>2
<1>5. \A s, u \in Thread : pc[s].at = "store" /\ pc[s].slot >= 0 /\ pc[u].at = "store"
                            /\ pc[u].slot = pc[s].slot => u = s
  BY DEF SlotSound
<1>. QED  BY <1>1, <1>3, <1>4, <1>5 DEF SlotSound

-----------------------------------------------------------------------------
Indexed == IInv /\ SlotSound

LEMMA StepInv == Indexed /\ [Next]_vars => Indexed'
<1>. SUFFICES ASSUME IInv, SlotSound, [Next]_vars PROVE IInv' /\ SlotSound'
  BY DEF Indexed
<1>0. index \in Int
  BY DEF SlotSound
<1>1. CASE UNCHANGED vars
  <2>1. Types' /\ OwnsSound' /\ InstanceLive' /\ ItemsSound' /\ LoaderSound' /\ SlotSound'
    BY <1>1 DEF vars, itemVars, loadVars, IInv, Types, OwnsSound, Owns, InstanceLive, ItemsSound,
                LoaderSound, SlotSound
  <2>. QED  BY <2>1 DEF IInv
<1>2. ASSUME NEW t \in Thread, AddOthers(t) \/ AddRef(t) \/ SubOthers(t) \/ SubRef(t)
      PROVE  IInv' /\ SlotSound'
  BY <1>2, RefsInv, ThreadSlots
<1>3. ASSUME NEW t \in Thread, TestInstance(t) \/ Lock(t) \/ FirstRef(t) \/ Unlock(t)
      PROVE  IInv' /\ SlotSound'
  <2>1. UNCHANGED <<items, instance, alive, fresh, unload>>
    BY <1>3 DEF TestInstance, Lock, FirstRef, Unlock, itemVars, loadVars
  <2>2. CASE TestInstance(t)
    BY <2>1, <2>2, Places1, ThreadSlots DEF TestInstance, Places, Owning
  <2>3. CASE Lock(t)
    BY <2>1, <2>3, Places1, ThreadSlots DEF Lock, At, Places, Owning
  <2>4. CASE FirstRef(t)
    BY <2>1, <2>4, Places1, ThreadSlots DEF FirstRef, At, Places, Owning
  <2>5. CASE Unlock(t)
    BY <2>1, <2>5, Places1, ThreadSlots DEF Unlock, Places, Owning
  <2>. QED  BY <1>3, <2>2, <2>3, <2>4, <2>5, ThreadSlots
<1>4. ASSUME NEW t \in Thread, Publish(t) \/ Lose(t) \/ Use(t) PROVE IInv' /\ SlotSound'
  BY <1>4, PublishInv, LoseInv, UseInv, ThreadSlots
<1>5. ASSUME NEW t \in Thread, ReserveItem(t) \/ StoreItem(t) PROVE IInv' /\ SlotSound'
  BY <1>0, <1>5, ReserveInv, StoreInv, ReserveSlots, StoreSlots
<1>6. ASSUME NEW t \in Thread, NEW o \in Obj, NEW supported \in BOOLEAN,
             CreateObject(t, o, supported)
      PROVE  IInv' /\ SlotSound'
  BY <1>6, CreateInv, ThreadSlots
<1>7. ASSUME NEW t \in Thread, NEW o \in Obj \cup Inst,
             CopyInterface(t, o) \/ ReleaseInterface(t, o)
      PROVE  IInv' /\ SlotSound'
  BY <1>7, ClientInv, ThreadSlots
<1>8. ASSUME NEW t \in Thread, NEW p \in Inst, NewInstance(t, p)
      PROVE  IInv' /\ SlotSound'
  BY <1>8, NewInv, ThreadSlots
<1>9. CASE \/ \E force \in BOOLEAN : UnloadPlugin(force)
           \/ \E c \in Classes : AskClass(c)
           \/ BeginClear \/ SkipItem \/ DestroyItem \/ ResetInstance \/ FreeItem \/ DropItem
           \/ EndClear \/ FreeItems \/ ReleaseModule
  BY <1>0, <1>9, LoaderInv, LoaderSlots
<1>. QED  BY <1>1, <1>2, <1>3, <1>4, <1>5, <1>6, <1>7, <1>8, <1>9 DEF Next

LEMMA Inductive == Spec => []Indexed
<1>1. Init => Indexed
  <2>1. Init => SlotSound
    BY ObjectLifeAssumption DEF Init, SlotSound, Idle, Item
  <2>. QED  BY <2>1, InitInv DEF Indexed
<1>. QED  BY <1>1, StepInv, PTL DEF Spec

-----------------------------------------------------------------------------
\* Instance() is NULL or points to a live instance, however the threads that
\* create, publish and delete instances interleave, and after the plugin was
\* unloaded (Cx_SingletonObject::CreateObject and its destructor).
THEOREM ObjectInstanceLive == Spec => []InstanceLive
<1>1. Indexed => InstanceLive
  BY DEF Indexed, IInv
<1>. QED  BY <1>1, Inductive, PTL

\* Clearing the item stack deletes no instance twice and none that is deleted
\* already (AddModuleItem, ClearModuleItems).
THEOREM ObjectItemsSound == Spec => []ItemsSound
<1>1. Indexed => ItemsSound
  BY DEF Indexed, IInv
<1>. QED  BY <1>1, Inductive, PTL

-----------------------------------------------------------------------------
(* Sums.                                                                   *)

Below(S, count) == {r \in S \X (1 .. (MaxHeld + 2)) : r[2] <= count[r[1]]}

LEMMA BelowFinite ==
  ASSUME NEW S, IsFiniteSet(S), NEW c
  PROVE  /\ Total(S, c) = Cardinality(Below(S, c))
         /\ IsFiniteSet(Below(S, c)) /\ Total(S, c) \in Nat
<1>1. MaxHeld + 2 \in Int /\ 1 \in Int
  BY ObjectLifeAssumption
<1>2. IsFiniteSet(1 .. (MaxHeld + 2))
  BY <1>1, FS_Interval
<1>3. IsFiniteSet(S \X (1 .. (MaxHeld + 2)))
  BY <1>2, FS_Product
<1>4. Below(S, c) \in SUBSET (S \X (1 .. (MaxHeld + 2)))
  BY DEF Below
<1>5. IsFiniteSet(Below(S, c))
  BY <1>3, <1>4, FS_Subset
<1>6. Total(S, c) = Cardinality(Below(S, c))
  BY DEF Total, Below
<1>. QED  BY <1>5, <1>6, FS_CardinalityType

\* A sum is zero just if nothing is counted.
LEMMA TotalZero ==
  ASSUME NEW S, IsFiniteSet(S), NEW c \in [S -> 0 .. (MaxHeld + 2)]
  PROVE  Total(S, c) = 0 <=> \A x \in S : c[x] = 0
<1>1. Total(S, c) = 0 <=> Below(S, c) = {}
  BY BelowFinite, FS_EmptySet
<1>2. ASSUME Below(S, c) = {}, NEW x \in S PROVE c[x] = 0
  <2>1. c[x] \in 0 .. (MaxHeld + 2) /\ 1 \in 1 .. (MaxHeld + 2)
    BY ObjectLifeAssumption
  <2>2. ASSUME 1 <= c[x] PROVE FALSE
    <3>1. <<x, 1>> \in Below(S, c)
      BY <2>1, <2>2 DEF Below
    <3>. QED  BY <1>2, <3>1
  <2>. QED  BY <2>1, <2>2, ObjectLifeAssumption
<1>3. ASSUME \A x \in S : c[x] = 0 PROVE Below(S, c) = {}
  <2>1. ASSUME NEW r \in Below(S, c) PROVE FALSE
    <3>1. r[1] \in S /\ r[2] \in 1 .. (MaxHeld + 2) /\ r[2] <= c[r[1]]
      BY <2>1 DEF Below
    <3>. QED  BY <3>1, <1>3, ObjectLifeAssumption
  <2>. QED  BY <2>1
<1>. QED  BY <1>1, <1>2, <1>3

\* One more of x is one more in all.
LEMMA TotalUp ==
  ASSUME NEW S, IsFiniteSet(S),
         NEW c \in [S -> 0 .. (MaxHeld + 2)], NEW d \in [S -> 0 .. (MaxHeld + 2)],
         NEW x \in S, d[x] = c[x] + 1, \A y \in S : y # x => d[y] = c[y]
  PROVE  Total(S, d) = Total(S, c) + 1
<1>1. d[x] \in 1 .. (MaxHeld + 2) /\ c[x] \in Int
  BY ObjectLifeAssumption
<1>2. Below(S, d) = Below(S, c) \cup {<<x, d[x]>>}
  <2>1. ASSUME NEW r \in Below(S, d) PROVE r \in Below(S, c) \cup {<<x, d[x]>>}
    <3>1. /\ r = <<r[1], r[2]>> /\ r[1] \in S /\ r[2] \in 1 .. (MaxHeld + 2)
          /\ r[2] <= d[r[1]] /\ r \in S \X (1 .. (MaxHeld + 2))
      BY <2>1 DEF Below
    <3>2. CASE r[1] # x
      BY <3>1, <3>2 DEF Below
    <3>3. CASE r[1] = x /\ r[2] = d[x]
      BY <3>1, <3>3
    <3>4. CASE r[1] = x /\ r[2] # d[x]
      <4>1. r[2] \in Int /\ d[x] \in Int /\ r[2] <= d[x]
        BY <3>1, <3>4, <1>1, ObjectLifeAssumption
      <4>2. r[2] <= c[x]
        BY <4>1, <3>4, <1>1
      <4>. QED  BY <3>1, <3>4, <4>2 DEF Below
    <3>. QED  BY <3>2, <3>3, <3>4
  <2>2. ASSUME NEW r \in Below(S, c) PROVE r \in Below(S, d)
    <3>1. /\ r \in S \X (1 .. (MaxHeld + 2)) /\ r[1] \in S
          /\ r[2] \in 1 .. (MaxHeld + 2) /\ r[2] <= c[r[1]]
      BY <2>2 DEF Below
    <3>2. r[2] \in Int /\ c[r[1]] \in Int /\ c[r[1]] <= d[r[1]] /\ d[r[1]] \in Int
      BY <3>1, <1>1, ObjectLifeAssumption
    <3>3. r[2] <= d[r[1]]
      BY <3>1, <3>2
    <3>. QED  BY <3>1, <3>3 DEF Below
  <2>3. <<x, d[x]>> \in Below(S, d)
    BY <1>1, ObjectLifeAssumption DEF Below
  <2>. QED  BY <2>1, <2>2, <2>3
<1>3. <<x, d[x]>> \notin Below(S, c)
  BY <1>1, ObjectLifeAssumption DEF Below
<1>4. Cardinality(Below(S, d)) = Cardinality(Below(S, c)) + 1
  BY <1>2, <1>3, BelowFinite, FS_AddElement
<1>. QED  BY <1>4, BelowFinite

\* The sum moves as the count of one does.
LEMMA TotalMove ==
  ASSUME NEW S, IsFiniteSet(S),
         NEW c \in [S -> 0 .. (MaxHeld + 2)], NEW d \in [S -> 0 .. (MaxHeld + 2)],
         NEW x \in S, NEW n \in {-1, 0, 1}, d[x] = c[x] + n,
         \A y \in S : y # x => d[y] = c[y]
  PROVE  Total(S, d) = Total(S, c) + n
<1>0. Total(S, c) \in Nat /\ Total(S, d) \in Nat /\ c[x] \in Int /\ d[x] \in Int
  BY BelowFinite, ObjectLifeAssumption
<1>1. CASE n = 1
  BY <1>1, TotalUp
<1>2. CASE n = -1
  <2>1. c[x] = d[x] + 1
    BY <1>0, <1>2
  <2>2. Total(S, c) = Total(S, d) + 1
    BY <2>1, TotalUp
  <2>. QED  BY <1>0, <1>2, <2>2
<1>3. CASE n = 0
  <2>1. d[x] = c[x]
    BY <1>0, <1>3
  <2>2. d = c
    BY <2>1
  <2>. QED  BY <1>0, <1>3, <2>2
<1>. QED  BY <1>1, <1>2, <1>3

-----------------------------------------------------------------------------
(* The references.                                                         *)

\* InFlight and the claims, of a thread at p that holds h.
Flight(p, o) ==
  IF p.obj # o THEN 0
  ELSE IF p.at \in {"addOthers", "addRef"} THEN IF p.then = "subOthers" THEN 1 ELSE 0
  ELSE IF p.at \in {"subOthers", "subRef"} THEN IF p.then = "keep" THEN 2 ELSE 1
  ELSE 0

\* Whether a use of o is counted as one by another module, beside those held.
Claimed(p, o) == IF p.obj = o /\ p.at \in {"addRef", "subOthers"} THEN 1 ELSE 0

Claims(S) == [x \in Outside \X S |-> held[x[1]][x[2]] + Claimed(pc[x[1]], x[2])]

\* A thread that counts up or down has an object.  One that keeps what it created
\* holds nothing of it yet; one that adds another reference holds one already,
\* if the class is the regular one.
Counting == {"addOthers", "addRef", "subOthers", "subRef"}
PlaceSound(p, h) ==
  /\ p.at \in Counting => p.obj \in Obj \cup Inst
  /\ p.then # "idle" => p.obj \in Obj /\ h[p.obj] = 0 /\ p.at \in Counting
  /\ p.then = "subOthers" => p.at \in {"addOthers", "addRef"}
  /\ p.then = "keep" => p.at \in {"subOthers", "subRef"}
  /\ p.at \in {"addOthers", "addRef"} /\ p.then = "idle" =>
       h[p.obj] < MaxHeld /\ (p.obj \in Obj => h[p.obj] > 0)

Held == [Obj \cup Inst -> 0 .. MaxHeld]

RefTypes ==
  /\ held \in [Thread -> Held] /\ refcount \in [Obj \cup Inst -> Int]
  /\ objOthers \in Int /\ instOthers \in Int

\* The counter of the regular class may fall behind what other modules claim,
\* that of the singleton may run ahead.
ClaimsBound ==
  /\ objOthers <= Total(Outside \X Obj, Claims(Obj))
  /\ instOthers >= Total(Outside \X Inst, Claims(Inst))

\* The inductive invariant of the references.
RefInv ==
  /\ RefTypes /\ RefExact /\ ClaimsBound
  /\ \A t \in Thread : PlaceSound(pc[t], held[t])

LEMMA FlightIsInFlight == ASSUME NEW t, NEW o PROVE InFlight(t, o) = Flight(pc[t], o)
  BY DEF InFlight, Flight

LEMMA Finite ==
  /\ IsFiniteSet(Thread) /\ IsFiniteSet(Outside)
  /\ IsFiniteSet(Outside \X Obj) /\ IsFiniteSet(Outside \X Inst)
<1>1. IsFiniteSet(Thread) /\ IsFiniteSet(Outside)
  BY ObjectLifeAssumption, FS_Subset
<1>. QED  BY <1>1, ObjectLifeAssumption, FS_Product

LEMMA FlightRange ==
  ASSUME NEW p, NEW h \in Held, NEW o \in Obj \cup Inst
  PROVE  /\ Flight(p, o) \in 0 .. 2 /\ Claimed(p, o) \in 0 .. 1 /\ h[o] \in 0 .. MaxHeld
         /\ h[o] + Flight(p, o) \in 0 .. (MaxHeld + 2)
         /\ h[o] + Claimed(p, o) \in 0 .. (MaxHeld + 2)
<1>1. Flight(p, o) \in 0 .. 2
  BY DEF Flight
<1>2. Claimed(p, o) \in 0 .. 1
  BY DEF Claimed
<1>3. h[o] \in 0 .. MaxHeld
  BY DEF Held
<1>. QED  BY <1>1, <1>2, <1>3, ObjectLifeAssumption

LEMMA CountTypes ==
  ASSUME held \in [Thread -> Held]
  PROVE  /\ \A o \in Obj : Uses(o) \in [Thread -> 0 .. (MaxHeld + 2)]
         /\ Claims(Obj) \in [Outside \X Obj -> 0 .. (MaxHeld + 2)]
         /\ Claims(Inst) \in [Outside \X Inst -> 0 .. (MaxHeld + 2)]
<1>1. ASSUME NEW o \in Obj PROVE Uses(o) \in [Thread -> 0 .. (MaxHeld + 2)]
  <2>1. ASSUME NEW t \in Thread PROVE held[t][o] + InFlight(t, o) \in 0 .. (MaxHeld + 2)
    BY FlightRange, FlightIsInFlight
  <2>. QED  BY <2>1 DEF Uses
<1>2. ASSUME NEW S \in {Obj, Inst} PROVE Claims(S) \in [Outside \X S -> 0 .. (MaxHeld + 2)]
  <2>1. ASSUME NEW x \in Outside \X S
        PROVE  held[x[1]][x[2]] + Claimed(pc[x[1]], x[2]) \in 0 .. (MaxHeld + 2)
    <3>1. x[1] \in Thread /\ x[2] \in Obj \cup Inst /\ held[x[1]] \in Held
      BY ObjectLifeAssumption
    <3>. QED  BY <3>1, FlightRange
  <2>. QED  BY <2>1 DEF Claims
<1>. QED  BY <1>1, <1>2

LEMMA CountTypesNext ==
  ASSUME held' \in [Thread -> Held]
  PROVE  /\ \A o \in Obj : Uses(o)' \in [Thread -> 0 .. (MaxHeld + 2)]
         /\ Claims(Obj)' \in [Outside \X Obj -> 0 .. (MaxHeld + 2)]
         /\ Claims(Inst)' \in [Outside \X Inst -> 0 .. (MaxHeld + 2)]
<1>1. ASSUME NEW o \in Obj PROVE Uses(o)' \in [Thread -> 0 .. (MaxHeld + 2)]
  <2>1. ASSUME NEW t \in Thread PROVE held'[t][o] + InFlight(t, o)' \in 0 .. (MaxHeld + 2)
    <3>1. InFlight(t, o)' = Flight(pc'[t], o)
      BY DEF InFlight, Flight
    <3>. QED  BY <3>1, FlightRange
  <2>. QED  BY <2>1 DEF Uses
<1>2. ASSUME NEW S \in {Obj, Inst} PROVE Claims(S)' \in [Outside \X S -> 0 .. (MaxHeld + 2)]
  <2>1. ASSUME NEW x \in Outside \X S
        PROVE  held'[x[1]][x[2]] + Claimed(pc'[x[1]], x[2]) \in 0 .. (MaxHeld + 2)
    <3>1. x[1] \in Thread /\ x[2] \in Obj \cup Inst /\ held'[x[1]] \in Held
      BY ObjectLifeAssumption
    <3>. QED  BY <3>1, FlightRange
  <2>. QED  BY <2>1 DEF Claims
<1>. QED  BY <1>1, <1>2

\* A step of thread t, to q and k, is about object o only.
OnlyAbout(t, o, q, k) ==
  /\ t \in Thread /\ o \in Obj \cup Inst /\ q \in Pc /\ k \in Held /\ PlaceSound(q, k)
  /\ pc' = [pc EXCEPT ![t] = q] /\ held' = [held EXCEPT ![t] = k]
  /\ \A x \in Obj \cup Inst : x # o =>
       /\ k[x] = held[t][x] /\ Flight(pc[t], x) = 0 /\ Flight(q, x) = 0
       /\ Claimed(pc[t], x) = 0 /\ Claimed(q, x) = 0

\* It moves the uses of o by n, and the reference count follows.
UsesMove(t, o, q, k, n) ==
  /\ n \in {-1, 0, 1}
  /\ k[o] + Flight(q, o) = held[t][o] + Flight(pc[t], o) + n
  /\ refcount' \in [Obj \cup Inst -> Int]
  /\ \A x \in Obj : /\ refcount'[x] = refcount[x] + (IF x = o THEN n ELSE 0)
                    /\ x \in alive' <=> refcount'[x] > 0

\* It moves the claims on o by m, and the counters follow.
ClaimsMove(t, o, q, k, m) ==
  /\ m \in {-1, 0, 1}
  /\ k[o] + Claimed(q, o) = held[t][o] + Claimed(pc[t], o) + m
  /\ objOthers' \in Int /\ instOthers' \in Int
  /\ IF o \in Obj /\ t \in Outside THEN objOthers' <= objOthers + m ELSE objOthers' <= objOthers
  /\ IF o \in Inst /\ t \in Outside THEN instOthers' >= instOthers + m ELSE instOthers' >= instOthers

LEMMA RefStep ==
  ASSUME RefInv, IInv, NEW t, NEW o, NEW q, NEW k, NEW n, NEW m,
         OnlyAbout(t, o, q, k), UsesMove(t, o, q, k, n), ClaimsMove(t, o, q, k, m)
  PROVE  RefInv'
<1>0. /\ t \in Thread /\ o \in Obj \cup Inst /\ q \in Pc /\ k \in Held /\ PlaceSound(q, k)
      /\ pc' = [pc EXCEPT ![t] = q] /\ held' = [held EXCEPT ![t] = k]
      /\ \A x \in Obj \cup Inst : x # o =>
           /\ k[x] = held[t][x] /\ Flight(pc[t], x) = 0 /\ Flight(q, x) = 0
           /\ Claimed(pc[t], x) = 0 /\ Claimed(q, x) = 0
      /\ n \in {-1, 0, 1} /\ k[o] + Flight(q, o) = held[t][o] + Flight(pc[t], o) + n
      /\ m \in {-1, 0, 1} /\ k[o] + Claimed(q, o) = held[t][o] + Claimed(pc[t], o) + m
      /\ refcount' \in [Obj \cup Inst -> Int] /\ objOthers' \in Int /\ instOthers' \in Int
      /\ \A x \in Obj : /\ refcount'[x] = refcount[x] + (IF x = o THEN n ELSE 0)
                        /\ x \in alive' <=> refcount'[x] > 0
      /\ IF o \in Obj /\ t \in Outside THEN objOthers' <= objOthers + m ELSE objOthers' <= objOthers
      /\ IF o \in Inst /\ t \in Outside THEN instOthers' >= instOthers + m ELSE instOthers' >= instOthers
  BY DEF OnlyAbout, UsesMove, ClaimsMove
<1>1. held' \in [Thread -> Held] /\ held'[t] = k /\ pc'[t] = q
      /\ \A s \in Thread : s # t => held'[s] = held[s] /\ pc'[s] = pc[s]
  BY <1>0 DEF RefInv, RefTypes, IInv, Types
<1>2. RefTypes'
  BY <1>0, <1>1 DEF RefTypes
<1>3. \A s \in Thread : PlaceSound(pc'[s], held'[s])
  BY <1>0, <1>1 DEF RefInv
<1>4. RefExact'
  <2>0. \A x \in Obj : refcount'[x] = refcount[x] + (IF x = o THEN n ELSE 0)
    BY DEF UsesMove
  <2>a. \A x \in Obj : x \in alive' <=> refcount'[x] > 0
    BY DEF UsesMove
  <2>. SUFFICES ASSUME NEW x \in Obj PROVE refcount'[x] = Total(Thread, Uses(x)')
    BY <2>a DEF RefExact, Total
  <2> DEFINE c == Uses(x)  d == Uses(x)'  i == IF x = o THEN n ELSE 0
  <2>1. /\ c \in [Thread -> 0 .. (MaxHeld + 2)] /\ d \in [Thread -> 0 .. (MaxHeld + 2)]
    BY <1>1, CountTypes, CountTypesNext DEF RefInv, RefTypes
  <2>2. \A s \in Thread : /\ c[s] = held[s][x] + Flight(pc[s], x)
                          /\ d[s] = held'[s][x] + Flight(pc'[s], x)
    BY DEF Uses, InFlight, Flight
  <2>3. \A s \in Thread : s # t => d[s] = c[s]
    BY <1>1, <2>2
  <2>4. d[t] = c[t] + i
    <3>1. c[t] \in Int
      BY <1>0, <2>1, ObjectLifeAssumption
    <3>2. CASE x = o
      BY <1>0, <1>1, <2>2, <3>2
    <3>3. CASE x # o
      <4>1. c[t] = held[t][x] + 0 /\ d[t] = held[t][x] + 0
        BY <1>0, <1>1, <2>2, <3>3
      <4>. QED  BY <3>1, <3>3, <4>1
    <3>. QED  BY <3>2, <3>3
  <2>5. i \in {-1, 0, 1} /\ t \in Thread
    BY <1>0
  <2>6. refcount'[x] = refcount[x] + i
    BY <2>0
  <2>7. refcount[x] = Total(Thread, c)
    BY DEF RefInv, RefExact
  <2> HIDE DEF c, d, i
  <2>8. Total(Thread, d) = Total(Thread, c) + i
    BY <2>1, <2>3, <2>4, <2>5, Finite, TotalMove
  <2>9. refcount'[x] = Total(Thread, d)
    BY <2>6, <2>7, <2>8
  <2>. QED  BY <2>9 DEF d
<1>5. ClaimsBound'
  <2>1. ASSUME NEW S \in {Obj, Inst}
        PROVE  Total(Outside \X S, Claims(S)')
                 = Total(Outside \X S, Claims(S)) + (IF o \in S /\ t \in Outside THEN m ELSE 0)
    <3> DEFINE c == Claims(S)  d == Claims(S)'
    <3>1. c \in [Outside \X S -> 0 .. (MaxHeld + 2)] /\ d \in [Outside \X S -> 0 .. (MaxHeld + 2)]
      BY <1>1, CountTypes, CountTypesNext DEF RefInv, RefTypes
    <3>2. \A y \in Outside \X S : /\ c[y] = held[y[1]][y[2]] + Claimed(pc[y[1]], y[2])
                                  /\ d[y] = held'[y[1]][y[2]] + Claimed(pc'[y[1]], y[2])
      BY DEF Claims
    <3>3. \A y \in Outside \X S : y # <<t, o>> => d[y] = c[y]
      <4>. SUFFICES ASSUME NEW y \in Outside \X S, y # <<t, o>> PROVE d[y] = c[y]
        OBVIOUS
      <4>1. y = <<y[1], y[2]>> /\ y[1] \in Thread /\ y[2] \in Obj \cup Inst
        BY ObjectLifeAssumption
      <4>2. CASE y[1] # t
        BY <1>1, <3>2, <4>1, <4>2
      <4>3. CASE y[1] = t /\ y[2] # o
        <5>1. /\ k[y[2]] = held[t][y[2]] /\ Claimed(pc[t], y[2]) = 0 /\ Claimed(q, y[2]) = 0
          BY <1>0, <4>1, <4>3
        <5>. QED  BY <1>1, <3>2, <4>3, <5>1
      <4>. QED  BY <4>1, <4>2, <4>3
    <3>4. IsFiniteSet(Outside \X S)
      BY Finite
    <3>5. Total(Outside \X S, c) \in Nat
      BY <3>4, BelowFinite
    <3>6. CASE o \in S /\ t \in Outside
      <4>1. <<t, o>> \in Outside \X S
        BY <3>6
      <4>2. d[<<t, o>>] = c[<<t, o>>] + m
        BY <1>0, <1>1, <3>2, <4>1
      <4> DEFINE P == Outside \X S  z == <<t, o>>
      <4>3. /\ IsFiniteSet(P) /\ c \in [P -> 0 .. (MaxHeld + 2)]
            /\ d \in [P -> 0 .. (MaxHeld + 2)] /\ z \in P
            /\ d[z] = c[z] + m /\ \A y \in P : y # z => d[y] = c[y]
        BY <3>1, <3>3, <3>4, <4>1, <4>2
      <4>0. m \in {-1, 0, 1}
        BY <1>0
      <4> HIDE DEF c, d, P, z
      <4>4. Total(P, d) = Total(P, c) + m
        BY <4>0, <4>3, TotalMove
      <4>. QED  BY <3>6, <4>4 DEF c, d, P
    <3>7. CASE ~(o \in S /\ t \in Outside)
      <4>1. <<t, o>> \notin Outside \X S
        BY <3>7
      <4> HIDE DEF c, d
      <4>2. d = c
        BY <3>1, <3>3, <4>1
      <4>. QED  BY <3>5, <3>7, <4>2 DEF c, d
    <3>. QED  BY <3>6, <3>7
  <2>2. /\ Total(Outside \X Obj, Claims(Obj)) \in Nat
        /\ Total(Outside \X Inst, Claims(Inst)) \in Nat
    BY Finite, BelowFinite
  <2>3. /\ objOthers <= Total(Outside \X Obj, Claims(Obj))
        /\ instOthers >= Total(Outside \X Inst, Claims(Inst))
        /\ objOthers \in Int /\ instOthers \in Int
    BY DEF RefInv, ClaimsBound, RefTypes
  <2>4. objOthers' <= Total(Outside \X Obj, Claims(Obj)')
    <3>1. CASE o \in Obj /\ t \in Outside
      BY <1>0, <2>1, <2>2, <2>3, <3>1
    <3>2. CASE ~(o \in Obj /\ t \in Outside)
      BY <1>0, <2>1, <2>2, <2>3, <3>2
    <3>. QED  BY <3>1, <3>2
  <2>5. instOthers' >= Total(Outside \X Inst, Claims(Inst)')
    <3>1. CASE o \in Inst /\ t \in Outside
      BY <1>0, <2>1, <2>2, <2>3, <3>1
    <3>2. CASE ~(o \in Inst /\ t \in Outside)
      BY <1>0, <2>1, <2>2, <2>3, <3>2
    <3>. QED  BY <3>1, <3>2
  <2>. QED  BY <2>4, <2>5 DEF ClaimsBound, Total
<1>. QED  BY <1>2, <1>3, <1>4, <1>5 DEF RefInv

\* A step of a thread that counts nothing, before or after, of what it holds.
LEMMA RefQuiet ==
  ASSUME RefInv, IInv, NEW t \in Thread, NEW q \in Pc,
         pc' = [pc EXCEPT ![t] = q], held' = held,
         pc[t].at \notin Counting \/ pc[t] = q, q.at \notin Counting \/ pc[t] = q,
         q.then = "idle",
         refcount' \in [Obj \cup Inst -> Int], objOthers' = objOthers,
         instOthers' \in Int, instOthers' >= instOthers,
         \A x \in Obj : refcount'[x] = refcount[x] /\ (x \in alive' <=> x \in alive)
  PROVE  RefInv'
<1>1. pc'[t] = q /\ \A s \in Thread : s # t => pc'[s] = pc[s]
  BY DEF IInv, Types
<1>2. RefTypes'
  BY DEF RefInv, RefTypes
<1>3. \A s \in Thread : PlaceSound(pc'[s], held'[s])
  <2>1. PlaceSound(q, held[t])
    BY DEF RefInv, PlaceSound, Counting
  <2>. QED  BY <1>1, <2>1 DEF RefInv
<1>4. \A s \in Thread, x \in Obj \cup Inst :
        Flight(pc'[s], x) = Flight(pc[s], x) /\ Claimed(pc'[s], x) = Claimed(pc[s], x)
  BY <1>1 DEF Flight, Claimed, Counting
<1>5. \A x \in Obj : Uses(x)' = Uses(x)
  BY <1>4 DEF Uses, InFlight, Flight
<1>6. RefExact'
  BY <1>5 DEF RefExact, RefInv, Total
<1>7. Claims(Obj)' = Claims(Obj) /\ Claims(Inst)' = Claims(Inst)
  <2>1. ASSUME NEW S \in {Obj, Inst}, NEW y \in Outside \X S
        PROVE  Claimed(pc'[y[1]], y[2]) = Claimed(pc[y[1]], y[2])
    <3>1. y[1] \in Thread /\ y[2] \in Obj \cup Inst
      BY ObjectLifeAssumption
    <3>. QED  BY <1>4, <3>1
  <2>. QED  BY <2>1 DEF Claims
<1>8. ClaimsBound'
  <2>1. /\ Total(Outside \X Obj, Claims(Obj))' = Total(Outside \X Obj, Claims(Obj))
        /\ Total(Outside \X Inst, Claims(Inst))' = Total(Outside \X Inst, Claims(Inst))
    BY <1>7 DEF Total
  <2>2. Total(Outside \X Inst, Claims(Inst)) \in Nat
    BY Finite, BelowFinite
  <2>. QED  BY <2>1, <2>2 DEF ClaimsBound, RefInv, RefTypes
<1>. QED  BY <1>2, <1>3, <1>6, <1>8 DEF RefInv

\* Who has a reference has it on an object that lives.
LEMMA UsedLives ==
  ASSUME RefInv, NEW t \in Thread, NEW o \in Obj, held[t][o] + Flight(pc[t], o) > 0
  PROVE  refcount[o] > 0 /\ o \in alive
<1>1. Uses(o) \in [Thread -> 0 .. (MaxHeld + 2)] /\ Uses(o)[t] # 0
  BY CountTypes DEF RefInv, RefTypes, Uses, InFlight, Flight
<1>2. Total(Thread, Uses(o)) \in Nat /\ Total(Thread, Uses(o)) # 0
  BY <1>1, Finite, BelowFinite, TotalZero
<1>. QED  BY <1>2 DEF RefInv, RefExact

\* What does not live nobody refers to.
LEMMA UnusedIsFree ==
  ASSUME RefInv, NEW o \in Obj, o \notin alive
  PROVE  refcount[o] = 0 /\ \A t \in Thread : held[t][o] = 0 /\ Flight(pc[t], o) = 0
<1>1. Total(Thread, Uses(o)) \in Nat /\ refcount[o] = Total(Thread, Uses(o)) /\ ~(refcount[o] > 0)
  BY Finite, BelowFinite DEF RefInv, RefExact
<1>2. Uses(o) \in [Thread -> 0 .. (MaxHeld + 2)]
  BY CountTypes DEF RefInv, RefTypes
<1>3. \A t \in Thread : Uses(o)[t] = 0
  BY <1>1, <1>2, Finite, TotalZero
<1>4. ASSUME NEW t \in Thread PROVE held[t][o] = 0 /\ Flight(pc[t], o) = 0
  <2>1. held[t][o] + Flight(pc[t], o) = 0
    BY <1>3 DEF Uses, InFlight, Flight
  <2>2. held[t][o] \in 0 .. MaxHeld /\ Flight(pc[t], o) \in 0 .. 2
    BY FlightRange DEF RefInv, RefTypes
  <2>. QED  BY <2>1, <2>2, ObjectLifeAssumption
<1>. QED  BY <1>1, <1>4

\* An object that is not the one a thread is about is in none of its flights.
LEMMA NotAbout ==
  ASSUME NEW p, NEW x, p.obj # x \/ p.at \notin Counting
  PROVE  Flight(p, x) = 0 /\ Claimed(p, x) = 0
BY DEF Flight, Claimed, Counting

-----------------------------------------------------------------------------
LEMMA RefInitInv == Init => RefInv
<1>. SUFFICES ASSUME Init PROVE RefInv
  OBVIOUS
<1>1. RefTypes
  BY ObjectLifeAssumption DEF Init, RefTypes, Held
<1>2. \A t \in Thread : pc[t] = Idle /\ pc[t].at \notin Counting
  BY DEF Init, Idle, Counting
<1>3. \A t \in Thread : PlaceSound(pc[t], held[t])
  BY <1>2 DEF PlaceSound, Idle, Counting
<1>4. \A t \in Thread, o \in Obj \cup Inst :
        held[t][o] + Flight(pc[t], o) = 0 /\ held[t][o] + Claimed(pc[t], o) = 0
  BY <1>2, NotAbout DEF Init
<1>5. RefExact
  <2>. SUFFICES ASSUME NEW o \in Obj PROVE Total(Thread, Uses(o)) = 0
    BY DEF RefExact, Init
  <2>1. Uses(o) \in [Thread -> 0 .. (MaxHeld + 2)]
    BY <1>1, CountTypes DEF RefTypes
  <2>2. \A t \in Thread : Uses(o)[t] = 0
    BY <1>4 DEF Uses, InFlight, Flight
  <2>. QED  BY <2>1, <2>2, Finite, TotalZero
<1>6. ClaimsBound
  <2>1. ASSUME NEW S \in {Obj, Inst} PROVE Total(Outside \X S, Claims(S)) = 0
    <3>1. Claims(S) \in [Outside \X S -> 0 .. (MaxHeld + 2)] /\ IsFiniteSet(Outside \X S)
      BY <1>1, CountTypes, Finite DEF RefTypes
    <3>2. ASSUME NEW y \in Outside \X S PROVE Claims(S)[y] = 0
      <4>1. y[1] \in Thread /\ y[2] \in Obj \cup Inst
        BY ObjectLifeAssumption
      <4>. QED  BY <1>4, <4>1 DEF Claims
    <3>. QED  BY <3>1, <3>2, TotalZero
  <2>. QED  BY <2>1 DEF ClaimsBound, Init
<1>. QED  BY <1>1, <1>3, <1>5, <1>6 DEF RefInv

-----------------------------------------------------------------------------
(* The steps.                                                              *)

\* What thread t has to hand.
AtHandIs(t) ==
  /\ pc[t] \in Pc /\ held[t] \in Held /\ pc[t].obj \in Obj \cup Inst
  /\ held[t][pc[t].obj] \in 0 .. MaxHeld
  /\ PlaceSound(pc[t], held[t])
  /\ refcount \in [Obj \cup Inst -> Int] /\ refcount[pc[t].obj] \in Int
  /\ held = [held EXCEPT ![t] = held[t]]

LEMMA AtHand ==
  ASSUME RefInv, IInv, NEW t \in Thread, pc[t].at \in Counting
  PROVE  AtHandIs(t)
<1>1. pc[t] \in Pc /\ held[t] \in Held /\ PlaceSound(pc[t], held[t])
      /\ refcount \in [Obj \cup Inst -> Int] /\ held = [held EXCEPT ![t] = held[t]]
  BY DEF IInv, Types, RefInv, RefTypes
<1>2. pc[t].obj \in Obj \cup Inst
  BY <1>1 DEF PlaceSound
<1>3. held[t][pc[t].obj] \in 0 .. MaxHeld
  BY <1>1, <1>2 DEF Held
<1>. QED  BY <1>1, <1>2, <1>3 DEF AtHandIs

LEMMA AddOthersRef == ASSUME RefInv, IInv, NEW t \in Thread, AddOthers(t) PROVE RefInv'
<1> DEFINE o == pc[t].obj  q == [pc[t] EXCEPT !.at = "addRef"]
<1>1. pc[t].at = "addOthers" /\ pc[t].at \in Counting
  BY DEF AddOthers, At, Counting
<1>2. /\ pc[t] \in Pc /\ held[t] \in Held /\ o \in Obj \cup Inst /\ PlaceSound(pc[t], held[t])
      /\ refcount \in [Obj \cup Inst -> Int] /\ held = [held EXCEPT ![t] = held[t]]
      /\ held[t][o] \in Int
  <2>1. AtHandIs(t)
    BY <1>1, AtHand
  <2>. QED  BY <2>1, ObjectLifeAssumption DEF AtHandIs
<1>3. q \in Pc /\ q.at = "addRef" /\ q.obj = o /\ q.then = pc[t].then
  BY <1>2 DEF Pc, Places
<1>4. PlaceSound(q, held[t])
  BY <1>1, <1>2, <1>3 DEF PlaceSound, Counting
<1>5. pc' = [pc EXCEPT ![t] = q] /\ UNCHANGED <<alive, refcount, held>>
  BY DEF AddOthers, Go, IInv, Types
<1>6. Flight(q, o) = Flight(pc[t], o) /\ Claimed(q, o) = 1 /\ Claimed(pc[t], o) = 0
  BY <1>1, <1>3 DEF Flight, Claimed
<1>7. /\ objOthers' \in Int /\ instOthers' \in Int
      /\ o \in Obj /\ t \in Outside => objOthers' = objOthers + 1
      /\ o \notin Obj \/ t \notin Outside => objOthers' = objOthers
      /\ o \in Inst /\ t \in Outside => instOthers' = instOthers + 1
      /\ o \notin Inst \/ t \notin Outside => instOthers' = instOthers
      /\ objOthers \in Int /\ instOthers \in Int
  BY <1>2, ObjectLifeAssumption DEF AddOthers, CountOthers, RefInv, RefTypes
<1>8. \A x \in Obj \cup Inst : x # o =>
        /\ Flight(pc[t], x) = 0 /\ Flight(q, x) = 0
        /\ Claimed(pc[t], x) = 0 /\ Claimed(q, x) = 0
  BY <1>3, NotAbout
<1>9. \A x \in Obj : /\ refcount'[x] = refcount[x] + (IF x = o THEN 0 ELSE 0)
                     /\ x \in alive' <=> refcount'[x] > 0
  BY <1>2, <1>5 DEF RefInv, RefExact
<1>10. /\ held[t][o] + Flight(q, o) = held[t][o] + Flight(pc[t], o) + 0
       /\ held[t][o] + Claimed(q, o) = held[t][o] + Claimed(pc[t], o) + 1
  <2>1. Flight(pc[t], o) \in Int
    BY DEF Flight
  <2>. QED  BY <1>2, <1>6, <2>1
<1> HIDE DEF o, q
<1>11. OnlyAbout(t, o, q, held[t])
  BY <1>2, <1>3, <1>4, <1>5, <1>8 DEF OnlyAbout
<1>12. UsesMove(t, o, q, held[t], 0)
  BY <1>2, <1>5, <1>9, <1>10 DEF UsesMove
<1>13. ClaimsMove(t, o, q, held[t], 1)
  BY <1>2, <1>7, <1>10 DEF ClaimsMove
<1>. QED  BY <1>11, <1>12, <1>13, RefStep

LEMMA SubOthersRef == ASSUME RefInv, IInv, NEW t \in Thread, SubOthers(t) PROVE RefInv'
<1> DEFINE o == pc[t].obj  q == [pc[t] EXCEPT !.at = "subRef"]
<1>1. pc[t].at = "subOthers" /\ pc[t].at \in Counting
  BY DEF SubOthers, At, Counting
<1>2. /\ pc[t] \in Pc /\ held[t] \in Held /\ o \in Obj \cup Inst /\ PlaceSound(pc[t], held[t])
      /\ refcount \in [Obj \cup Inst -> Int] /\ held = [held EXCEPT ![t] = held[t]]
      /\ held[t][o] \in Int
  <2>1. AtHandIs(t)
    BY <1>1, AtHand
  <2>. QED  BY <2>1, ObjectLifeAssumption DEF AtHandIs
<1>3. q \in Pc /\ q.at = "subRef" /\ q.obj = o /\ q.then = pc[t].then
  BY <1>2 DEF Pc, Places
<1>4. PlaceSound(q, held[t])
  BY <1>1, <1>2, <1>3 DEF PlaceSound, Counting
<1>5. pc' = [pc EXCEPT ![t] = q] /\ UNCHANGED <<alive, refcount, held>>
  BY DEF SubOthers, Go, IInv, Types
<1>6. Flight(q, o) = Flight(pc[t], o) /\ Claimed(q, o) = 0 /\ Claimed(pc[t], o) = 1
  BY <1>1, <1>3 DEF Flight, Claimed
<1>7. /\ objOthers' \in Int /\ instOthers' \in Int
      /\ o \in Obj /\ t \in Outside => objOthers' = objOthers + (-1)
      /\ o \notin Obj \/ t \notin Outside => objOthers' = objOthers
      /\ o \in Inst /\ t \in Outside => instOthers' = instOthers + (-1)
      /\ o \notin Inst \/ t \notin Outside => instOthers' = instOthers
      /\ objOthers \in Int /\ instOthers \in Int
  BY <1>2, ObjectLifeAssumption DEF SubOthers, CountOthers, RefInv, RefTypes
<1>8. \A x \in Obj \cup Inst : x # o =>
        /\ Flight(pc[t], x) = 0 /\ Flight(q, x) = 0
        /\ Claimed(pc[t], x) = 0 /\ Claimed(q, x) = 0
  BY <1>3, NotAbout
<1>9. \A x \in Obj : /\ refcount'[x] = refcount[x] + (IF x = o THEN 0 ELSE 0)
                     /\ x \in alive' <=> refcount'[x] > 0
  BY <1>2, <1>5 DEF RefInv, RefExact
<1>10. /\ held[t][o] + Flight(q, o) = held[t][o] + Flight(pc[t], o) + 0
       /\ held[t][o] + Claimed(q, o) = held[t][o] + Claimed(pc[t], o) + (-1)
  <2>1. Flight(pc[t], o) \in Int
    BY DEF Flight
  <2>. QED  BY <1>2, <1>6, <2>1
<1> HIDE DEF o, q
<1>11. OnlyAbout(t, o, q, held[t])
  BY <1>2, <1>3, <1>4, <1>5, <1>8 DEF OnlyAbout
<1>12. UsesMove(t, o, q, held[t], 0)
  BY <1>2, <1>5, <1>9, <1>10 DEF UsesMove
<1>13. ClaimsMove(t, o, q, held[t], -1)
  BY <1>2, <1>7, <1>10 DEF ClaimsMove
<1>. QED  BY <1>11, <1>12, <1>13, RefStep

\* One reference more, which t holds afterwards, or which CreateObject hands on.
LEMMA AddRefRef == ASSUME RefInv, IInv, NEW t \in Thread, AddRef(t) PROVE RefInv'
<1> DEFINE o == pc[t].obj
           on == [pc[t] EXCEPT !.at = "subOthers", !.then = "keep"]
           more == [held[t] EXCEPT ![o] = @ + 1]
           q == IF pc[t].then = "subOthers" THEN on ELSE Idle
           k == IF pc[t].then = "subOthers" THEN held[t] ELSE more
<1>1. pc[t].at = "addRef" /\ pc[t].at \in Counting
  BY DEF AddRef, At, Counting
<1>2. /\ pc[t] \in Pc /\ held[t] \in Held /\ o \in Obj \cup Inst /\ PlaceSound(pc[t], held[t])
      /\ refcount \in [Obj \cup Inst -> Int] /\ held = [held EXCEPT ![t] = held[t]]
      /\ held[t][o] \in 0 .. MaxHeld /\ held[t][o] \in Int
  <2>1. AtHandIs(t)
    BY <1>1, AtHand
  <2>. QED  BY <2>1, ObjectLifeAssumption DEF AtHandIs
<1>3. /\ on \in Pc /\ on.at = "subOthers" /\ on.obj = o /\ on.then = "keep"
  BY <1>2 DEF Pc, Places
<1>4. /\ pc[t].then = "subOthers" => o \in Obj /\ held[t][o] = 0
      /\ pc[t].then # "subOthers" => /\ pc[t].then = "idle" /\ held[t][o] < MaxHeld
                                     /\ o \in Obj => held[t][o] > 0
  BY <1>1, <1>2 DEF PlaceSound, Pc
<1>5. more[o] = held[t][o] + 1 /\ \A x \in Obj \cup Inst : x # o => more[x] = held[t][x]
  BY <1>2 DEF Held
<1>6. pc[t].then # "subOthers" => more \in Held
  BY <1>2, <1>4, ObjectLifeAssumption DEF Held
<1>7. /\ q \in Pc /\ k \in Held /\ PlaceSound(q, k)
      /\ \A x \in Obj \cup Inst : x # o => k[x] = held[t][x]
      /\ q.at \in Counting => q.obj = o
  <2>1. CASE pc[t].then = "subOthers"
    BY <1>2, <1>3, <1>4, <2>1 DEF PlaceSound, Counting
  <2>2. CASE pc[t].then # "subOthers"
    BY <1>5, <1>6, <2>2, IdleIsPc DEF PlaceSound, Counting, Idle
  <2>. QED  BY <2>1, <2>2
<1>8. pc' = [pc EXCEPT ![t] = q] /\ held' = [held EXCEPT ![t] = k]
  <2>1. CASE pc[t].then = "subOthers"
    <3>1. pc' = [pc EXCEPT ![t].at = "subOthers", ![t].then = "keep"] /\ held' = held
      BY <2>1 DEF AddRef
    <3>2. pc' = [pc EXCEPT ![t] = on]
      BY <3>1 DEF IInv, Types
    <3>. QED  BY <1>2, <2>1, <3>1, <3>2
  <2>2. CASE pc[t].then # "subOthers"
    <3>1. pc' = [pc EXCEPT ![t] = Idle] /\ held' = [held EXCEPT ![t][o] = @ + 1]
      BY <2>2 DEF AddRef
    <3>2. held' = [held EXCEPT ![t] = more]
      BY <3>1 DEF RefInv, RefTypes
    <3>. QED  BY <2>2, <3>1, <3>2
  <2>. QED  BY <2>1, <2>2
<1>9. /\ k[o] + Flight(q, o) = held[t][o] + Flight(pc[t], o) + 1
      /\ k[o] + Claimed(q, o) = held[t][o] + Claimed(pc[t], o) + 0
  <2>1. CASE pc[t].then = "subOthers"
    <3>1. Flight(q, o) = 2 /\ Flight(pc[t], o) = 1 /\ Claimed(q, o) = 1 /\ Claimed(pc[t], o) = 1
      BY <1>1, <1>3, <2>1 DEF Flight, Claimed
    <3>. QED  BY <1>2, <2>1, <3>1
  <2>2. CASE pc[t].then # "subOthers"
    <3>1. Flight(q, o) = 0 /\ Flight(pc[t], o) = 0 /\ Claimed(q, o) = 0 /\ Claimed(pc[t], o) = 1
      BY <1>1, <1>2, <2>2, ObjectLifeAssumption DEF Flight, Claimed, Idle
    <3>. QED  BY <1>2, <1>5, <2>2, <3>1
  <2>. QED  BY <2>1, <2>2
<1>10. /\ refcount' = [refcount EXCEPT ![o] = refcount[o] + 1]
       /\ UNCHANGED <<alive, objOthers, instOthers>>
  BY DEF AddRef
<1>11. o \in Obj => refcount[o] > 0 /\ o \in alive
  <2>1. CASE pc[t].then = "subOthers"
    <3>1. Flight(pc[t], o) = 1
      BY <1>1, <2>1 DEF Flight
    <3>. QED  BY <1>2, <3>1, UsedLives
  <2>2. CASE pc[t].then # "subOthers"
    <3>1. Flight(pc[t], o) = 0
      BY <1>1, <2>2 DEF Flight
    <3>. QED  BY <1>2, <1>4, <2>2, <3>1, UsedLives
  <2>. QED  BY <2>1, <2>2
<1>12. \A x \in Obj : /\ refcount'[x] = refcount[x] + (IF x = o THEN 1 ELSE 0)
                      /\ x \in alive' <=> refcount'[x] > 0
  <2>. SUFFICES ASSUME NEW x \in Obj
                PROVE  /\ refcount'[x] = refcount[x] + (IF x = o THEN 1 ELSE 0)
                       /\ x \in alive' <=> refcount'[x] > 0
    OBVIOUS
  <2>1. refcount[x] \in Int /\ (x \in alive <=> refcount[x] > 0)
    BY <1>2 DEF RefInv, RefExact
  <2>2. CASE x = o
    BY <1>2, <1>10, <1>11, <2>1, <2>2
  <2>3. CASE x # o
    BY <1>2, <1>10, <2>1, <2>3
  <2>. QED  BY <2>2, <2>3
<1>13. refcount' \in [Obj \cup Inst -> Int]
  <2>1. refcount[o] + 1 \in Int
    BY <1>2
  <2>. QED  BY <1>2, <1>10, <2>1
<1>14. /\ objOthers' \in Int /\ instOthers' \in Int
       /\ objOthers' <= objOthers + 0 /\ objOthers' <= objOthers
       /\ instOthers' >= instOthers + 0 /\ instOthers' >= instOthers
  BY <1>10 DEF RefInv, RefTypes
<1>15. \A x \in Obj \cup Inst : x # o =>
        /\ k[x] = held[t][x] /\ Flight(pc[t], x) = 0 /\ Flight(q, x) = 0
        /\ Claimed(pc[t], x) = 0 /\ Claimed(q, x) = 0
  BY <1>7, NotAbout
<1> HIDE DEF o, q, k
<1>16. OnlyAbout(t, o, q, k)
  BY <1>2, <1>7, <1>8, <1>15 DEF OnlyAbout
<1>17. UsesMove(t, o, q, k, 1)
  BY <1>9, <1>12, <1>13 DEF UsesMove
<1>18. ClaimsMove(t, o, q, k, 0)
  BY <1>9, <1>14 DEF ClaimsMove
<1>. QED  BY <1>16, <1>17, <1>18, RefStep

\* One reference less; CreateObject's caller has his from here on.  The object goes
\* with its last one.
LEMMA SubRefRef == ASSUME RefInv, IInv, NEW t \in Thread, SubRef(t) PROVE RefInv'
<1> DEFINE o == pc[t].obj
           kept == pc[t].then = "keep"
           more == [held[t] EXCEPT ![o] = @ + 1]
           k == IF kept THEN more ELSE held[t]
           m == IF kept THEN 1 ELSE 0
<1>1. pc[t].at = "subRef" /\ pc[t].at \in Counting
  BY DEF SubRef, At, Counting
<1>2. /\ pc[t] \in Pc /\ held[t] \in Held /\ o \in Obj \cup Inst /\ PlaceSound(pc[t], held[t])
      /\ refcount \in [Obj \cup Inst -> Int] /\ held = [held EXCEPT ![t] = held[t]]
      /\ held[t][o] \in 0 .. MaxHeld /\ held[t][o] \in Int
  <2>1. AtHandIs(t)
    BY <1>1, AtHand
  <2>. QED  BY <2>1, ObjectLifeAssumption DEF AtHandIs
<1>3. kept => o \in Obj /\ o \notin Inst /\ held[t][o] = 0
  BY <1>1, <1>2, ObjectLifeAssumption DEF PlaceSound
<1>4. more[o] = held[t][o] + 1 /\ \A x \in Obj \cup Inst : x # o => more[x] = held[t][x]
  BY <1>2 DEF Held
<1>5. kept => more \in Held
  BY <1>2, <1>3, ObjectLifeAssumption DEF Held
<1>6. /\ k \in Held /\ \A x \in Obj \cup Inst : x # o => k[x] = held[t][x]
      /\ k[o] = held[t][o] + m /\ m \in {0, 1}
  BY <1>2, <1>4, <1>5
<1>7. PlaceSound(Idle, k) /\ Idle \in Pc /\ Idle.at \notin Counting
  BY IdleIsPc DEF PlaceSound, Idle, Counting
<1>8. pc' = [pc EXCEPT ![t] = Idle] /\ held' = [held EXCEPT ![t] = k]
  <2>1. CASE kept
    BY <2>1 DEF SubRef, RefInv, RefTypes
  <2>2. CASE ~kept
    BY <1>2, <2>2 DEF SubRef
  <2>. QED  BY <2>1, <2>2, <1>2 DEF SubRef
<1>9. /\ Flight(Idle, o) = 0 /\ Claimed(Idle, o) = 0 /\ Claimed(pc[t], o) = 0
      /\ Flight(pc[t], o) = 1 + m
  BY <1>1, <1>7, NotAbout DEF Flight, Claimed
<1>10. /\ k[o] + Flight(Idle, o) = held[t][o] + Flight(pc[t], o) + (-1)
       /\ k[o] + Claimed(Idle, o) = held[t][o] + Claimed(pc[t], o) + m
  BY <1>2, <1>6, <1>9
<1>11. /\ refcount' = [refcount EXCEPT ![o] = refcount[o] - 1]
       /\ alive' = IF o \in Obj /\ refcount'[o] = 0 THEN alive \ {o} ELSE alive
       /\ UNCHANGED <<objOthers, instOthers>>
  BY DEF SubRef
<1>12. o \in Obj => refcount[o] > 0 /\ o \in alive
  <2>1. held[t][o] + Flight(pc[t], o) > 0
    BY <1>2, <1>6, <1>9, ObjectLifeAssumption
  <2>. QED  BY <2>1, UsedLives
<1>13. \A x \in Obj : refcount'[x] = refcount[x] + (IF x = o THEN -1 ELSE 0)
  BY <1>2, <1>11
<1>14. \A x \in Obj : x \in alive' <=> refcount'[x] > 0
  <2>. SUFFICES ASSUME NEW x \in Obj PROVE x \in alive' <=> refcount'[x] > 0
    OBVIOUS
  <2>1. refcount[x] \in Int /\ (x \in alive <=> refcount[x] > 0)
    BY <1>2 DEF RefInv, RefExact
  <2>2. CASE x = o
    <3>1. refcount'[x] = refcount[x] - 1
      BY <1>2, <1>11, <2>2
    <3>. QED  BY <1>11, <1>12, <2>1, <2>2, <3>1
  <2>3. CASE x # o
    <3>1. refcount'[x] = refcount[x] /\ (x \in alive' <=> x \in alive)
      BY <1>2, <1>11, <2>3
    <3>. QED  BY <2>1, <3>1
  <2>. QED  BY <2>2, <2>3
<1>15. refcount' \in [Obj \cup Inst -> Int]
  <2>1. refcount[o] - 1 \in Int
    BY <1>2
  <2>. QED  BY <1>2, <1>11, <2>1
<1>16. /\ objOthers' \in Int /\ instOthers' \in Int
       /\ objOthers' <= objOthers /\ objOthers' <= objOthers + m
       /\ instOthers' >= instOthers /\ (m # 0 => o \notin Inst)
  BY <1>3, <1>6, <1>11 DEF RefInv, RefTypes
<1>17. \A x \in Obj \cup Inst : x # o =>
        /\ k[x] = held[t][x] /\ Flight(pc[t], x) = 0 /\ Flight(Idle, x) = 0
        /\ Claimed(pc[t], x) = 0 /\ Claimed(Idle, x) = 0
  BY <1>6, <1>7, NotAbout
<1> HIDE DEF o, k, m, kept
<1>18. OnlyAbout(t, o, Idle, k)
  BY <1>2, <1>6, <1>7, <1>8, <1>17 DEF OnlyAbout
<1>19. UsesMove(t, o, Idle, k, -1)
  BY <1>10, <1>13, <1>14, <1>15 DEF UsesMove
<1>20. ClaimsMove(t, o, Idle, k, m)
  <2>1. m \in {-1, 0, 1} /\ k[o] + Claimed(Idle, o) = held[t][o] + Claimed(pc[t], o) + m
    BY <1>6, <1>10
  <2>2. IF o \in Inst /\ t \in Outside THEN instOthers' >= instOthers + m ELSE instOthers' >= instOthers
    BY <1>6, <1>11, <1>16 DEF RefInv, RefTypes
  <2>. QED  BY <1>16, <2>1, <2>2 DEF ClaimsMove
<1>. QED  BY <1>18, <1>19, <1>20, RefStep

\* A thread that was counting nothing begins to, with object o.
LEMMA Begins ==
  ASSUME RefInv, IInv, NEW t \in Thread, pc[t].at \notin Counting,
         NEW o \in Obj \cup Inst, NEW q \in Pc, q.obj = o, NEW k \in Held, PlaceSound(q, k),
         pc' = [pc EXCEPT ![t] = q], held' = [held EXCEPT ![t] = k],
         \A x \in Obj \cup Inst : x # o => k[x] = held[t][x]
  PROVE  /\ OnlyAbout(t, o, q, k) /\ Flight(pc[t], o) = 0 /\ Claimed(pc[t], o) = 0
         /\ held[t] \in Held /\ held[t][o] \in 0 .. MaxHeld /\ held[t][o] \in Int
         /\ objOthers \in Int /\ instOthers \in Int /\ refcount \in [Obj \cup Inst -> Int]
<1>1. \A x \in Obj \cup Inst : Flight(pc[t], x) = 0 /\ Claimed(pc[t], x) = 0
  BY NotAbout
<1>2. \A x \in Obj \cup Inst : x # o => Flight(q, x) = 0 /\ Claimed(q, x) = 0
  BY NotAbout
<1>3. OnlyAbout(t, o, q, k)
  BY <1>1, <1>2 DEF OnlyAbout
<1>4. held[t] \in Held /\ objOthers \in Int /\ instOthers \in Int
      /\ refcount \in [Obj \cup Inst -> Int]
  BY DEF RefInv, RefTypes
<1>5. held[t][o] \in 0 .. MaxHeld
  BY <1>4 DEF Held
<1>. QED  BY <1>1, <1>3, <1>4, <1>5, ObjectLifeAssumption

\* A copy of what is held, or of Instance(), counts when its AddRef is through.
LEMMA CopyRef ==
  ASSUME RefInv, IInv, NEW t \in Thread, pc[t].at \notin Counting, NEW o \in Obj \cup Inst,
         held[t][o] < MaxHeld, o \in Obj => held[t][o] > 0,
         pc' = [pc EXCEPT ![t] = [at |-> "addOthers", obj |-> o, then |-> "idle", slot |-> -1]],
         UNCHANGED <<alive, held, objVars>>
  PROVE  RefInv'
<1> DEFINE q == [at |-> "addOthers", obj |-> o, then |-> "idle", slot |-> -1]
<1>1. q \in Pc /\ q.obj = o /\ q.at = "addOthers" /\ q.then = "idle"
  BY DEF Pc, Places
<1>2. PlaceSound(q, held[t])
  BY <1>1 DEF PlaceSound, Counting
<1>3. held[t] \in Held /\ held' = [held EXCEPT ![t] = held[t]]
  BY DEF RefInv, RefTypes
<1>4. Flight(q, o) = 0 /\ Claimed(q, o) = 0
  BY <1>1 DEF Flight, Claimed
<1>5. pc' = [pc EXCEPT ![t] = q] /\ UNCHANGED <<refcount, objOthers, instOthers>>
  BY DEF objVars
<1> HIDE DEF q
<1>6. /\ OnlyAbout(t, o, q, held[t]) /\ Flight(pc[t], o) = 0 /\ Claimed(pc[t], o) = 0
      /\ held[t][o] \in Int /\ objOthers \in Int /\ instOthers \in Int
      /\ refcount \in [Obj \cup Inst -> Int]
  BY <1>1, <1>2, <1>3, <1>5, Begins
<1>7. UsesMove(t, o, q, held[t], 0)
  <2>1. \A x \in Obj : refcount'[x] = refcount[x] + (IF x = o THEN 0 ELSE 0)
    BY <1>5, <1>6
  <2>2. \A x \in Obj : x \in alive' <=> refcount'[x] > 0
    BY <1>5 DEF RefInv, RefExact
  <2>3. held[t][o] + Flight(q, o) = held[t][o] + Flight(pc[t], o) + 0
    BY <1>4, <1>6
  <2>. QED  BY <1>5, <1>6, <2>1, <2>2, <2>3 DEF UsesMove
<1>8. ClaimsMove(t, o, q, held[t], 0)
  BY <1>4, <1>5, <1>6 DEF ClaimsMove
<1>. QED  BY <1>6, <1>7, <1>8, RefStep

\* A dropped reference counts until its Release is through.
LEMMA ReleaseRef ==
  ASSUME RefInv, IInv, NEW t \in Thread, NEW o \in Obj \cup Inst, ReleaseInterface(t, o)
  PROVE  RefInv'
<1> DEFINE q == [at |-> "subOthers", obj |-> o, then |-> "idle", slot |-> -1]
           k == [held[t] EXCEPT ![o] = @ - 1]
<1>1. q \in Pc /\ q.obj = o /\ q.at = "subOthers" /\ q.then = "idle"
  BY DEF Pc, Places
<1>2. PlaceSound(q, k)
  BY <1>1 DEF PlaceSound, Counting
<1>3. held[t] \in Held /\ held[t][o] \in 0 .. MaxHeld /\ held[t][o] > 0
  BY DEF RefInv, RefTypes, Held, ReleaseInterface
<1>4. /\ k \in Held /\ k[o] = held[t][o] - 1
      /\ \A x \in Obj \cup Inst : x # o => k[x] = held[t][x]
  BY <1>3, ObjectLifeAssumption DEF Held
<1>5. /\ pc' = [pc EXCEPT ![t] = q] /\ held' = [held EXCEPT ![t] = k]
      /\ UNCHANGED <<alive, refcount, objOthers, instOthers>> /\ pc[t].at \notin Counting
  BY DEF ReleaseInterface, RefInv, RefTypes, objVars, At, Counting
<1>6. Flight(q, o) = 1 /\ Claimed(q, o) = 1
  BY <1>1 DEF Flight, Claimed
<1> HIDE DEF q, k
<1>7. /\ OnlyAbout(t, o, q, k) /\ Flight(pc[t], o) = 0 /\ Claimed(pc[t], o) = 0
      /\ held[t][o] \in Int /\ objOthers \in Int /\ instOthers \in Int
      /\ refcount \in [Obj \cup Inst -> Int]
  BY <1>1, <1>2, <1>4, <1>5, Begins
<1>8. UsesMove(t, o, q, k, 0)
  <2>1. \A x \in Obj : refcount'[x] = refcount[x] + (IF x = o THEN 0 ELSE 0)
    BY <1>5, <1>7
  <2>2. \A x \in Obj : x \in alive' <=> refcount'[x] > 0
    BY <1>5 DEF RefInv, RefExact
  <2>3. k[o] + Flight(q, o) = held[t][o] + Flight(pc[t], o) + 0
    BY <1>4, <1>6, <1>7
  <2>. QED  BY <1>5, <1>7, <2>1, <2>2, <2>3 DEF UsesMove
<1>9. ClaimsMove(t, o, q, k, 0)
  BY <1>4, <1>5, <1>6, <1>7 DEF ClaimsMove
<1>. QED  BY <1>7, <1>8, <1>9, RefStep

\* A new object: nobody had a use of it, for it did not live.
LEMMA CreateRef ==
  ASSUME RefInv, IInv, NEW t \in Thread, NEW o \in Obj, NEW supported \in BOOLEAN,
         CreateObject(t, o, supported)
  PROVE  RefInv'
<1> DEFINE q == IF supported
                THEN [at |-> "addOthers", obj |-> o, then |-> "subOthers", slot |-> -1]
                ELSE [at |-> "subOthers", obj |-> o, then |-> "idle", slot |-> -1]
           m == IF supported THEN 0 ELSE 1
<1>1. /\ q \in Pc /\ q.obj = o
      /\ q.at = (IF supported THEN "addOthers" ELSE "subOthers")
      /\ q.then = (IF supported THEN "subOthers" ELSE "idle")
  BY DEF Pc, Places
<1>2. /\ o \notin alive /\ alive' = alive \cup {o}
      /\ refcount' = [refcount EXCEPT ![o] = 1]
      /\ pc' = [pc EXCEPT ![t] = q] /\ UNCHANGED <<held, objOthers, instOthers>>
      /\ pc[t].at \notin Counting
  BY DEF CreateObject, IInv, Types, At, Counting
<1>3. refcount[o] = 0 /\ held[t][o] = 0
  BY <1>2, UnusedIsFree
<1>4. held[t] \in Held /\ held' = [held EXCEPT ![t] = held[t]]
  BY <1>2 DEF RefInv, RefTypes
<1>5. PlaceSound(q, held[t])
  BY <1>1, <1>3 DEF PlaceSound, Counting
<1>6. Flight(q, o) = 1 /\ Claimed(q, o) = m /\ m \in {0, 1}
  BY <1>1 DEF Flight, Claimed
<1> HIDE DEF q, m
<1>7. /\ OnlyAbout(t, o, q, held[t]) /\ Flight(pc[t], o) = 0 /\ Claimed(pc[t], o) = 0
      /\ objOthers \in Int /\ instOthers \in Int /\ refcount \in [Obj \cup Inst -> Int]
  BY <1>1, <1>2, <1>4, <1>5, Begins
<1>8. UsesMove(t, o, q, held[t], 1)
  <2>1. \A x \in Obj : refcount'[x] = refcount[x] + (IF x = o THEN 1 ELSE 0)
    BY <1>2, <1>3, <1>7
  <2>2. ASSUME NEW x \in Obj PROVE x \in alive' <=> refcount'[x] > 0
    BY <1>2, <1>7 DEF RefInv, RefExact
  <2>3. held[t][o] + Flight(q, o) = held[t][o] + Flight(pc[t], o) + 1
    BY <1>3, <1>6, <1>7
  <2>4. refcount' \in [Obj \cup Inst -> Int]
    BY <1>2, <1>7
  <2>. QED  BY <2>1, <2>2, <2>3, <2>4 DEF UsesMove
<1>9. ClaimsMove(t, o, q, held[t], m)
  <2>1. held[t][o] + Claimed(q, o) = held[t][o] + Claimed(pc[t], o) + m
    BY <1>3, <1>6, <1>7
  <2>2. o \notin Inst
    BY ObjectLifeAssumption
  <2>. QED  BY <1>2, <1>6, <1>7, <2>1, <2>2 DEF ClaimsMove
<1>. QED  BY <1>7, <1>8, <1>9, RefStep

\* A thread that counts nothing goes on to where it counts nothing either.
LEMMA QuietGo ==
  ASSUME RefInv, IInv, NEW t \in Thread, NEW place \in Places, NEW new \in Pc,
         new.at = place, new.then = pc[t].then, place \notin Counting, pc[t].at \notin Counting,
         pc' = [pc EXCEPT ![t] = new],
         UNCHANGED <<held, refcount, objOthers, instOthers>>,
         \A x \in Obj : x \in alive' <=> x \in alive
  PROVE  RefInv'
<1>1. new.then = "idle"
  <2>1. PlaceSound(pc[t], held[t]) /\ pc[t] \in Pc
    BY DEF RefInv, IInv, Types
  <2>. QED  BY <2>1 DEF PlaceSound
<1>2. /\ refcount' \in [Obj \cup Inst -> Int] /\ instOthers' \in Int /\ instOthers' >= instOthers
      /\ held' = held /\ objOthers' = objOthers
  BY DEF RefInv, RefTypes
<1>. QED  BY <1>1, <1>2, RefQuiet

\* The threads that race for the singleton touch neither an object of the regular
\* class nor a reference, but for the creator's, which the counter may count.
LEMMA RaceRef ==
  ASSUME RefInv, IInv, index \in Int, NEW t \in Thread,
         \/ TestInstance(t) \/ Lock(t) \/ Publish(t) \/ FirstRef(t) \/ ReserveItem(t)
         \/ StoreItem(t) \/ Lose(t) \/ Unlock(t)
         \/ Use(t) /\ instance = None
         \/ \E p \in Inst : NewInstance(t, p)
  PROVE  RefInv'
<1> DEFINE Next1(place) == [pc[t] EXCEPT !.at = place]
<1>0. pc[t] \in Pc /\ PlaceSound(pc[t], held[t]) /\ Obj \cap Inst = {}
  BY ObjectLifeAssumption DEF RefInv, IInv, Types
<1>1. ASSUME NEW place \in Places
      PROVE  /\ Next1(place) \in Pc /\ Next1(place).at = place
             /\ Next1(place).then = pc[t].then /\ Next1(place).obj = pc[t].obj
  BY <1>0 DEF Pc
<1>2. ASSUME NEW place, Go(t, place) PROVE pc' = [pc EXCEPT ![t] = Next1(place)]
  BY <1>2 DEF Go, IInv, Types
<1> HIDE DEF Next1
<1>3. ASSUME NEW place \in Places, Go(t, place), place \notin Counting, pc[t].at \notin Counting,
             UNCHANGED <<held, refcount, objOthers, instOthers>>,
             \A x \in Obj : x \in alive' <=> x \in alive
      PROVE  RefInv'
  BY <1>1, <1>2, <1>3, QuietGo
<1>4. CASE TestInstance(t)
  BY <1>3, <1>4 DEF TestInstance, At, Places, Counting, objVars
<1>5. CASE Lock(t)
  BY <1>3, <1>5 DEF Lock, At, Places, Counting, objVars
<1>6. CASE Publish(t)
  BY <1>3, <1>6 DEF Publish, At, Places, Counting, objVars
<1>7. CASE StoreItem(t)
  BY <1>3, <1>7 DEF StoreItem, At, Places, Counting, objVars
<1>8. CASE Unlock(t)
  BY <1>3, <1>8 DEF Unlock, At, Places, Counting, objVars
<1>9. CASE Use(t) /\ instance = None
  BY <1>3, <1>9 DEF Use, At, Places, Counting, objVars
<1>10. CASE Lose(t)
  <2>1. pc[t].obj \in Inst
    BY <1>10 DEF IInv, OwnsSound, Owns, Owning, Lose, At
  <2>2. \A x \in Obj : x \in alive' <=> x \in alive
    BY <1>0, <1>10, <2>1 DEF Lose
  <2>. QED  BY <1>3, <1>10, <2>2 DEF Lose, At, Places, Counting, objVars
<1>11. CASE ReserveItem(t)
  <2> DEFINE new == [pc[t] EXCEPT !.at = "store", !.slot = index - 1]
  <2>1. /\ new \in Pc /\ new.at = "store" /\ new.then = pc[t].then
    <3>1. index - 1 \in Int /\ "store" \in Places
      BY DEF Places
    <3>. QED  BY <1>0, <3>1 DEF Pc
  <2>2. pc' = [pc EXCEPT ![t] = new]
    BY <1>11 DEF ReserveItem, IInv, Types
  <2> HIDE DEF new
  <2>. QED  BY <1>11, <2>1, <2>2, QuietGo DEF ReserveItem, At, Places, Counting, objVars
<1>12. CASE \E p \in Inst : NewInstance(t, p)
  <2>1. PICK p \in Inst : NewInstance(t, p)
    BY <1>12
  <2> DEFINE new == [pc[t] EXCEPT !.at = "lock", !.obj = p]
  <2>2. /\ new \in Pc /\ new.at = "lock" /\ new.then = pc[t].then
    BY <1>0 DEF Pc, Places
  <2>3. pc' = [pc EXCEPT ![t] = new]
    BY <2>1 DEF NewInstance, IInv, Types
  <2>4. \A x \in Obj : x \in alive' <=> x \in alive
    BY <1>0, <2>1 DEF NewInstance
  <2> HIDE DEF new
  <2>. QED  BY <2>1, <2>2, <2>3, <2>4, QuietGo DEF NewInstance, At, Places, Counting, objVars
<1>13. CASE FirstRef(t)
  <2>1. pc[t].at = "first" /\ pc[t].obj \in Inst
    BY <1>13 DEF IInv, OwnsSound, Owns, Owning, FirstRef, At
  <2>2. pc[t].then = "idle"
    BY <1>0, <2>1 DEF PlaceSound, Counting
  <2>3. refcount \in [Obj \cup Inst -> Int] /\ objOthers \in Int /\ instOthers \in Int
    BY DEF RefInv, RefTypes
  <2>4. /\ refcount' = [refcount EXCEPT ![pc[t].obj] = @ + 1]
        /\ objOthers' = objOthers
        /\ instOthers' = instOthers \/ instOthers' = instOthers + 1
        /\ UNCHANGED <<alive, held>>
    BY <1>0, <1>13, <2>1 DEF FirstRef, CountOthers
  <2>5. refcount' \in [Obj \cup Inst -> Int]
    BY <2>1, <2>3, <2>4
  <2>6. \A x \in Obj : refcount'[x] = refcount[x] /\ (x \in alive' <=> x \in alive)
    BY <1>0, <2>1, <2>3, <2>4
  <2>7. instOthers' \in Int /\ instOthers' >= instOthers
    BY <2>3, <2>4
  <2>8. pc' = [pc EXCEPT ![t] = Next1("reserve")] /\ "reserve" \in Places
    BY <1>2, <1>13 DEF FirstRef, Places
  <2>9. "reserve" \notin Counting /\ pc[t].at \notin Counting
    BY <2>1 DEF Counting
  <2>. QED  BY <1>1, <2>2, <2>4, <2>5, <2>6, <2>7, <2>8, <2>9, RefQuiet
<1>. QED  BY <1>4, <1>5, <1>6, <1>7, <1>8, <1>9, <1>10, <1>11, <1>12, <1>13

\* Unloading deletes instances only, and takes no reference from anybody.
LEMMA LoaderRef ==
  ASSUME RefInv, IInv,
         \/ \E force \in BOOLEAN : UnloadPlugin(force)
         \/ \E c \in Classes : AskClass(c)
         \/ BeginClear \/ SkipItem \/ DestroyItem \/ ResetInstance \/ FreeItem \/ DropItem
         \/ EndClear \/ FreeItems \/ ReleaseModule
  PROVE  RefInv'
<1>1. UNCHANGED <<refcount, objOthers, instOthers, held, pc>>
  BY DEF UnloadPlugin, AskClass, BeginClear, SkipItem, DestroyItem, ResetInstance, FreeItem,
         DropItem, EndClear, FreeItems, ReleaseModule, objVars
<1>2. \A x \in Obj : x \in alive' <=> x \in alive
  <2>1. CASE FreeItem
    <3>1. items[unload.slot] \in Inst \cup {None}
      BY <2>1 DEF FreeItem, IInv, LoaderSound, Types
    <3>. QED  BY <2>1, <3>1, ObjectLifeAssumption DEF FreeItem
  <2>2. CASE ~FreeItem
    BY <2>2 DEF UnloadPlugin, AskClass, BeginClear, SkipItem, DestroyItem, ResetInstance,
                DropItem, EndClear, FreeItems, ReleaseModule
  <2>. QED  BY <2>1, <2>2
<1>3. RefTypes' /\ ClaimsBound' /\ \A t \in Thread : PlaceSound(pc'[t], held'[t])
  BY <1>1 DEF RefInv, RefTypes, ClaimsBound, Claims, Total
<1>4. \A o \in Obj : Uses(o)' = Uses(o)
  BY <1>1 DEF Uses, InFlight
<1>5. RefExact'
  BY <1>1, <1>2, <1>4 DEF RefInv, RefExact, Total
<1>. QED  BY <1>3, <1>5 DEF RefInv

LEMMA RefStutter == ASSUME RefInv, UNCHANGED vars PROVE RefInv'
<1>1. RefTypes' /\ ClaimsBound' /\ \A t \in Thread : PlaceSound(pc'[t], held'[t])
  BY DEF vars, objVars, RefInv, RefTypes, ClaimsBound, Claims, Total
<1>2. \A o \in Obj : Uses(o)' = Uses(o)
  BY DEF vars, Uses, InFlight
<1>3. RefExact'
  BY <1>2 DEF vars, objVars, RefInv, RefExact, Total
<1>. QED  BY <1>1, <1>3 DEF RefInv

LEMMA RefNext == RefInv /\ Indexed /\ [Next]_vars => RefInv'
<1>. SUFFICES ASSUME RefInv, Indexed, [Next]_vars PROVE RefInv'
  OBVIOUS
<1>0. IInv /\ index \in Int
  BY DEF Indexed, SlotSound
<1>1. CASE UNCHANGED vars
  BY <1>1, RefStutter
<1>2. ASSUME NEW t \in Thread, AddOthers(t) \/ AddRef(t) \/ SubOthers(t) \/ SubRef(t)
      PROVE  RefInv'
  BY <1>0, <1>2, AddOthersRef, AddRefRef, SubOthersRef, SubRefRef
<1>3. ASSUME NEW t \in Thread,
             \/ TestInstance(t) \/ Lock(t) \/ Publish(t) \/ FirstRef(t) \/ ReserveItem(t)
             \/ StoreItem(t) \/ Lose(t) \/ Unlock(t)
      PROVE  RefInv'
  BY <1>0, <1>3, RaceRef
<1>4. ASSUME NEW t \in Thread, Use(t) PROVE RefInv'
  <2>1. CASE instance = None
    BY <1>0, <1>4, <2>1, RaceRef
  <2>2. CASE instance # None
    <3>1. instance \in Inst /\ instance \notin Obj /\ pc[t].at \notin Counting
      BY <1>0, <1>4, <2>2, ObjectLifeAssumption DEF IInv, Types, Use, At, Counting
    <3>2. /\ held[t][instance] < MaxHeld
          /\ pc' = [pc EXCEPT ![t] = [at |-> "addOthers", obj |-> instance,
                                      then |-> "idle", slot |-> -1]]
          /\ UNCHANGED <<alive, held, objVars>>
      BY <1>4, <2>2 DEF Use
    <3>. QED  BY <1>0, <3>1, <3>2, CopyRef
  <2>. QED  BY <2>1, <2>2
<1>5. ASSUME NEW t \in Thread, NEW o \in Obj, NEW supported \in BOOLEAN,
             CreateObject(t, o, supported)
      PROVE  RefInv'
  BY <1>0, <1>5, CreateRef
<1>6. ASSUME NEW t \in Thread, NEW o \in Obj \cup Inst, CopyInterface(t, o) PROVE RefInv'
  <2>1. held[t][o] \in 1 .. (MaxHeld - 1) /\ pc[t].at \notin Counting
    BY <1>6 DEF CopyInterface, At, Counting
  <2>2. held[t][o] > 0 /\ held[t][o] < MaxHeld
    BY <2>1, ObjectLifeAssumption
  <2>. QED  BY <1>0, <1>6, <2>1, <2>2, CopyRef DEF CopyInterface
<1>7. ASSUME NEW t \in Thread, NEW o \in Obj \cup Inst, ReleaseInterface(t, o) PROVE RefInv'
  BY <1>0, <1>7, ReleaseRef
<1>8. ASSUME NEW t \in Thread, NEW p \in Inst, NewInstance(t, p) PROVE RefInv'
  BY <1>0, <1>8, RaceRef
<1>9. CASE \/ \E force \in BOOLEAN : UnloadPlugin(force)
           \/ \E c \in Classes : AskClass(c)
           \/ BeginClear \/ SkipItem \/ DestroyItem \/ ResetInstance \/ FreeItem \/ DropItem
           \/ EndClear \/ FreeItems \/ ReleaseModule
  BY <1>0, <1>9, LoaderRef
<1>. QED  BY <1>1, <1>2, <1>3, <1>4, <1>5, <1>6, <1>7, <1>8, <1>9 DEF Next

LEMMA RefInductive == Spec => [](RefInv /\ Indexed)
<1>. QED  BY RefInitInv, RefNext, Inductive, PTL DEF Spec

-----------------------------------------------------------------------------
\* m_refcount of a regular object is the number of references its users have, and
\* the object lives exactly while there is one, whatever the threads do between
\* the two halves of AddRef and Release, inside CreateObject, or while the
\* singleton is created and the plugin unloaded (Cx_Object).
THEOREM ObjectRefExact == Spec => []RefExact
<1>1. RefInv => RefExact
  BY DEF RefInv
<1>. QED  BY <1>1, RefInductive, PTL

\* With no call under way the counter that CanUnloadPlugin reads is at most the
\* number of references other modules have: the regular class never keeps a
\* plugin in memory without a user (RefCountByOthers, Cx_Module::CanUnloadPlugin).
THEOREM ObjectNeverStuck == Spec => []NeverStuck
<1>1. RefInv => NeverStuck
  <2>. SUFFICES ASSUME RefInv, AllIdle PROVE objOthers <= OutsideRefs
    BY DEF NeverStuck
  <2>1. Claims(Obj) = [x \in Outside \X Obj |-> held[x[1]][x[2]]]
    <3>1. ASSUME NEW x \in Outside \X Obj
          PROVE  held[x[1]][x[2]] + Claimed(pc[x[1]], x[2]) = held[x[1]][x[2]]
      <4>1. x[1] \in Thread /\ x[2] \in Obj \cup Inst
        BY ObjectLifeAssumption
      <4>2. Claimed(pc[x[1]], x[2]) = 0
        BY <4>1 DEF AllIdle, Idle, Claimed
      <4>3. held[x[1]][x[2]] \in Int
        BY <4>1, ObjectLifeAssumption DEF RefInv, RefTypes, Held
      <4>. QED  BY <4>2, <4>3
    <3>. QED  BY <3>1 DEF Claims
  <2>2. objOthers <= Total(Outside \X Obj, Claims(Obj))
    BY DEF RefInv, ClaimsBound
  <2>. QED  BY <2>1, <2>2 DEF OutsideRefs
<1>. QED  BY <1>1, RefInductive, PTL

\* While the counter of the singleton class is not positive, no other module has
\* the singleton.
LEMMA NobodyHasIt ==
  ASSUME RefInv, instOthers <= 0, NEW t \in Outside, NEW p \in Inst
  PROVE  held[t][p] = 0
<1>1. /\ Claims(Inst) \in [Outside \X Inst -> 0 .. (MaxHeld + 2)]
      /\ IsFiniteSet(Outside \X Inst)
  BY CountTypes, Finite DEF RefInv, RefTypes
<1>2. Total(Outside \X Inst, Claims(Inst)) \in Nat
  BY <1>1, BelowFinite
<1>3. Total(Outside \X Inst, Claims(Inst)) = 0
  BY <1>2 DEF RefInv, RefTypes, ClaimsBound
<1>4. Claims(Inst)[<<t, p>>] = 0
  BY <1>1, <1>3, TotalZero
<1>5. held[t][p] + Claimed(pc[t], p) = 0
  BY <1>4 DEF Claims
<1>6. t \in Thread /\ held[t] \in Held
  BY ObjectLifeAssumption DEF RefInv, RefTypes
<1>7. held[t][p] \in 0 .. MaxHeld /\ Claimed(pc[t], p) \in 0 .. 1
  BY <1>6, FlightRange
<1>. QED  BY <1>5, <1>7, ObjectLifeAssumption

\* Once an unload that is not forced has read the counter of the singleton class,
\* another module that has the singleton got it since the unload began.
Asked == unload.at # "no" /\ ~unload.force /\ "singleton" \notin unload.left
AskedSound ==
  /\ Asked => \A t \in Outside \ late, p \in Inst : held[t][p] = 0
  /\ unload.at \notin {"no", "ask"} => "singleton" \notin unload.left

\* A thread gets the singleton in AddRef only, which notes it.
LEMMA ThreadAsked ==
  ASSUME AskedSound, RefInv, IInv, NEW t \in Thread,
         \/ AddOthers(t) \/ AddRef(t) \/ SubOthers(t) \/ SubRef(t)
         \/ TestInstance(t) \/ Lock(t) \/ Publish(t) \/ FirstRef(t)
         \/ ReserveItem(t) \/ StoreItem(t) \/ Lose(t) \/ Unlock(t) \/ Use(t)
         \/ \E o \in Obj, supported \in BOOLEAN : CreateObject(t, o, supported)
         \/ \E o \in Obj \cup Inst : CopyInterface(t, o) \/ ReleaseInterface(t, o)
         \/ \E p \in Inst : NewInstance(t, p)
  PROVE  AskedSound'
<1>1. unload' = unload
  BY DEF AddOthers, AddRef, SubOthers, SubRef, TestInstance, Lock, Publish, FirstRef,
         ReserveItem, StoreItem, Lose, Unlock, Use, CreateObject, CopyInterface,
         ReleaseInterface, NewInstance, loadVars
<1>2. ASSUME Asked, NEW s \in Outside \ late', NEW p \in Inst PROVE held'[s][p] = 0
  <2>0. s \in Thread /\ p \in Obj \cup Inst /\ p \notin Obj /\ held \in [Thread -> Held]
        /\ unload.at # "no" /\ Outside \subseteq Thread
    BY <1>2, ObjectLifeAssumption DEF RefInv, RefTypes, Asked
  <2>1. CASE UNCHANGED <<held, late>>
    BY <1>2, <2>1 DEF AskedSound
  <2>2. CASE AddRef(t)
    <3>1. late \subseteq late' /\ held[s][p] = 0
      BY <1>2, <2>2 DEF AddRef, AskedSound
    <3>2. CASE held' = held
      BY <3>1, <3>2
    <3>3. CASE held' = [held EXCEPT ![t][pc[t].obj] = @ + 1] /\ pc[t].then # "subOthers"
      <4>1. t \in Outside /\ pc[t].obj \in Inst => t \in late'
        BY <2>0, <2>2 DEF AddRef
      <4>2. s # t \/ p # pc[t].obj
        BY <1>2, <4>1
      <4>. QED  BY <2>0, <3>1, <3>3, <4>2 DEF Held
    <3>. QED  BY <2>2, <3>2, <3>3 DEF AddRef
  <2>3. CASE SubRef(t)
    <3>1. held[s][p] = 0
      BY <1>2, <2>3 DEF SubRef, AskedSound, loadVars
    <3>2. CASE held' = held
      BY <3>1, <3>2
    <3>3. CASE held' = [held EXCEPT ![t][pc[t].obj] = @ + 1] /\ pc[t].then = "keep"
      <4>1. p # pc[t].obj
        BY <2>0, <3>3 DEF RefInv, PlaceSound
      <4>. QED  BY <2>0, <3>1, <3>3, <4>1 DEF Held
    <3>. QED  BY <2>3, <3>2, <3>3 DEF SubRef
  <2>4. CASE \E o \in Obj \cup Inst : ReleaseInterface(t, o)
    <3>1. PICK o \in Obj \cup Inst : ReleaseInterface(t, o)
      BY <2>4
    <3>2. held[s][p] = 0
      BY <1>2, <3>1 DEF ReleaseInterface, AskedSound, loadVars
    <3>3. s # t \/ p # o
      BY <3>1, <3>2 DEF ReleaseInterface
    <3>4. held' = [held EXCEPT ![t][o] = @ - 1]
      BY <3>1 DEF ReleaseInterface
    <3>. QED  BY <2>0, <3>2, <3>3, <3>4 DEF Held
  <2>5. CASE \/ AddOthers(t) \/ SubOthers(t)
             \/ TestInstance(t) \/ Lock(t) \/ Publish(t) \/ FirstRef(t)
             \/ ReserveItem(t) \/ StoreItem(t) \/ Lose(t) \/ Unlock(t) \/ Use(t)
             \/ \E o \in Obj, supported \in BOOLEAN : CreateObject(t, o, supported)
             \/ \E o \in Obj \cup Inst : CopyInterface(t, o)
             \/ \E q \in Inst : NewInstance(t, q)
    BY <2>1, <2>5
       DEF AddOthers, SubOthers, TestInstance, Lock, Publish, FirstRef, ReserveItem, StoreItem,
           Lose, Unlock, Use, CreateObject, CopyInterface, NewInstance, loadVars
  <2>. QED  BY <2>2, <2>3, <2>4, <2>5
<1>. QED  BY <1>1, <1>2 DEF AskedSound, Asked

\* The loader asks the singleton's class, or goes on with what it asked.
LEMMA LoaderAsked ==
  ASSUME AskedSound, RefInv, IInv,
         \/ \E force \in BOOLEAN : UnloadPlugin(force)
         \/ \E c \in Classes : AskClass(c)
         \/ BeginClear \/ SkipItem \/ DestroyItem \/ ResetInstance \/ FreeItem \/ DropItem
         \/ EndClear \/ FreeItems \/ ReleaseModule
  PROVE  AskedSound'
<1>1. CASE \E force \in BOOLEAN : UnloadPlugin(force)
  BY <1>1 DEF UnloadPlugin, AskedSound, Asked, Classes
<1>2. ASSUME NEW c \in Classes, AskClass(c) PROVE AskedSound'
  <2>1. held' = held /\ unload.at = "ask"
    BY <1>2 DEF AskClass
  <2>2. CASE RefCountByOthers(c) > 0
    BY <1>2, <2>2 DEF AskClass, NoUnload, AskedSound, Asked
  <2>3. CASE ~(RefCountByOthers(c) > 0) /\ c = "singleton"
    <3>1. instOthers <= 0
      BY <2>3 DEF RefCountByOthers, RefInv, RefTypes
    <3>2. \A t \in Outside, p \in Inst : held'[t][p] = 0
      BY <2>1, <3>1, NobodyHasIt
    <3>3. unload'.at = unload.at
      BY <1>2, <2>3 DEF AskClass, UnloadTypes, IInv, Types
    <3>. QED  BY <2>1, <3>2, <3>3 DEF AskedSound
  <2>4. CASE ~(RefCountByOthers(c) > 0) /\ c # "singleton"
    <3>1. /\ unload'.at = unload.at /\ unload'.force = unload.force /\ late' = late
          /\ "singleton" \notin unload'.left <=> "singleton" \notin unload.left
      BY <1>2, <2>4 DEF AskClass, UnloadTypes, IInv, Types
    <3>. QED  BY <2>1, <3>1 DEF AskedSound, Asked
  <2>. QED  BY <2>2, <2>3, <2>4
<1>3. CASE \/ BeginClear \/ SkipItem \/ DestroyItem \/ ResetInstance \/ FreeItem \/ DropItem
           \/ EndClear \/ FreeItems \/ ReleaseModule
  <2>1. /\ UNCHANGED <<held, late>> /\ unload'.left = unload.left /\ unload'.force = unload.force
        /\ unload.at # "no" /\ "singleton" \notin unload.left
    BY <1>3 DEF BeginClear, SkipItem, DestroyItem, ResetInstance, FreeItem, DropItem,
                EndClear, FreeItems, ReleaseModule, AskedSound, UnloadTypes, IInv, Types
  <2>. QED  BY <2>1 DEF AskedSound, Asked
<1>. QED  BY <1>1, <1>2, <1>3

LEMMA AskedNext == AskedSound /\ RefInv /\ Indexed /\ [Next]_vars => AskedSound'
<1>. SUFFICES ASSUME AskedSound, RefInv, IInv, [Next]_vars PROVE AskedSound'
  BY DEF Indexed
<1>1. CASE UNCHANGED vars
  BY <1>1 DEF vars, loadVars, AskedSound, Asked
<1>. QED  BY <1>1, ThreadAsked, LoaderAsked DEF Next

LEMMA AskedInductive == Spec => [](AskedSound /\ RefInv /\ Indexed)
<1>1. Init => AskedSound
  BY DEF Init, NoUnload, AskedSound, Asked
<1>. QED  BY <1>1, AskedNext, RefInductive, PTL DEF Spec

\* A plugin that is not forced out is unmapped under no module that had the
\* singleton when UnloadPlugin began, though threads take and drop references while
\* the loader asks the classes and clears the stack (Cx_Module::CanUnloadPlugin,
\* Cx_PluginLoader::UnloadPlugin).
THEOREM ObjectSingletonSafe == Spec => SingletonSafe
<1>1. AskedSound /\ [Next]_vars =>
        [loaded /\ ~loaded' /\ ~unload.force =>
           \A t \in Outside \ late, p \in Inst : held[t][p] = 0]_vars
  <2>. SUFFICES ASSUME AskedSound, Next, loaded, ~loaded', ~unload.force
                PROVE  \A t \in Outside \ late, p \in Inst : held[t][p] = 0
    OBVIOUS
  <2>1. unload.at = "bare"
    BY DEF Next, AddOthers, AddRef, SubOthers, SubRef, TestInstance, Lock, Publish, FirstRef,
           ReserveItem, StoreItem, Lose, Unlock, Use, CreateObject, CopyInterface,
           ReleaseInterface, NewInstance, UnloadPlugin, AskClass, BeginClear, SkipItem,
           DestroyItem, ResetInstance, FreeItem, DropItem, EndClear, FreeItems, ReleaseModule,
           loadVars
  <2>. QED  BY <2>1 DEF AskedSound, Asked
<1>. QED  BY <1>1, AskedInductive, PTL DEF Spec, SingletonSafe

=============================================================================
