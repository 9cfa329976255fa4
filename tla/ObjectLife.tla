----------------------------- MODULE ObjectLife -----------------------------
(***************************************************************************)
(* How the objects of one plugin live and die, and when the plugin may be  *)
(* unloaded: Cx_Object (a regular class: an object per CreateObject, freed  *)
(* with its last reference), Cx_SingletonObject (one instance per class,   *)
(* kept until the plugin goes), Cx_ModuleItem (the stack of instances to   *)
(* free) and Cx_PluginLoader::UnloadPlugin, which asks the classes one     *)
(* after the other for their uses by other modules, clears the stack and   *)
(* has the plugin unmapped.                                                *)
(*                                                                         *)
(* The plugin has one class of each kind.  Threads run client code, of the *)
(* plugin itself or, for those in Outside, of another module.  A step is   *)
(* one interlocked operation or one access to a shared static, so threads  *)
(* interleave inside CreateObject, and with the loader.  A call on an      *)
(* object that was deleted has no step: what it does nobody knows.         *)
(***************************************************************************)
EXTENDS Integers, FiniteSets

CONSTANTS
  Thread,
  Outside,    \* threads whose module id is not the plugin's
  Obj,        \* objects of the regular class, each created at most once
  Inst,       \* instances of the singleton class, each created at most once
  MaxHeld,    \* bound: references a thread keeps on one object
  MaxCount,   \* slots of the item stack: the number of singleton classes
  None        \* NULL

ASSUME ObjectLifeAssumption ==
  /\ IsFiniteSet(Thread) /\ Outside \subseteq Thread
  /\ IsFiniteSet(Obj) /\ IsFiniteSet(Inst)
  /\ Obj \cap Inst = {} /\ None \notin Obj \cup Inst
  /\ MaxHeld \in Nat \ {0} /\ MaxCount \in Nat \ {0}

VARIABLES
  alive,        \* objects and instances that were created and not deleted
  fresh,        \* objects and instances not created yet
  refcount,     \* m_refcount of each object and instance
  objOthers,    \* RefCountByOthers of the regular class
  instOthers,   \* RefCountByOthers of the singleton class
  held,         \* references each thread keeps
  instance,     \* Instance()
  locker,       \* Locker()
  index,        \* Index() of the item stack
  items,        \* Items()
  loaded,       \* the plugin is in memory
  unload,       \* where UnloadPlugin is: the classes it has still to ask, the slot
                \* it clears, whether it is forced
  late,         \* history: the threads that got the singleton since it began
  pc            \* where each thread is

objVars  == <<refcount, objOthers, instOthers>>
itemVars == <<index, items>>
loadVars == <<loaded, unload, late>>
vars == <<alive, fresh, objVars, held, instance, locker, itemVars, loadVars, pc>>

Item == 0 .. (MaxCount - 1)
Classes == {"regular", "singleton"}
NoUnload == [at |-> "no", left |-> {}, slot |-> 0, force |-> FALSE]
Idle == [at |-> "idle", obj |-> None, then |-> "idle", slot |-> -1]
Places == {"idle", "addOthers", "addRef", "subOthers", "subRef",
           "new", "lock", "publish", "first", "reserve", "store", "lose",
           "unlock", "use", "crashed"}

TypeOK ==
  /\ alive \subseteq Obj \cup Inst /\ fresh \subseteq (Obj \cup Inst) \ alive
  /\ refcount \in [Obj \cup Inst -> Nat]
  /\ objOthers \in Int /\ instOthers \in Int
  /\ held \in [Thread -> [Obj \cup Inst -> 0 .. MaxHeld]]
  /\ instance \in Inst \cup {None}
  /\ locker \in 0 .. Cardinality(Thread)
  /\ index \in Int /\ items \in [Item -> Inst \cup {None}]
  /\ loaded \in BOOLEAN
  /\ unload \in [at : {"no", "ask", "look", "reset", "free", "drop", "items", "bare"},
                 left : SUBSET Classes, slot : Int, force : BOOLEAN]
  /\ late \subseteq Outside
  /\ pc \in [Thread -> [at : Places, obj : Obj \cup Inst \cup {None},
                        then : {"idle", "keep", "subOthers"}, slot : Int]]

Init ==
  /\ alive = {} /\ fresh = Obj \cup Inst
  /\ refcount = [o \in Obj \cup Inst |-> 0]
  /\ objOthers = 0 /\ instOthers = 0
  /\ held = [t \in Thread |-> [o \in Obj \cup Inst |-> 0]]
  /\ instance = None /\ locker = 0
  /\ index = MaxCount /\ items = [i \in Item |-> None]
  /\ loaded = TRUE /\ unload = NoUnload /\ late = {}
  /\ pc = [t \in Thread |-> Idle]

-----------------------------------------------------------------------------
(* References to an object.                                                *)

At(t, place) == loaded /\ pc[t].at = place
Go(t, place) == pc' = [pc EXCEPT ![t].at = place]

\* AddRef(fromModule) and Release(fromModule), first half: the class-wide
\* counter of uses by other modules.
CountOthers(t, n) ==
  IF t \notin Outside THEN UNCHANGED <<objOthers, instOthers>>
  ELSE IF pc[t].obj \in Obj
       THEN objOthers' = objOthers + n /\ UNCHANGED instOthers
       ELSE instOthers' = instOthers + n /\ UNCHANGED objOthers

AddOthers(t) ==
  /\ At(t, "addOthers") /\ pc[t].obj \in alive
  /\ CountOthers(t, 1)
  /\ Go(t, "addRef")
  /\ UNCHANGED <<alive, fresh, refcount, held, instance, locker, itemVars, loadVars>>

\* AddRef, second half.  CreateObject of the regular class goes on to give
\* back the reference the constructor made; otherwise the caller has a new one.
AddRef(t) ==
  /\ At(t, "addRef") /\ pc[t].obj \in alive
  /\ refcount' = [refcount EXCEPT ![pc[t].obj] = @ + 1]
  /\ IF pc[t].then = "subOthers"
     THEN /\ pc' = [pc EXCEPT ![t].at = "subOthers", ![t].then = "keep"]
          /\ UNCHANGED held
     ELSE /\ held' = [held EXCEPT ![t][pc[t].obj] = @ + 1]
          /\ pc' = [pc EXCEPT ![t] = Idle]
  /\ late' = IF unload.at # "no" /\ t \in Outside /\ pc[t].obj \in Inst
             THEN late \cup {t} ELSE late
  /\ UNCHANGED <<alive, fresh, objOthers, instOthers, instance, locker, itemVars,
                 loaded, unload>>

\* A slip: Release forgets the counter AddRef raised.
FaultSubOthers(t) ==
  /\ At(t, "subOthers") /\ pc[t].obj \in alive
  /\ Go(t, "subRef")
  /\ UNCHANGED <<alive, fresh, objVars, held, instance, locker, itemVars, loadVars>>

SubOthers(t) ==
  /\ At(t, "subOthers") /\ pc[t].obj \in alive
  /\ CountOthers(t, -1)
  /\ Go(t, "subRef")
  /\ UNCHANGED <<alive, fresh, refcount, held, instance, locker, itemVars, loadVars>>

\* A slip: an object is deleted one reference too early.
FaultSubRef(t) ==
  /\ At(t, "subRef") /\ pc[t].obj \in alive
  /\ refcount' = [refcount EXCEPT ![pc[t].obj] = @ - 1]
  /\ alive' = IF pc[t].obj \in Obj /\ refcount'[pc[t].obj] <= 1
              THEN alive \ {pc[t].obj} ELSE alive
  /\ held' = IF pc[t].then = "keep" THEN [held EXCEPT ![t][pc[t].obj] = @ + 1] ELSE held
  /\ pc' = [pc EXCEPT ![t] = Idle]
  /\ UNCHANGED <<fresh, objOthers, instOthers, instance, locker, itemVars, loadVars>>

\* Release, second half: the last reference deletes an object of the regular
\* class; a singleton instance stays.
SubRef(t) ==
  /\ At(t, "subRef") /\ pc[t].obj \in alive
  /\ refcount' = [refcount EXCEPT ![pc[t].obj] = @ - 1]
  /\ alive' = IF pc[t].obj \in Obj /\ refcount'[pc[t].obj] = 0
              THEN alive \ {pc[t].obj} ELSE alive
  /\ held' = IF pc[t].then = "keep" THEN [held EXCEPT ![t][pc[t].obj] = @ + 1] ELSE held
  /\ pc' = [pc EXCEPT ![t] = Idle]
  /\ UNCHANGED <<fresh, objOthers, instOthers, instance, locker, itemVars, loadVars>>

\* A client copies one of its interface pointers (Cx_Interface::Load).
CopyInterface(t, o) ==
  /\ At(t, "idle") /\ held[t][o] \in 1 .. (MaxHeld - 1)
  /\ pc' = [pc EXCEPT ![t] = [at |-> "addOthers", obj |-> o, then |-> "idle", slot |-> -1]]
  /\ UNCHANGED <<alive, fresh, objVars, held, instance, locker, itemVars, loadVars>>

\* A client drops one (Cx_Interface::Unload).
ReleaseInterface(t, o) ==
  /\ At(t, "idle") /\ held[t][o] > 0
  /\ held' = [held EXCEPT ![t][o] = @ - 1]
  /\ pc' = [pc EXCEPT ![t] = [at |-> "subOthers", obj |-> o, then |-> "idle", slot |-> -1]]
  /\ UNCHANGED <<alive, fresh, objVars, instance, locker, itemVars, loadVars>>

\* Cx_Object::CreateObject: the constructor's reference, then QueryInterface,
\* which makes another one if the interface is supported, then Release.
CreateObject(t, o, supported) ==
  /\ At(t, "idle") /\ o \in fresh \cap Obj
  /\ fresh' = fresh \ {o} /\ alive' = alive \cup {o}
  /\ refcount' = [refcount EXCEPT ![o] = 1]
  /\ pc' = [pc EXCEPT ![t] =
       IF supported
       THEN [at |-> "addOthers", obj |-> o, then |-> "subOthers", slot |-> -1]
       ELSE [at |-> "subOthers", obj |-> o, then |-> "idle", slot |-> -1]]
  /\ UNCHANGED <<objOthers, instOthers, held, instance, locker, itemVars, loadVars>>

-----------------------------------------------------------------------------
(* Cx_SingletonObject::CreateObject.                                       *)

TestInstance(t) ==
  /\ At(t, "idle")
  /\ Go(t, IF instance = None THEN "new" ELSE "use")
  /\ UNCHANGED <<alive, fresh, objVars, held, instance, locker, itemVars, loadVars>>

NewInstance(t, p) ==
  /\ At(t, "new") /\ p \in fresh \cap Inst
  /\ fresh' = fresh \ {p} /\ alive' = alive \cup {p}
  /\ pc' = [pc EXCEPT ![t].at = "lock", ![t].obj = p]
  /\ UNCHANGED <<objVars, held, instance, locker, itemVars, loadVars>>

\* Of the threads that are between here and Unlock the first goes on.
Lock(t) ==
  /\ At(t, "lock")
  /\ locker' = locker + 1
  /\ Go(t, IF locker' = 1 THEN "publish" ELSE "lose")
  /\ UNCHANGED <<alive, fresh, objVars, held, instance, itemVars, loadVars>>

Publish(t) ==
  /\ At(t, "publish")
  /\ instance' = pc[t].obj
  /\ Go(t, "first")
  /\ UNCHANGED <<alive, fresh, objVars, held, locker, itemVars, loadVars>>

\* The creator's AddRef, a reference nobody gives back.
FirstRef(t) ==
  /\ At(t, "first")
  /\ CountOthers(t, 1)
  /\ refcount' = [refcount EXCEPT ![pc[t].obj] = @ + 1]
  /\ Go(t, "reserve")
  /\ UNCHANGED <<alive, fresh, held, instance, locker, itemVars, loadVars>>

\* AddModuleItem: take the next slot, then fill it unless the stack is full.  A
\* slot of an array that was freed meanwhile cannot be written.
ReserveItem(t) ==
  /\ At(t, "reserve")
  /\ index' = index - 1
  /\ pc' = [pc EXCEPT ![t].at = "store", ![t].slot = index - 1]
  /\ UNCHANGED <<alive, fresh, objVars, held, instance, locker, items, loadVars>>

StoreItem(t) ==
  /\ At(t, "store") /\ (pc[t].slot >= 0 => unload.at # "bare")
  /\ items' = IF pc[t].slot >= 0 THEN [items EXCEPT ![pc[t].slot] = pc[t].obj] ELSE items
  /\ Go(t, "unlock")
  /\ UNCHANGED <<alive, fresh, objVars, held, instance, locker, index, loadVars>>

\* A slip: the loser takes the published pointer back with it.
FaultLose(t) ==
  /\ At(t, "lose")
  /\ alive' = alive \ {IF instance = None THEN pc[t].obj ELSE instance}
  /\ Go(t, "unlock")
  /\ UNCHANGED <<fresh, objVars, held, instance, locker, itemVars, loadVars>>

\* The destructor clears Instance() only if it is this one.
Lose(t) ==
  /\ At(t, "lose")
  /\ alive' = alive \ {pc[t].obj}
  /\ instance' = IF instance = pc[t].obj THEN None ELSE instance
  /\ Go(t, "unlock")
  /\ UNCHANGED <<fresh, objVars, held, locker, itemVars, loadVars>>

Unlock(t) ==
  /\ At(t, "unlock")
  /\ locker' = locker - 1
  /\ Go(t, "use")
  /\ UNCHANGED <<alive, fresh, objVars, held, instance, itemVars, loadVars>>

\* Instance()->QueryInterface: a NULL pointer faults.
Use(t) ==
  /\ At(t, "use")
  /\ IF instance = None
     THEN Go(t, "crashed")
     ELSE /\ held[t][instance] < MaxHeld
          /\ pc' = [pc EXCEPT ![t] = [at |-> "addOthers", obj |-> instance,
                                      then |-> "idle", slot |-> -1]]
  /\ UNCHANGED <<alive, fresh, objVars, held, instance, locker, itemVars, loadVars>>

-----------------------------------------------------------------------------
(* Cx_PluginLoader::UnloadPlugin, with the threads running beside it.      *)

UnloadPlugin(force) ==
  /\ loaded /\ unload.at = "no"
  /\ unload' = [at |-> "ask", left |-> IF force THEN {} ELSE Classes, slot |-> 0,
                force |-> force]
  /\ late' = {}
  /\ UNCHANGED <<alive, fresh, objVars, held, instance, locker, itemVars, loaded, pc>>

RefCountByOthers(c) == IF c = "regular" THEN objOthers ELSE instOthers

\* A slip: the answer of the first class is taken for all.
FaultFirstClass(c) ==
  /\ loaded /\ unload.at = "ask" /\ c \in unload.left
  /\ unload' = IF RefCountByOthers(c) > 0 THEN NoUnload ELSE [unload EXCEPT !.left = {}]
  /\ late' = IF RefCountByOthers(c) > 0 THEN {} ELSE late
  /\ UNCHANGED <<alive, fresh, objVars, held, instance, locker, itemVars, loaded, pc>>

\* CanUnloadPlugin reads one class's counter after another, in the order of the
\* plugin's class table, here any; a positive one ends the attempt.
AskClass(c) ==
  /\ loaded /\ unload.at = "ask" /\ c \in unload.left
  /\ unload' = IF RefCountByOthers(c) > 0 THEN NoUnload ELSE [unload EXCEPT !.left = @ \ {c}]
  /\ late' = IF RefCountByOthers(c) > 0 THEN {} ELSE late
  /\ UNCHANGED <<alive, fresh, objVars, held, instance, locker, itemVars, loaded, pc>>

\* UninitializePlugin, and ClearModuleItems as far as i = Index().
BeginClear ==
  /\ loaded /\ unload.at = "ask" /\ unload.left = {}
  /\ unload' = [unload EXCEPT !.at = "look", !.slot = index]
  /\ UNCHANGED <<alive, fresh, objVars, held, instance, locker, itemVars, loaded, late, pc>>

Filled == unload.slot >= 0 /\ items[unload.slot] # None

\* A slot below 0, or one that its thread has not filled yet.  The array is not
\* initialised: what such a slot holds is anything; what is not NULL faults.
SkipItem ==
  /\ loaded /\ unload.at = "look" /\ unload.slot < MaxCount /\ ~Filled
  /\ unload' = [unload EXCEPT !.slot = @ + 1]
  /\ UNCHANGED <<alive, fresh, objVars, held, instance, locker, itemVars, loaded, late, pc>>

\* delete Items()[i]: the destructor compares, clears Instance() if it was this
\* one, and then the memory goes.
DestroyItem ==
  /\ loaded /\ unload.at = "look" /\ unload.slot < MaxCount /\ Filled
  /\ unload' = [unload EXCEPT !.at = IF instance = items[unload.slot] THEN "reset" ELSE "free"]
  /\ UNCHANGED <<alive, fresh, objVars, held, instance, locker, itemVars, loaded, late, pc>>

ResetInstance ==
  /\ loaded /\ unload.at = "reset"
  /\ instance' = None
  /\ unload' = [unload EXCEPT !.at = "free"]
  /\ UNCHANGED <<alive, fresh, objVars, held, locker, itemVars, loaded, late, pc>>

FreeItem ==
  /\ loaded /\ unload.at = "free"
  /\ alive' = alive \ {items[unload.slot]}
  /\ unload' = [unload EXCEPT !.at = "drop"]
  /\ UNCHANGED <<fresh, objVars, held, instance, locker, itemVars, loaded, late, pc>>

\* A slip: the stack keeps the pointer it deleted.
FaultDropItem ==
  /\ loaded /\ unload.at = "drop"
  /\ unload' = [unload EXCEPT !.at = "look", !.slot = @ + 1]
  /\ UNCHANGED <<alive, fresh, objVars, held, instance, locker, itemVars, loaded, late, pc>>

\* Items()[i] = NULL, and on to the next.
DropItem ==
  /\ loaded /\ unload.at = "drop"
  /\ items' = [items EXCEPT ![unload.slot] = None]
  /\ unload' = [unload EXCEPT !.at = "look", !.slot = @ + 1]
  /\ UNCHANGED <<alive, fresh, objVars, held, instance, locker, index, loaded, late, pc>>

EndClear ==
  /\ loaded /\ unload.at = "look" /\ unload.slot >= MaxCount
  /\ index' = 0
  /\ unload' = [unload EXCEPT !.at = "items"]
  /\ UNCHANGED <<alive, fresh, objVars, held, instance, locker, items, loaded, late, pc>>

\* delete[] Items(), Items() = NULL: what was stored behind the loop is lost.
FreeItems ==
  /\ loaded /\ unload.at = "items"
  /\ items' = [i \in Item |-> None]
  /\ unload' = [unload EXCEPT !.at = "bare"]
  /\ UNCHANGED <<alive, fresh, objVars, held, instance, locker, index, loaded, late, pc>>

\* The plugin's code and its statics go.
ReleaseModule ==
  /\ loaded /\ unload.at = "bare"
  /\ loaded' = FALSE
  /\ UNCHANGED <<alive, fresh, objVars, held, instance, locker, itemVars, unload, late, pc>>

Next ==
  \/ \E t \in Thread : \/ AddOthers(t) \/ AddRef(t) \/ SubOthers(t) \/ SubRef(t)
                       \/ TestInstance(t) \/ Lock(t) \/ Publish(t) \/ FirstRef(t)
                       \/ ReserveItem(t) \/ StoreItem(t) \/ Lose(t) \/ Unlock(t) \/ Use(t)
  \/ \E t \in Thread, o \in Obj, supported \in BOOLEAN : CreateObject(t, o, supported)
  \/ \E t \in Thread, o \in Obj \cup Inst : CopyInterface(t, o) \/ ReleaseInterface(t, o)
  \/ \E t \in Thread, p \in Inst : NewInstance(t, p)
  \/ \E force \in BOOLEAN : UnloadPlugin(force)
  \/ \E c \in Classes : AskClass(c)
  \/ BeginClear \/ SkipItem \/ DestroyItem \/ ResetInstance \/ FreeItem \/ DropItem
  \/ EndClear \/ FreeItems \/ ReleaseModule

Spec == Init /\ [][Next]_vars

-----------------------------------------------------------------------------
(* Properties.                                                             *)

\* The references thread t has on o that m_refcount already counts, beside
\* those it holds: the constructor's, a finished AddRef, an unfinished Release.
InFlight(t, o) ==
  IF pc[t].obj # o THEN 0
  ELSE CASE pc[t].at \in {"addOthers", "addRef"} -> IF pc[t].then = "subOthers" THEN 1 ELSE 0
         [] pc[t].at \in {"subOthers", "subRef"} -> IF pc[t].then = "keep" THEN 2 ELSE 1
         [] OTHER -> 0

\* The sum of count[x] over x in S: the number of references if x has count[x] of
\* them, at most MaxHeld and two in flight.
Total(S, count) == Cardinality({r \in S \X (1 .. (MaxHeld + 2)) : r[2] <= count[r[1]]})

\* How many references on o each thread has.
Uses(o) == [t \in Thread |-> held[t][o] + InFlight(t, o)]

\* An object of the regular class carries exactly the references its users
\* have, and lives exactly while there is one: nobody's object is deleted
\* under him and none is leaked, whatever the threads do between the halves
\* of AddRef and Release.
RefExact ==
  \A o \in Obj :
    /\ refcount[o] = Total(Thread, Uses(o))
    /\ o \in alive <=> refcount[o] > 0

\* How many references on objects of the regular class other modules have.
OutsideRefs ==
  Total(Outside \X Obj, [x \in Outside \X Obj |-> held[x[1]][x[2]]])

AllIdle == \A t \in Thread : pc[t] = Idle

\* The regular class never keeps a plugin in memory without a user: with no
\* call under way the counter CanUnloadPlugin reads is at most the number of
\* references other modules have.
NeverStuck == AllIdle => objOthers <= OutsideRefs

\* Instance() never points to a deleted instance, however many threads raced
\* to create it.
InstanceLive == instance # None => instance \in alive

\* The item stack holds live instances, but for the one the loader has deleted
\* and is about to take out, and none twice, so that clearing it deletes none
\* twice, whatever threads add to it meanwhile.
ItemsSound ==
  /\ \A i \in Item : items[i] # None =>
       items[i] \in alive \/ (unload.at = "drop" /\ unload.slot = i)
  /\ \A i, j \in Item : items[i] = items[j] /\ items[i] # None => i = j

\* A plugin that is not forced out is unmapped under no module that had the
\* singleton when UnloadPlugin began: who loses it is one that took it while the
\* loader was asking and clearing.
SingletonSafe ==
  [][loaded /\ ~loaded' /\ ~unload.force =>
       \A t \in Outside \ late, p \in Inst : held[t][p] = 0]_vars

=============================================================================
