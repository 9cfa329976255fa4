--------------------------- MODULE FrameworkEntry ---------------------------
(***************************************************************************)
(* The global module table of the framework library                        *)
(* (LwApiLib/Framwork/FwEntry/FrameworkEntry.cpp): every module object the  *)
(* process knows, whether it was linked in (its static constructor enters  *)
(* it) or came with a shared library (Fw_LoadModule maps the library and   *)
(* enters the module object found in it).                                  *)
(*                                                                         *)
(* A module object is identified with the thing that carries it: a member  *)
(* of Static, or the library file it lives in.  GetModuleInstance() is     *)
(* non-NULL exactly for the latter, because Fw_LoadModule hands the        *)
(* library handle to GetModuleInterface before it registers the module.    *)
(***************************************************************************)
EXTENDS Integers, FiniteSets

CONSTANTS
  Static,        \* module objects linked into the executable
  File,          \* library files, each with one module object
  ModidOf,       \* the module id a module object carries
  MaxPluginNum,  \* MAX_PLUGIN_NUM, the size of gModuleTable
  NoModule       \* a NULL module pointer

Module == Static \cup File
Modid  == {ModidOf[m] : m \in Module}
Slot   == 1 .. MaxPluginNum

ASSUME FrameworkEntryAssumption ==
  /\ MaxPluginNum \in Nat \ {0}
  /\ Static \cap File = {}
  /\ NoModule \notin Module
  /\ ModidOf \in [Module -> Modid]

VARIABLES
  gModuleTable,  \* the module entered in each slot
  gModuleNum,    \* the number of entries, kept by hand
  mapped         \* how often each library is open (the loader's own count)

fwVars == <<gModuleTable, gModuleNum, mapped>>

FwTypeOK ==
  /\ gModuleTable \in [Slot -> Module \cup {NoModule}]
  /\ gModuleNum \in Int
  /\ mapped \in [File -> Int]

FwInit ==
  /\ gModuleTable = [s \in Slot |-> NoModule]
  /\ gModuleNum = 0
  /\ mapped = [f \in File |-> 0]

-----------------------------------------------------------------------------
(* Lookups.                                                                *)

Carries(s, d) == gModuleTable[s] # NoModule /\ ModidOf[gModuleTable[s]] = d

\* findModuleEntryByModid: the first slot that carries d, if any.
EntryOf(d) == {s \in Slot : Carries(s, d) /\ \A t \in 1 .. (s - 1) : ~Carries(t, d)}

\* The table without the entry of d.
Removed(d) == [s \in Slot |-> IF s \in EntryOf(d) THEN NoModule ELSE gModuleTable[s]]

\* findEmptyEntry.
IsFirstEmpty(T, s) == T[s] = NoModule /\ \A t \in 1 .. (s - 1) : T[t] # NoModule

\* The open counts after the entry of d gave its library back and the
\* libraries of opened were opened once more.
MappedAfter(d, opened) ==
  [f \in File |-> mapped[f] + (IF f \in opened THEN 1 ELSE 0)
                            - (IF \E s \in EntryOf(d) : gModuleTable[s] = f THEN 1 ELSE 0)]

-----------------------------------------------------------------------------
(* Operations.                                                             *)

\* A slip the checks must notice: the counter is not kept on an unload.
FaultKeepNum(d) ==
  gModuleTable' = Removed(d) /\ mapped' = MappedAfter(d, {}) /\ UNCHANGED gModuleNum

\* Nothing happens when no entry carries d: the function still returns OK.
Fw_UnLoadModule(d) ==
  /\ gModuleTable' = Removed(d)
  /\ gModuleNum' = gModuleNum - Cardinality(EntryOf(d))
  /\ mapped' = MappedAfter(d, {})

\* A slip: the old entry with the same id is left in the table.
FaultKeepOld(m, opened) ==
  \E s \in Slot :
    /\ IsFirstEmpty(gModuleTable, s)
    /\ gModuleTable' = [gModuleTable EXCEPT ![s] = m]
    /\ gModuleNum' = gModuleNum + 1
    /\ mapped' = [f \in File |-> mapped[f] + (IF f \in opened THEN 1 ELSE 0)]

\* An entry with the same id is unloaded first, then the first free slot is
\* taken (possibly another one).
EnterModule(m, opened) ==
  \E s \in Slot :
    /\ IsFirstEmpty(Removed(ModidOf[m]), s)
    /\ gModuleTable' = [Removed(ModidOf[m]) EXCEPT ![s] = m]
    /\ gModuleNum' = gModuleNum - Cardinality(EntryOf(ModidOf[m])) + 1
    /\ mapped' = MappedAfter(ModidOf[m], opened)

TableFull(m) == \A s \in Slot : Removed(ModidOf[m])[s] # NoModule

\* The two assertions after ++gModuleNum (lines 236 and 238) hold: name and id are
\* arguments of the macro every module is defined with (XModuleDefine.h:16).
Fw_RegisteModule(m) == EnterModule(m, {})

\* The library is opened before its module is registered.
Fw_LoadModule(f) == EnterModule(f, {f})

\* The error exits of Fw_LoadModule (lines 279, 292, 299 and 307): the file
\* cannot be opened, has no entry point, yields no module, or finds the table full.
Exits == {"library", "function", "module", "table"}

\* A slip: one of the exits does not close it.
FaultClosed(exit) == IF exit \in {"library", "module"} THEN 0 ELSE 1

\* How often each has closed the library.
Closed(exit) == IF exit = "library" THEN 0 ELSE 1

\* Fw_LoadModule that fails: all exits but the first have opened the library.
Fw_LoadModuleFails(f) ==
  /\ \E exit \in Exits :
       /\ exit = "table" => TableFull(f)
       /\ mapped' = [mapped EXCEPT ![f] =
                       @ + (IF exit = "library" THEN 0 ELSE 1) - Closed(exit)]
  /\ UNCHANGED <<gModuleTable, gModuleNum>>

\* Fw_GetModulePtr: the module object registered for d.
Fw_GetModulePtr(d) ==
  IF EntryOf(d) = {} THEN NoModule ELSE gModuleTable[CHOOSE s \in EntryOf(d) : TRUE]

FwNext ==
  \/ \E m \in Static : Fw_RegisteModule(m)
  \/ \E f \in File : Fw_LoadModule(f) \/ Fw_LoadModuleFails(f)
  \/ \E d \in Modid : Fw_UnLoadModule(d)

FwSpec == FwInit /\ [][FwNext]_fwVars

-----------------------------------------------------------------------------
(* Properties.                                                             *)

\* Two entries never carry the same id, so that a lookup by id, which stops
\* at the first match, finds the only one (findModuleEntryByModid).
UniqueModid ==
  \A s, t \in Slot :
    /\ gModuleTable[s] # NoModule
    /\ gModuleTable[t] # NoModule
    /\ ModidOf[gModuleTable[s]] = ModidOf[gModuleTable[t]]
    => s = t

Occupied == {s \in Slot : gModuleTable[s] # NoModule}

\* The hand-kept counter, which Fw_LoadModule compares before and after it
\* opens a library, is the number of entries.
CountExact == gModuleNum = Cardinality(Occupied)

\* A library is open exactly once while its module is in the table and not at
\* all otherwise: no path of load, reload, failure and unload leaks a handle
\* or closes one twice.
LibraryBalance ==
  \A f \in File :
    mapped[f] = IF \E s \in Slot : gModuleTable[s] = f THEN 1 ELSE 0

FwInv == FwTypeOK /\ UniqueModid /\ CountExact /\ LibraryBalance

=============================================================================
