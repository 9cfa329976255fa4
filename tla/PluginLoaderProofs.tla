------------------------- MODULE PluginLoaderProofs -------------------------
(***************************************************************************)
(* The module table keeps its invariant FwInv for every set of modules,    *)
(* every assignment of ids and every table size, and the plugin loader     *)
(* keeps its own list, the class map and the table in step, for every set  *)
(* of modules, ids, classes and levels.                                    *)
(***************************************************************************)
EXTENDS PluginLoader, FiniteSetTheorems, SequenceTheorems, TLAPS

-----------------------------------------------------------------------------
(* The module table: lookups.                                              *)

\* A lookup yields at most one slot, and a slot that carries the id.
LEMMA EntryFacts ==
  ASSUME MaxPluginNum \in Nat, NEW d
  PROVE  /\ EntryOf(d) \subseteq Occupied
         /\ EntryOf(d) \subseteq Slot
         /\ \A s \in EntryOf(d) : ModidOf[gModuleTable[s]] = d
         /\ \A s, t \in EntryOf(d) : s = t
<1>1. /\ EntryOf(d) \subseteq Occupied
      /\ EntryOf(d) \subseteq Slot
      /\ \A s \in EntryOf(d) : ModidOf[gModuleTable[s]] = d
  BY DEF EntryOf, Occupied, Carries
<1>2. ASSUME NEW s \in EntryOf(d), NEW t \in EntryOf(d) PROVE s = t
  <2>1. s \in 1 .. MaxPluginNum /\ t \in 1 .. MaxPluginNum
    BY DEF EntryOf, Slot
  <2>2. ~(s < t) /\ ~(t < s)
    BY <2>1 DEF EntryOf, Slot
  <2>. QED  BY <2>1, <2>2
<1>. QED  BY <1>1, <1>2

\* Without duplicate ids the lookup finds every slot that carries the id.
LEMMA EntryComplete ==
  ASSUME MaxPluginNum \in Nat, UniqueModid,
         NEW s \in Slot, gModuleTable[s] # NoModule
  PROVE  s \in EntryOf(ModidOf[gModuleTable[s]])
<1>1. ASSUME NEW t \in 1 .. (s - 1), Carries(t, ModidOf[gModuleTable[s]])
      PROVE  FALSE
  <2>1. t \in Slot /\ t # s
    BY DEF Slot
  <2>. QED  BY <1>1, <2>1 DEF Carries, UniqueModid
<1>. QED  BY <1>1 DEF EntryOf, Carries

\* Removing an entry shrinks the table by as much as the counter says.
LEMMA RemovedCount ==
  ASSUME MaxPluginNum \in Nat, NEW d
  PROVE  LET left == {s \in Slot : Removed(d)[s] # NoModule}
         IN /\ left \subseteq Slot /\ IsFiniteSet(left)
            /\ Cardinality(left) = Cardinality(Occupied) - Cardinality(EntryOf(d))
            /\ Cardinality(left) \in Nat /\ Cardinality(EntryOf(d)) \in Nat
<1> DEFINE left == {s \in Slot : Removed(d)[s] # NoModule}
<1>1. left = Occupied \ EntryOf(d)
  BY DEF Removed, Occupied
<1>2. IsFiniteSet(Slot)
  BY FS_Interval, 1 \in Int, MaxPluginNum \in Int DEF Slot
<1>3. IsFiniteSet(Occupied) /\ IsFiniteSet(left) /\ left \subseteq Slot
  BY <1>2, FS_Subset DEF Occupied
<1>4. EntryOf(d) \subseteq Occupied
  BY EntryFacts
<1>5. IsFiniteSet(EntryOf(d)) /\ Cardinality(EntryOf(d)) \in Nat
  BY <1>3, <1>4, FS_Subset, FS_CardinalityType
<1>6. Cardinality(left) = Cardinality(Occupied) - Cardinality(Occupied \cap EntryOf(d))
  BY <1>1, <1>3, FS_Difference
<1>7. Occupied \cap EntryOf(d) = EntryOf(d)
  BY <1>4
<1>. QED  BY <1>3, <1>5, <1>6, <1>7, FS_CardinalityType

-----------------------------------------------------------------------------
(* The module table: the operations keep FwInv.                            *)

\* The initial table is empty.
LEMMA FwInitInv == FwInit => FwInv
<1>. SUFFICES ASSUME FwInit PROVE FwInv
  OBVIOUS
<1>1. FwTypeOK
  BY FrameworkEntryAssumption DEF FwInit, FwTypeOK
<1>2. UniqueModid
  BY DEF FwInit, UniqueModid
<1>3. CountExact
  <2>1. Occupied = {}
    BY DEF FwInit, Occupied
  <2>. QED  BY <2>1, FS_EmptySet DEF FwInit, CountExact
<1>4. LibraryBalance
  BY FrameworkEntryAssumption DEF FwInit, LibraryBalance, Module
<1>. QED  BY <1>1, <1>2, <1>3, <1>4 DEF FwInv

\* Fw_UnLoadModule, for an id that is in the table and for one that is not.
LEMMA UnLoadInv ==
  ASSUME FwInv, NEW d, Fw_UnLoadModule(d)
  PROVE  FwInv'
<1>. USE FrameworkEntryAssumption DEF FwInv, Fw_UnLoadModule
<1>1. FwTypeOK'
  <2>1. gModuleTable' \in [Slot -> Module \cup {NoModule}]
    BY DEF FwTypeOK, Removed
  <2>2. gModuleNum' \in Int
    BY RemovedCount DEF FwTypeOK
  <2>3. mapped' \in [File -> Int]
    BY DEF FwTypeOK, MappedAfter
  <2>. QED  BY <2>1, <2>2, <2>3 DEF FwTypeOK
<1>2. UniqueModid'
  BY DEF UniqueModid, Removed
<1>3. CountExact'
  BY RemovedCount DEF CountExact, Occupied, Removed
<1>4. LibraryBalance'
  <2>. SUFFICES ASSUME NEW f \in File
                PROVE mapped'[f] = IF \E s \in Slot : gModuleTable'[s] = f THEN 1 ELSE 0
    BY DEF LibraryBalance
  <2>1. mapped'[f] = mapped[f] - (IF \E s \in EntryOf(d) : gModuleTable[s] = f THEN 1 ELSE 0)
    BY DEF FwTypeOK, MappedAfter
  <2>2. mapped[f] = IF \E s \in Slot : gModuleTable[s] = f THEN 1 ELSE 0
    BY DEF LibraryBalance
  <2>3. f # NoModule
    BY DEF Module
  <2>4. CASE \E s \in EntryOf(d) : gModuleTable[s] = f
    <3>1. PICK s \in EntryOf(d) : gModuleTable[s] = f
      BY <2>4
    <3>2. s \in Slot /\ ModidOf[f] = d
      BY <3>1, EntryFacts
    <3>3. ASSUME NEW t \in Slot, gModuleTable'[t] = f PROVE FALSE
      <4>1. gModuleTable[t] = f /\ t \notin EntryOf(d)
        BY <3>3, <2>3 DEF Removed
      <4>2. t = s
        BY <4>1, <3>1, <3>2, <2>3 DEF UniqueModid
      <4>. QED  BY <4>1, <4>2
    <3>. QED  BY <2>1, <2>2, <2>4, <3>1, <3>2, <3>3
  <2>5. CASE ~ \E s \in EntryOf(d) : gModuleTable[s] = f
    <3>1. \A s \in Slot : gModuleTable'[s] = f <=> gModuleTable[s] = f
      BY <2>3, <2>5 DEF Removed
    <3>. QED  BY <2>1, <2>2, <2>5, <3>1
  <2>. QED  BY <2>4, <2>5
<1>. QED  BY <1>1, <1>2, <1>3, <1>4

\* Fw_RegisteModule and Fw_LoadModule: a linked-in module brings no library,
\* a library brings its own module.
LEMMA EnterInv ==
  ASSUME FwInv, NEW m \in Module, NEW opened \in SUBSET File,
         opened = {m} \/ (opened = {} /\ m \in Static),
         EnterModule(m, opened)
  PROVE  FwInv'
<1>. USE FrameworkEntryAssumption DEF FwInv
<1> DEFINE d == ModidOf[m]
           left == {s \in Slot : Removed(d)[s] # NoModule}
<1>1. PICK e \in Slot :
        /\ IsFirstEmpty(Removed(d), e)
        /\ gModuleTable' = [Removed(d) EXCEPT ![e] = m]
        /\ gModuleNum' = gModuleNum - Cardinality(EntryOf(d)) + 1
        /\ mapped' = MappedAfter(d, opened)
  BY DEF EnterModule
<1>2. Removed(d)[e] = NoModule
  BY <1>1 DEF IsFirstEmpty
<1>3. m # NoModule
  OBVIOUS
<1>4. \A s \in Slot : gModuleTable'[s] = IF s = e THEN m ELSE Removed(d)[s]
  BY <1>1 DEF Removed
<1>5. FwTypeOK'
  <2>1. gModuleTable' \in [Slot -> Module \cup {NoModule}]
    BY <1>1 DEF FwTypeOK, Removed
  <2>2. gModuleNum' \in Int
    BY <1>1, RemovedCount DEF FwTypeOK
  <2>3. mapped' \in [File -> Int]
    BY <1>1 DEF FwTypeOK, MappedAfter
  <2>. QED  BY <2>1, <2>2, <2>3 DEF FwTypeOK
<1>6. \A s \in Slot : Removed(d)[s] # NoModule => ModidOf[Removed(d)[s]] # d
  BY EntryComplete DEF Removed
<1>7. UniqueModid'
  <2>. SUFFICES ASSUME NEW s \in Slot, NEW t \in Slot,
                       gModuleTable'[s] # NoModule, gModuleTable'[t] # NoModule,
                       ModidOf[gModuleTable'[s]] = ModidOf[gModuleTable'[t]]
                PROVE s = t
    BY DEF UniqueModid
  <2>1. CASE s = e \/ t = e
    BY <2>1, <1>4, <1>6
  <2>2. CASE s # e /\ t # e
    <3>1. gModuleTable[s] = gModuleTable'[s] /\ gModuleTable[t] = gModuleTable'[t]
      BY <2>2, <1>4 DEF Removed
    <3>. QED  BY <3>1 DEF UniqueModid
  <2>. QED  BY <2>1, <2>2
<1>8. CountExact'
  <2>1. Occupied' = left \cup {e}
    BY <1>3, <1>4 DEF Occupied
  <2>2. e \notin left
    BY <1>2
  <2>. HIDE DEF left
  <2>3. IsFiniteSet(left)
    BY RemovedCount DEF left
  <2>4. Cardinality(Occupied') = Cardinality(left) + 1
    BY <2>1, <2>2, <2>3, FS_AddElement
  <2>. QED  BY <2>4, <1>1, RemovedCount DEF CountExact, left
<1>9. LibraryBalance'
  <2>. SUFFICES ASSUME NEW f \in File
                PROVE mapped'[f] = IF \E s \in Slot : gModuleTable'[s] = f THEN 1 ELSE 0
    BY DEF LibraryBalance
  <2>1. mapped'[f] = mapped[f] + (IF f \in opened THEN 1 ELSE 0)
                       - (IF \E s \in EntryOf(d) : gModuleTable[s] = f THEN 1 ELSE 0)
    BY <1>1 DEF MappedAfter
  <2>2. mapped[f] = IF \E s \in Slot : gModuleTable[s] = f THEN 1 ELSE 0
    BY DEF LibraryBalance
  <2>3. f # NoModule /\ f \notin Static
    BY DEF Module
  <2>4. CASE f = m
    <3>1. f \in opened /\ \E s \in Slot : gModuleTable'[s] = f
      BY <2>3, <2>4, <1>4
    <3>2. \A s \in Slot : gModuleTable[s] = f => s \in EntryOf(d)
      BY <2>3, <2>4, EntryComplete
    <3>3. EntryOf(d) \subseteq Slot
      BY EntryFacts
    <3>. QED  BY <2>1, <2>2, <3>1, <3>2, <3>3
  <2>5. CASE f # m
    <3>1. f \notin opened
      BY <2>5
    <3>2. \A s \in Slot : gModuleTable'[s] = f <=> (gModuleTable[s] = f /\ s \notin EntryOf(d))
      BY <2>3, <2>5, <1>2, <1>4 DEF Removed
    <3>3. \A s, t \in Slot : gModuleTable[s] = f /\ gModuleTable[t] = f => s = t
      BY <2>3 DEF UniqueModid
    <3>4. EntryOf(d) \subseteq Slot
      BY EntryFacts
    <3>. QED  BY <2>1, <2>2, <3>1, <3>2, <3>3, <3>4
  <2>. QED  BY <2>4, <2>5
<1>. QED  BY <1>5, <1>7, <1>8, <1>9

\* A step that touches none of the three variables.
LEMMA FwStutterInv == ASSUME FwInv, UNCHANGED fwVars PROVE FwInv'
  BY DEF FwInv, FwTypeOK, UniqueModid, CountExact, Occupied, LibraryBalance, fwVars

\* Each exit of Fw_LoadModule gives back what it opened.
LEMMA FailsChangesNothing ==
  ASSUME FwTypeOK, NEW f \in File, Fw_LoadModuleFails(f)
  PROVE  UNCHANGED fwVars
<1>1. PICK exit \in Exits :
        mapped' = [mapped EXCEPT ![f] =
                     @ + (IF exit = "library" THEN 0 ELSE 1) - Closed(exit)]
  BY DEF Fw_LoadModuleFails
<1>2. mapped[f] + (IF exit = "library" THEN 0 ELSE 1) - Closed(exit) = mapped[f]
  BY DEF FwTypeOK, Closed
<1>3. mapped' = mapped
  BY <1>1, <1>2 DEF FwTypeOK
<1>. QED  BY <1>3 DEF Fw_LoadModuleFails, fwVars

\* Every operation of the table, and none, keeps the invariant.
LEMMA FwStepInv == FwInv /\ [FwNext]_fwVars => FwInv'
<1>. SUFFICES ASSUME FwInv, [FwNext]_fwVars PROVE FwInv'
  OBVIOUS
<1>1. ASSUME NEW m \in Static, Fw_RegisteModule(m) PROVE FwInv'
  BY <1>1, EnterInv DEF Fw_RegisteModule, Module
<1>2. ASSUME NEW f \in File, Fw_LoadModule(f) PROVE FwInv'
  BY <1>2, EnterInv DEF Fw_LoadModule, Module
<1>3. ASSUME NEW d \in Modid, Fw_UnLoadModule(d) PROVE FwInv'
  BY <1>3, UnLoadInv
<1>4. CASE UNCHANGED fwVars
  BY <1>4, FwStutterInv
<1>5. ASSUME NEW f \in File, Fw_LoadModuleFails(f) PROVE FwInv'
  BY <1>5, FailsChangesNothing, FwStutterInv DEF FwInv
<1>. QED  BY <1>1, <1>2, <1>3, <1>4, <1>5 DEF FwNext

\* In every behaviour of the table, ids stay unique, the counter exact and
\* each library open exactly while its module is entered.
THEOREM FwCorrect == FwSpec => []FwInv
  BY FwInitInv, FwStepInv, PTL DEF FwSpec

-----------------------------------------------------------------------------
(* The loader's inductive invariant.                                       *)

IInv == TypeOK /\ FwInv /\ OneEntry /\ ClsmapOwned /\ ListSound

-----------------------------------------------------------------------------
(* The loader and the table.                                               *)

\* The entries of the plugin list and their fields.
LEMMA EntryType ==
  ASSUME m_modules \in Seq(PluginRecord), NEW i \in DOMAIN m_modules
  PROVE  /\ DOMAIN m_modules = 1 .. Len(m_modules)
         /\ m_modules[i] \in PluginRecord
         /\ m_modules[i].module \in Module \cup {NoModule}
<1>1. DOMAIN m_modules = 1 .. Len(m_modules) /\ m_modules[i] \in PluginRecord
  OBVIOUS
<1>. QED  BY <1>1 DEF PluginRecord

\* An id has one entry, so the search from the end finds it if there is one.
LEMMA FindFacts ==
  ASSUME m_modules \in Seq(PluginRecord), OneEntry, NEW d
  PROVE  /\ FindModule(d) # 0 => /\ FindModule(d) \in DOMAIN m_modules
                                 /\ m_modules[FindModule(d)].modid = d
         /\ FindModule(d) = 0 => \A i \in DOMAIN m_modules : m_modules[i].modid # d
<1>1. CASE \A i \in DOMAIN m_modules : m_modules[i].modid # d
  BY <1>1 DEF FindModule
<1>2. CASE \E i \in DOMAIN m_modules : m_modules[i].modid = d
  <2>1. PICK i \in DOMAIN m_modules : m_modules[i].modid = d
    BY <1>2
  <2>2. \A j \in DOMAIN m_modules : m_modules[j].modid = d => j = i
    BY <2>1 DEF OneEntry
  <2>3. i \in Nat \ {0}
    BY <2>1
  <2> DEFINE Last(k) == /\ m_modules[k].modid = d
                        /\ \A j \in DOMAIN m_modules : j > k => m_modules[j].modid # d
  <2>4. Last(i)
    BY <2>1, <2>2, <2>3
  <2>5. FindModule(d) = CHOOSE k \in DOMAIN m_modules : Last(k)
    BY <1>2 DEF FindModule
  <2>. HIDE DEF Last
  <2>6. /\ FindModule(d) \in DOMAIN m_modules
        /\ Last(FindModule(d))
    BY <2>1, <2>4, <2>5
  <2>7. FindModule(d) = i
    BY <2>2, <2>6 DEF Last
  <2>. QED  BY <2>1, <2>3, <2>7
<1>. QED  BY <1>1, <1>2

\* What a lookup in the table returns is in the table.
LEMMA GetModulePtrFacts ==
  ASSUME FwTypeOK, NEW d, Fw_GetModulePtr(d) # NoModule
  PROVE  /\ Fw_GetModulePtr(d) \in Module
         /\ ModidOf[Fw_GetModulePtr(d)] = d
         /\ \E s \in Slot : gModuleTable[s] = Fw_GetModulePtr(d)
<1>1. EntryOf(d) # {}
  BY DEF Fw_GetModulePtr
<1>2. PICK s \in EntryOf(d) : Fw_GetModulePtr(d) = gModuleTable[s]
  BY <1>1 DEF Fw_GetModulePtr
<1>. QED  BY <1>2 DEF EntryOf, Carries, FwTypeOK

\* Entering a module drops no module with another id.
LEMMA EnterKeeps ==
  ASSUME FwTypeOK, NEW m \in Module, NEW opened, EnterModule(m, opened),
         NEW f \in Module, NEW s \in Slot, gModuleTable[s] = f,
         f = m \/ ModidOf[f] # ModidOf[m]
  PROVE  \E t \in Slot : gModuleTable'[t] = f
<1>. USE FrameworkEntryAssumption
<1>1. PICK e \in Slot : /\ IsFirstEmpty(Removed(ModidOf[m]), e)
                        /\ gModuleTable' = [Removed(ModidOf[m]) EXCEPT ![e] = m]
  BY DEF EnterModule
<1>2. gModuleTable'[e] = m
  BY <1>1 DEF Removed
<1>3. CASE f # m
  <2>1. s \notin EntryOf(ModidOf[m])
    BY <1>3 DEF EntryOf, Carries
  <2>2. Removed(ModidOf[m])[s] = f
    BY <2>1 DEF Removed
  <2>3. s # e
    BY <2>2, <1>1 DEF IsFirstEmpty
  <2>. QED  BY <1>1, <2>2, <2>3 DEF Removed
<1>. QED  BY <1>2, <1>3

\* The module just entered is in the table.
LEMMA EnterEnters ==
  ASSUME NEW m, NEW opened, EnterModule(m, opened)
  PROVE  \E t \in Slot : gModuleTable'[t] = m
  BY DEF EnterModule, Removed

\* Every step of the loader is an operation of the table or leaves it alone.
LEMMA StepUsesTable == ASSUME TypeOK, OneEntry, [Next]_vars PROVE [FwNext]_fwVars
<1>. USE PluginLoaderAssumption DEF FwNext
<1>1. ASSUME NEW m \in Linked, StaticConstructor(m) PROVE [FwNext]_fwVars
  BY <1>1 DEF StaticConstructor, Linked
<1>2. ASSUME RegisterFrameWork PROVE [FwNext]_fwVars
  BY <1>2 DEF RegisterFrameWork
<1>3. ASSUME NEW f \in File, LoadPluginFile(f) PROVE [FwNext]_fwVars
  BY <1>3 DEF LoadPluginFile
<1>4. ASSUME NEW d \in Modid, LoadPlugin(d) PROVE [FwNext]_fwVars
  <2> DEFINE m == Fw_GetModulePtr(d)
  <2>. HIDE DEF m
  <2>1. CASE m \in File /\ Fw_UnLoadModule(ModidOf[m])
    BY <2>1 DEF Modid, Module
  <2>2. CASE UNCHANGED fwVars
    BY <2>2
  <2>. QED  BY <1>4, <2>1, <2>2 DEF LoadPlugin, m
<1>5. ASSUME NEW i \in DOMAIN m_modules, NEW force, UnloadEntry(i, force)
      PROVE [FwNext]_fwVars
  <2>1. m_modules[i].module \in Module \cup {NoModule}
    BY EntryType DEF TypeOK
  <2>2. CASE m_modules[i].module # NoModule /\ ReleaseModule(i)
    BY <2>1, <2>2 DEF ReleaseModule, Modid
  <2>. QED  BY <1>5, <2>2 DEF UnloadEntry
<1>6. ASSUME NEW d \in Modid, NEW force \in BOOLEAN, UnloadPlugin(d, force)
      PROVE [FwNext]_fwVars
  <2>1. FindModule(d) # 0 => FindModule(d) \in DOMAIN m_modules
    BY FindFacts DEF TypeOK
  <2>. QED  BY <1>5, <1>6, <2>1 DEF UnloadPlugin
<1>7. ASSUME UnloadStep PROVE [FwNext]_fwVars
  <2>1. CASE loop.at <= Len(m_modules) /\ UnloadEntry(loop.at, loop.force)
    <3>1. loop.at \in DOMAIN m_modules
      BY <1>7, <2>1 DEF UnloadStep, TypeOK, Idle
    <3>. QED  BY <1>5, <2>1, <3>1
  <2>. QED  BY <1>7, <2>1 DEF UnloadStep
<1>. QED  BY <1>1, <1>2, <1>3, <1>4, <1>6, <1>7
          DEF Next, vars, LoadPluginManager, InitializePlugins, InitializeStep,
              UnloadPluginAll, CreateObject, ReleaseObject

-----------------------------------------------------------------------------
(* The plugin list and the class map.                                      *)

\* What the two structures promise, as one formula.
Structures ==
  /\ m_modules \in Seq(PluginRecord)
  /\ m_clsmap \in [Clsid -> ClassEntry \cup {NoEntry}]
  /\ OneEntry /\ ClsmapOwned /\ ListSound

\* No listed library with an id of its own leaves the table.
TableKeeps ==
  \A i \in DOMAIN m_modules :
    LET f == m_modules[i].module
    IN f \in File /\ ~SharedId(f) /\ (\E s \in Slot : gModuleTable[s] = f)
         => \E s \in Slot : gModuleTable'[s] = f

\* RegisterPlugin of a module that is in the table.
LEMMA RegisterInv ==
  ASSUME Structures, NEW m \in Module \ Rejected, RegisterPlugin(m), TableKeeps,
         \E s \in Slot : gModuleTable'[s] = m
  PROVE  Structures'
<1>. USE FrameworkEntryAssumption, PluginLoaderAssumption
<1>1. CASE FindModule(ModidOf[m]) # 0
  <2>1. UNCHANGED <<m_modules, m_clsmap>>
    BY <1>1 DEF RegisterPlugin, Registrable
  <2>2. ListSound'
    BY <2>1 DEF ListSound, TableKeeps, Structures, SharedId
  <2>. QED  BY <2>1, <2>2 DEF Structures, OneEntry, ClsmapOwned
<1>2. CASE FindModule(ModidOf[m]) = 0
  <2> DEFINE new == {c \in ClassesOf[m] : m_clsmap[c] = NoEntry}
             entry == [modid |-> ModidOf[m], module |-> m, clsids |-> new,
                       owned |-> m \in File, inited |-> FALSE]
             n == Len(m_modules)
  <2>1. /\ m_modules' = Append(m_modules, entry)
        /\ m_clsmap' = [c \in Clsid |->
             IF c \in new THEN [module |-> m, index |-> n + 1] ELSE m_clsmap[c]]
    BY <1>2 DEF RegisterPlugin, Registrable
  <2>2. entry \in PluginRecord
    BY DEF PluginRecord, Modid
  <2>3. /\ n \in Nat /\ DOMAIN m_modules = 1 .. n
        /\ m_modules' \in Seq(PluginRecord)
        /\ DOMAIN m_modules' = 1 .. (n + 1)
        /\ m_modules'[n + 1] = entry
        /\ \A i \in 1 .. n : m_modules'[i] = m_modules[i]
    <3>. HIDE DEF entry
    <3>. QED  BY <2>1, <2>2, AppendProperties DEF Structures
  <2>4. m_clsmap' \in [Clsid -> ClassEntry \cup {NoEntry}]
    BY <2>1, <2>3 DEF Structures, ClassEntry
  <2>5. OneEntry'
    <3>1. \A i \in 1 .. n : m_modules[i].modid # ModidOf[m]
      BY <1>2, <2>3, FindFacts DEF Structures
    <3>2. OneEntry /\ entry.modid = ModidOf[m]
      BY DEF Structures
    <3>. HIDE DEF entry, n
    <3>. SUFFICES ASSUME NEW i \in 1 .. (n + 1), NEW j \in 1 .. (n + 1),
                         m_modules'[i].modid = m_modules'[j].modid
                  PROVE  i = j
      BY <2>3 DEF OneEntry
    <3>3. CASE i \in 1 .. n /\ j \in 1 .. n
      <4>1. m_modules[i].modid = m_modules[j].modid
        BY <2>3, <3>3
      <4>. QED  BY <2>3, <3>2, <3>3, <4>1 DEF OneEntry
    <3>4. CASE i = n + 1 /\ j = n + 1
      BY <3>4
    <3>5. CASE i = n + 1 /\ j \in 1 .. n
      <4>1. m_modules'[i].modid = ModidOf[m] /\ m_modules'[j].modid = m_modules[j].modid
        BY <2>3, <3>2, <3>5
      <4>. QED  BY <3>1, <3>5, <4>1
    <3>6. CASE j = n + 1 /\ i \in 1 .. n
      <4>1. m_modules'[j].modid = ModidOf[m] /\ m_modules'[i].modid = m_modules[i].modid
        BY <2>3, <3>2, <3>6
      <4>. QED  BY <3>1, <3>6, <4>1
    <3>7. (i \in 1 .. n \/ i = n + 1) /\ (j \in 1 .. n \/ j = n + 1)
      BY <2>3
    <3>. QED  BY <3>3, <3>4, <3>5, <3>6, <3>7
  <2>6. ClsmapOwned'
    <3>. SUFFICES ASSUME NEW c \in Clsid, m_clsmap'[c] # NoEntry
                  PROVE  /\ m_clsmap'[c].index \in DOMAIN m_modules'
                         /\ m_modules'[m_clsmap'[c].index].module = m_clsmap'[c].module
                         /\ c \in m_modules'[m_clsmap'[c].index].clsids
      BY DEF ClsmapOwned
    <3>1. CASE c \in new
      BY <2>1, <2>3, <3>1
    <3>2. CASE c \notin new
      <4>1. m_clsmap'[c] = m_clsmap[c]
        BY <2>1, <3>2
      <4>2. m_clsmap[c].index \in 1 .. n
        BY <2>3, <4>1 DEF ClsmapOwned, Structures
      <4>. QED  BY <2>3, <4>1, <4>2 DEF ClsmapOwned, Structures
    <3>. QED  BY <3>1, <3>2
  <2>7. ListSound'
    <3>. SUFFICES ASSUME NEW i \in DOMAIN m_modules', m_modules'[i].module # NoModule
                  PROVE  LET f == m_modules'[i].module
                         IN /\ m_modules'[i].modid = ModidOf[f]
                            /\ f \notin Rejected
                            /\ f \in File /\ ~SharedId(f) => \E s \in Slot : gModuleTable'[s] = f
      BY DEF ListSound, SharedId
    <3>1. CASE i = n + 1
      <4>1. m_modules'[i].module = m /\ m_modules'[i].modid = ModidOf[m]
        BY <2>3, <3>1
      <4>. QED  BY <4>1
    <3>2. CASE i \in 1 .. n
      <4>1. m_modules'[i] = m_modules[i] /\ i \in DOMAIN m_modules /\ ListSound
        BY <2>3, <3>2 DEF Structures
      <4>. QED  BY <4>1 DEF ListSound, TableKeeps
    <3>3. i = n + 1 \/ i \in 1 .. n
      BY <2>3
    <3>. QED  BY <3>1, <3>2, <3>3
  <2>. QED  BY <2>3, <2>4, <2>5, <2>6, <2>7 DEF Structures
<1>. QED  BY <1>1, <1>2

\* ReleaseModule, done or half done.
LEMMA ReleaseInv ==
  ASSUME Structures, FwTypeOK, NEW i \in DOMAIN m_modules,
         m_modules[i].module # NoModule, ReleaseModule(i)
  PROVE  Structures'
<1>. USE FrameworkEntryAssumption, PluginLoaderAssumption DEF Structures
<1>1. m_clsmap' = ClsmapWithout(i) /\ m_clsmap' \in [Clsid -> ClassEntry \cup {NoEntry}]
  BY DEF ReleaseModule, ClsmapWithout
<1>2. m_modules[i] \in PluginRecord /\ i \in Nat
  BY EntryType
<1>3. CASE UNCHANGED <<fwVars, m_modules>>
  <2>1. ClsmapOwned'
    BY <1>1, <1>3 DEF ClsmapOwned, ClsmapWithout
  <2>2. OneEntry' /\ ListSound'
    BY <1>3 DEF OneEntry, ListSound, SharedId, fwVars
  <2>. QED  BY <1>1, <1>3, <2>1, <2>2
<1>4. CASE /\ m_modules' = [m_modules EXCEPT ![i] = Released(@)]
           /\ UNCHANGED fwVars \/ Fw_UnLoadModule(ModidOf[m_modules[i].module])
  <2>1. Released(m_modules[i]) \in PluginRecord
    BY <1>2 DEF Released, PluginRecord
  <2>2. /\ m_modules' \in Seq(PluginRecord)
        /\ DOMAIN m_modules' = DOMAIN m_modules
        /\ m_modules'[i] = Released(m_modules[i])
        /\ \A j \in DOMAIN m_modules : j # i => m_modules'[j] = m_modules[j]
    BY <1>4, <2>1, ExceptSeq
  <2>3. m_modules'[i].module = NoModule /\ m_modules'[i].modid = m_modules[i].modid
    BY <1>2, <2>2 DEF Released, PluginRecord
  <2>4. OneEntry'
    <3>1. \A j \in DOMAIN m_modules : m_modules'[j].modid = m_modules[j].modid
      BY <2>2, <2>3
    <3>2. OneEntry
      OBVIOUS
    <3>. QED  BY <2>2, <3>1, <3>2, Zenon DEF OneEntry
  <2>5. ClsmapOwned'
    <3>. SUFFICES ASSUME NEW c \in Clsid, m_clsmap'[c] # NoEntry
                  PROVE  /\ m_clsmap'[c].index \in DOMAIN m_modules'
                         /\ m_modules'[m_clsmap'[c].index].module = m_clsmap'[c].module
                         /\ c \in m_modules'[m_clsmap'[c].index].clsids
      BY DEF ClsmapOwned
    <3>1. m_clsmap'[c] = m_clsmap[c] /\ c \notin m_modules[i].clsids
      BY <1>1 DEF ClsmapWithout
    <3>2. m_clsmap[c].index # i
      BY <3>1 DEF ClsmapOwned
    <3>. QED  BY <2>2, <3>1, <3>2 DEF ClsmapOwned
  <2>6. ListSound'
    <3>. SUFFICES ASSUME NEW j \in DOMAIN m_modules, j # i, m_modules[j].module # NoModule
                  PROVE  LET f == m_modules[j].module
                         IN f \in File /\ ~SharedId(f) => \E s \in Slot : gModuleTable'[s] = f
      BY <2>2, <2>3 DEF ListSound, SharedId
    <3> DEFINE f == m_modules[j].module
    <3>1. ModidOf[f] # ModidOf[m_modules[i].module]
      BY DEF ListSound, OneEntry
    <3>2. \A s \in Slot : gModuleTable[s] = f => gModuleTable'[s] = f
      <4>1. CASE Fw_UnLoadModule(ModidOf[m_modules[i].module])
        BY <3>1, <4>1, EntryFacts DEF Fw_UnLoadModule, Removed, FwTypeOK
      <4>. QED  BY <1>4, <4>1 DEF fwVars
    <3>. QED  BY <3>2 DEF ListSound
  <2>. QED  BY <1>1, <2>2, <2>4, <2>5, <2>6
<1>. QED  BY <1>3, <1>4 DEF ReleaseModule

\* Steps that change the table alone.
LEMMA TableStepInv ==
  ASSUME Structures, TableKeeps, UNCHANGED <<m_modules, m_clsmap>>
  PROVE  Structures'
  BY DEF Structures, OneEntry, ClsmapOwned, ListSound, SharedId, TableKeeps

\* Entering a module drops no listed library with an id of its own.
LEMMA EnterTableKeeps ==
  ASSUME Structures, FwTypeOK, NEW m \in Module, NEW opened, EnterModule(m, opened)
  PROVE  TableKeeps
<1>. SUFFICES ASSUME NEW f \in File, ~SharedId(f), NEW s \in Slot, gModuleTable[s] = f
              PROVE  \E t \in Slot : gModuleTable'[t] = f
  BY DEF TableKeeps
<1>1. f = m \/ ModidOf[f] # ModidOf[m]
  BY DEF SharedId
<1>. QED  BY <1>1, EnterKeeps DEF Module

-----------------------------------------------------------------------------
(* Every step.                                                             *)

\* The remaining variables.
RestOK ==
  /\ constructed \subseteq Static
  /\ inUse \subseteq Module
  /\ loop \in {Idle} \cup [op : {"init"}, at : Nat \ {0}]
                \cup [op : {"unload"}, at : Nat \ {0}, force : BOOLEAN, res : {"OK", "ERROR"}]
  /\ ret \in {"OK", "ERROR"}

LEMMA TypeOKParts ==
  TypeOK <=> /\ FwTypeOK /\ RestOK
             /\ m_modules \in Seq(PluginRecord)
             /\ m_clsmap \in [Clsid -> ClassEntry \cup {NoEntry}]
  BY DEF TypeOK, RestOK

\* Counting a use, and forgetting the uses of unmapped libraries.
LEMMA InUseType ==
  ASSUME NEW S \in SUBSET Module
  PROVE  S \cup {FwModule} \subseteq Module /\ StillCounted(S \cup {FwModule}) \subseteq Module
  BY PluginLoaderAssumption DEF StillCounted, Module

\* What unloading entry i does to the structures, to inUse and to ret.
LEMMA UnloadEntryInv ==
  ASSUME IInv, NEW i \in DOMAIN m_modules, NEW force, UnloadEntry(i, force)
  PROVE  Structures' /\ inUse' \subseteq Module /\ ret' \in {"OK", "ERROR"}
<1>1. Structures /\ FwTypeOK /\ inUse \subseteq Module
  BY DEF IInv, TypeOK, Structures
<1>2. CASE UNCHANGED <<fwVars, m_modules, m_clsmap, inUse>> /\ ret' = "ERROR"
  <2>1. TableKeeps
    BY <1>2 DEF TableKeeps, fwVars
  <2>. QED  BY <1>1, <1>2, <2>1, TableStepInv
<1>3. CASE m_modules[i].module # NoModule /\ ReleaseModule(i) /\ ret' = "OK"
  <2>1. inUse' \subseteq Module
    BY <1>1, <1>3, InUseType DEF ReleaseModule
  <2>. QED  BY <1>1, <1>3, <2>1, ReleaseInv
<1>. QED  BY <1>2, <1>3 DEF UnloadEntry

\* The structures and the remaining variables after a step of Next.
LEMMA StepKeeps ==
  ASSUME IInv, Next
  PROVE  Structures' /\ RestOK'
<1>. USE PluginLoaderAssumption
<1>1. Structures /\ FwTypeOK /\ RestOK /\ FwInv
  BY DEF IInv, TypeOK, Structures, RestOK
<1>2. UNCHANGED fwVars => TableKeeps
  BY DEF TableKeeps, fwVars
<1>3. ASSUME NEW m \in Linked, StaticConstructor(m) PROVE Structures' /\ RestOK'
  <2>1. TableKeeps
    BY <1>1, <1>2, <1>3, EnterTableKeeps DEF StaticConstructor, Fw_RegisteModule, Linked, Module
  <2>2. Structures'
    BY <1>1, <1>3, <2>1, TableStepInv DEF StaticConstructor
  <2>. QED  BY <1>1, <1>3, <2>2 DEF StaticConstructor, RestOK, Linked
<1>4. ASSUME LoadPluginManager PROVE Structures' /\ RestOK'
  <2> DEFINE entry == [modid |-> ModidOf[LoaderModule], module |-> LoaderModule,
                       clsids |-> {}, owned |-> FALSE, inited |-> TRUE]
  <2>1. entry \in PluginRecord
    BY FrameworkEntryAssumption DEF PluginRecord, Module, Modid
  <2>. HIDE DEF entry
  <2>2. /\ m_modules' = <<entry>> /\ m_modules' \in Seq(PluginRecord)
        /\ DOMAIN m_modules' = {1} /\ m_modules'[1] = entry
    BY <1>4, <2>1 DEF LoadPluginManager, entry
  <2>3. \A c \in Clsid : m_clsmap'[c] = NoEntry
    BY <1>1, <1>4 DEF LoadPluginManager, Structures, ClsmapOwned
  <2>4. OneEntry' /\ ClsmapOwned'
    BY <2>2, <2>3 DEF OneEntry, ClsmapOwned
  <2>5. ListSound'
    BY <2>2, FrameworkEntryAssumption DEF ListSound, entry
  <2>. QED  BY <1>1, <1>4, <2>2, <2>4, <2>5 DEF LoadPluginManager, Structures, RestOK
<1>5. ASSUME RegisterFrameWork PROVE Structures' /\ RestOK'
  <2>1. FwModule \in Module \ Rejected
    BY DEF Module
  <2>2. CASE Fw_RegisteModule(FwModule) /\ RegisterPlugin(FwModule)
    <3>1. TableKeeps /\ \E s \in Slot : gModuleTable'[s] = FwModule
      BY <1>1, <2>1, <2>2, EnterTableKeeps, EnterEnters DEF Fw_RegisteModule
    <3>2. Structures'
      BY <1>1, <2>1, <2>2, <3>1, RegisterInv
    <3>. QED  BY <1>1, <1>5, <3>2 DEF RegisterFrameWork, RestOK
  <2>3. CASE UNCHANGED <<fwVars, m_modules, m_clsmap, constructed>>
    <3>1. Structures'
      BY <1>1, <1>2, <2>3, TableStepInv
    <3>. QED  BY <1>1, <1>5, <2>3, <3>1 DEF RegisterFrameWork, RestOK
  <2>. QED  BY <1>5, <2>2, <2>3 DEF RegisterFrameWork
<1>6. ASSUME NEW f \in File, LoadPluginFile(f) PROVE Structures' /\ RestOK'
  <2>1. TableKeeps
    BY <1>1, <1>2, <1>6, EnterTableKeeps, FailsChangesNothing
       DEF LoadPluginFile, Fw_LoadModule, Module
  <2>2. Structures'
    BY <1>1, <1>6, <2>1, TableStepInv DEF LoadPluginFile
  <2>. QED  BY <1>1, <1>6, <2>2, InUseType DEF LoadPluginFile, RestOK
<1>7. ASSUME NEW d \in Modid, LoadPlugin(d) PROVE Structures' /\ RestOK'
  <2> DEFINE m == Fw_GetModulePtr(d)
  <2>. HIDE DEF m
  <2>1. ASSUME UNCHANGED <<fwVars, m_modules, m_clsmap>> PROVE Structures'
    BY <1>1, <1>2, <2>1, TableStepInv
  <2>2. ASSUME m \in Rejected, UNCHANGED <<m_modules, m_clsmap>>,
               Fw_UnLoadModule(ModidOf[m])
        PROVE  Structures'
    <3>1. TableKeeps
      <4>. SUFFICES ASSUME NEW i \in DOMAIN m_modules, m_modules[i].module \in File,
                           ~SharedId(m_modules[i].module), NEW s \in Slot,
                           gModuleTable[s] = m_modules[i].module
                    PROVE  gModuleTable'[s] = gModuleTable[s]
        BY DEF TableKeeps
      <4>1. m_modules[i].module # m
        BY <1>1, <2>2, FrameworkEntryAssumption DEF Structures, ListSound, Module
      <4>2. ModidOf[m_modules[i].module] # ModidOf[m]
        BY <2>2, <4>1 DEF SharedId
      <4>. QED  BY <1>1, <2>2, <4>2, EntryFacts, FrameworkEntryAssumption
                DEF Fw_UnLoadModule, Removed, FwTypeOK
    <3>. QED  BY <1>1, <2>2, <3>1, TableStepInv
  <2>3. ASSUME m \in Module \ Rejected, RegisterPlugin(m), UNCHANGED fwVars
        PROVE  Structures'
    <3>1. \E s \in Slot : gModuleTable'[s] = m
      BY <1>1, <2>3, GetModulePtrFacts, FrameworkEntryAssumption DEF fwVars, m
    <3>. QED  BY <1>1, <1>2, <2>3, <3>1, RegisterInv
  <2>4. Structures'
    BY <1>7, <2>1, <2>2, <2>3 DEF LoadPlugin, m
  <2>5. inUse' \subseteq Module /\ ret' \in {"OK", "ERROR"} /\ UNCHANGED <<constructed, loop>>
    BY <1>1, <1>7, InUseType DEF LoadPlugin, RestOK
  <2>. QED  BY <1>1, <2>4, <2>5 DEF RestOK
<1>8. ASSUME InitializePlugins PROVE Structures' /\ RestOK'
  <2>1. Structures'
    BY <1>1, <1>2, <1>8, TableStepInv DEF InitializePlugins
  <2>. QED  BY <1>1, <1>8, <2>1 DEF InitializePlugins, RestOK
<1>9. ASSUME InitializeStep PROVE Structures' /\ RestOK'
  <2>1. loop \in [op : {"init"}, at : Nat \ {0}]
    BY <1>1, <1>9 DEF InitializeStep, RestOK, Idle
  <2>2. RestOK'
    <3>1. loop' = [loop EXCEPT !.at = @ + 1] => loop' \in [op : {"init"}, at : Nat \ {0}]
      BY <2>1
    <3>. QED  BY <1>1, <1>9, <3>1 DEF InitializeStep, EndLoop, RestOK
  <2>3. ASSUME UNCHANGED m_modules PROVE Structures'
    BY <1>1, <1>2, <1>9, <2>3, TableStepInv DEF InitializeStep
  <2>4. ASSUME loop.at \in DOMAIN m_modules,
               m_modules' = [m_modules EXCEPT ![loop.at].inited = TRUE]
        PROVE  Structures'
    <3> DEFINE i == loop.at
    <3>1. m_modules[i] \in PluginRecord
      BY <1>1, <2>4, EntryType DEF Structures
    <3>2. [m_modules[i] EXCEPT !.inited = TRUE] \in PluginRecord
      BY <3>1 DEF PluginRecord
    <3>3. /\ m_modules' \in Seq(PluginRecord)
          /\ DOMAIN m_modules' = DOMAIN m_modules
          /\ m_modules'[i] = [m_modules[i] EXCEPT !.inited = TRUE]
          /\ \A j \in DOMAIN m_modules : j # i => m_modules'[j] = m_modules[j]
      BY <1>1, <2>4, <3>2, ExceptSeq DEF Structures
    <3>4. \A j \in DOMAIN m_modules :
            /\ m_modules'[j].module = m_modules[j].module
            /\ m_modules'[j].modid = m_modules[j].modid
            /\ m_modules'[j].clsids = m_modules[j].clsids
      BY <3>1, <3>3 DEF PluginRecord
    <3>5. UNCHANGED <<fwVars, m_clsmap>>
      BY <1>9 DEF InitializeStep
    <3>. HIDE DEF i
    <3>6. OneEntry'
      <4>1. OneEntry /\ DOMAIN m_modules' = DOMAIN m_modules
        BY <1>1, <3>3 DEF Structures
      <4>. QED  BY <3>4, <4>1, Zenon DEF OneEntry
    <3>7. ClsmapOwned'
      <4>1. ClsmapOwned /\ DOMAIN m_modules' = DOMAIN m_modules /\ m_clsmap' = m_clsmap
        BY <1>1, <3>3, <3>5 DEF Structures
      <4>. QED  BY <3>4, <4>1 DEF ClsmapOwned
    <3>8. ListSound'
      <4>1. /\ ListSound /\ DOMAIN m_modules' = DOMAIN m_modules
            /\ gModuleTable' = gModuleTable
        BY <1>1, <3>3, <3>5 DEF Structures, fwVars
      <4>. QED  BY <3>4, <4>1 DEF ListSound, SharedId
    <3>. QED  BY <1>1, <3>3, <3>5, <3>6, <3>7, <3>8 DEF Structures
  <2>5. loop.at <= Len(m_modules) => loop.at \in DOMAIN m_modules
    BY <1>1, <2>1 DEF Structures
  <2>. QED  BY <1>9, <2>2, <2>3, <2>4, <2>5 DEF InitializeStep
<1>10. ASSUME NEW d \in Modid, NEW force \in BOOLEAN, UnloadPlugin(d, force)
       PROVE  Structures' /\ RestOK'
  <2>1. CASE UNCHANGED <<fwVars, m_modules, m_clsmap, inUse>> /\ ret' = "ERROR"
    <3>1. Structures'
      BY <1>1, <1>2, <2>1, TableStepInv
    <3>. QED  BY <1>1, <1>10, <2>1, <3>1 DEF UnloadPlugin, RestOK
  <2>2. CASE FindModule(d) # 0 /\ UnloadEntry(FindModule(d), force)
    <3>1. FindModule(d) \in DOMAIN m_modules
      BY <1>1, <2>2, FindFacts DEF Structures
    <3>2. Structures' /\ inUse' \subseteq Module /\ ret' \in {"OK", "ERROR"}
      BY <2>2, <3>1, UnloadEntryInv
    <3>. QED  BY <1>1, <1>10, <3>2 DEF UnloadPlugin, RestOK
  <2>. QED  BY <1>10, <2>1, <2>2 DEF UnloadPlugin
<1>11. ASSUME NEW force \in BOOLEAN, UnloadPluginAll(force) PROVE Structures' /\ RestOK'
  <2>1. Structures'
    BY <1>1, <1>2, <1>11, TableStepInv DEF UnloadPluginAll
  <2>. QED  BY <1>1, <1>11, <2>1 DEF UnloadPluginAll, RestOK
<1>12. ASSUME UnloadStep PROVE Structures' /\ RestOK'
  <2>1. loop \in [op : {"unload"}, at : Nat \ {0}, force : BOOLEAN, res : {"OK", "ERROR"}]
    BY <1>1, <1>12 DEF UnloadStep, RestOK, Idle
  <2>2. CASE UNCHANGED <<fwVars, m_modules, m_clsmap, inUse>> /\ \E r \in {"OK", "ERROR"} : EndLoop(r)
    <3>1. Structures'
      BY <1>1, <1>2, <2>2, TableStepInv
    <3>. QED  BY <1>1, <1>12, <2>2, <3>1 DEF UnloadStep, EndLoop, RestOK
  <2>3. CASE /\ loop.at \in DOMAIN m_modules /\ UnloadEntry(loop.at, loop.force)
             /\ loop' = [loop EXCEPT !.at = @ + 1,
                                     !.res = IF ret' = "OK" THEN @ ELSE ret']
    <3>1. Structures' /\ inUse' \subseteq Module /\ ret' \in {"OK", "ERROR"}
      BY <2>3, UnloadEntryInv
    <3>2. loop' \in [op : {"unload"}, at : Nat \ {0}, force : BOOLEAN, res : {"OK", "ERROR"}]
      <4> DEFINE r == IF ret' = "OK" THEN loop.res ELSE ret'
      <4>1. r \in {"OK", "ERROR"} /\ loop.at + 1 \in Nat \ {0}
        BY <2>1, <3>1
      <4>2. loop' = [loop EXCEPT !.at = loop.at + 1, !.res = r]
        BY <2>3
      <4>. HIDE DEF r
      <4>. QED  BY <2>1, <4>1, <4>2
    <3>. QED  BY <1>1, <1>12, <3>1, <3>2 DEF UnloadStep, RestOK
  <2>4. loop.at <= Len(m_modules) => loop.at \in DOMAIN m_modules
    BY <1>1, <2>1 DEF Structures
  <2>. QED  BY <1>12, <2>1, <2>2, <2>3, <2>4 DEF UnloadStep
<1>13. ASSUME NEW c \in Clsid, NEW d, CreateObject(c, d) PROVE Structures' /\ RestOK'
  <2>1. Structures'
    BY <1>1, <1>2, <1>13, TableStepInv DEF CreateObject
  <2>2. m_clsmap[c].module \in Module
    BY <1>1, <1>13 DEF CreateObject, Structures, ClassEntry
  <2>. QED  BY <1>1, <1>13, <2>1, <2>2 DEF CreateObject, RestOK
<1>14. ASSUME NEW m \in Module, ReleaseObject(m) PROVE Structures' /\ RestOK'
  <2>1. Structures'
    BY <1>1, <1>2, <1>14, TableStepInv DEF ReleaseObject
  <2>. QED  BY <1>1, <1>14, <2>1 DEF ReleaseObject, RestOK
<1>. QED  BY <1>3, <1>4, <1>5, <1>6, <1>7, <1>8, <1>9, <1>10, <1>11, <1>12, <1>13, <1>14
          DEF Next

-----------------------------------------------------------------------------
(* The theorems.                                                           *)

\* The inductive invariant holds initially.
LEMMA InitInv == Init => IInv
<1>. SUFFICES ASSUME Init PROVE IInv
  OBVIOUS
<1>1. FwInv
  BY FwInitInv DEF Init
<1>2. TypeOK
  BY <1>1 DEF Init, TypeOK, FwInv, ClassEntry
<1>3. OneEntry /\ ClsmapOwned /\ ListSound
  BY DEF Init, OneEntry, ClsmapOwned, ListSound
<1>. QED  BY <1>1, <1>2, <1>3 DEF IInv

\* The inductive invariant is kept by every step.
LEMMA StepInv == IInv /\ [Next]_vars => IInv'
<1>. SUFFICES ASSUME IInv, [Next]_vars PROVE IInv'
  OBVIOUS
<1>1. FwInv'
  BY StepUsesTable, FwStepInv DEF IInv
<1>2. CASE Next
  <2>1. Structures' /\ RestOK'
    BY <1>2, StepKeeps
  <2>. QED  BY <1>1, <2>1 DEF IInv, TypeOK, Structures, RestOK, FwInv
<1>3. CASE UNCHANGED vars
  <2>1. UNCHANGED fwVars
    BY <1>3 DEF vars
  <2>2. TypeOK'
    BY <1>3, <1>1 DEF IInv, TypeOK, FwInv, vars
  <2>3. OneEntry' /\ ClsmapOwned' /\ ListSound'
    BY <1>3, <2>1 DEF IInv, OneEntry, ClsmapOwned, ListSound, SharedId, vars, fwVars
  <2>. QED  BY <1>1, <2>2, <2>3 DEF IInv
<1>. QED  BY <1>2, <1>3

\* IInv holds in every reachable state.
LEMMA Inductive == Spec => []IInv
  BY InitInv, StepInv, PTL DEF Spec

\* Every variable keeps its type.
THEOREM LoaderTypeCorrect == Spec => []TypeOK
<1>1. IInv => TypeOK
  BY DEF IInv
<1>. QED  BY <1>1, Inductive, PTL

\* The three invariants of the module table, whatever the loader does with it.
THEOREM LoaderUniqueModid == Spec => []UniqueModid
<1>1. IInv => UniqueModid
  BY DEF IInv, FwInv
<1>. QED  BY <1>1, Inductive, PTL

\* The counter is the number of entries.
THEOREM LoaderCountExact == Spec => []CountExact
<1>1. IInv => CountExact
  BY DEF IInv, FwInv
<1>. QED  BY <1>1, Inductive, PTL

\* No library handle leaks and none is closed twice.
THEOREM LoaderLibraryBalance == Spec => []LibraryBalance
<1>1. IInv => LibraryBalance
  BY DEF IInv, FwInv
<1>. QED  BY <1>1, Inductive, PTL

\* What the loader and the table know of a plugin agrees.
THEOREM LoaderListSound == Spec => []ListSound
<1>1. IInv => ListSound
  BY DEF IInv
<1>. QED  BY <1>1, Inductive, PTL

\* No class is served by a released plugin.
THEOREM LoaderClsmapOwned == Spec => []ClsmapOwned
<1>1. IInv => ClsmapOwned
  BY DEF IInv
<1>. QED  BY <1>1, Inductive, PTL

\* A plugin id keeps a single entry.
THEOREM LoaderOneEntry == Spec => []OneEntry
<1>1. IInv => OneEntry
  BY DEF IInv
<1>. QED  BY <1>1, Inductive, PTL

\* The list never refers to an unmapped library whose id is its own: what is
\* listed is in the table (ListSound), what is in the table is mapped
\* (LibraryBalance).
THEOREM LoaderNoDangling == Spec => []NoDangling
<1>1. IInv => NoDangling
  BY FrameworkEntryAssumption DEF IInv, NoDangling, ListSound, FwInv, LibraryBalance, Module
<1>. QED  BY <1>1, Inductive, PTL

\* A creator keeps its class until it is unloaded.
THEOREM LoaderRegistrantStays == Spec => RegistrantStays
<1> DEFINE Stays == \A c \in Clsid :
             m_clsmap[c] # NoEntry /\ m_clsmap'[c] # NoEntry => m_clsmap'[c] = m_clsmap[c]
<1>1. ASSUME Next PROVE Stays
  <2>1. \A i : m_clsmap' = ClsmapWithout(i) => Stays
    BY DEF ClsmapWithout
  <2>2. \A m : RegisterPlugin(m) => Stays
    BY DEF RegisterPlugin, Registrable
  <2>. QED  BY <1>1, <2>1, <2>2
            DEF Next, StaticConstructor, LoadPluginManager, RegisterFrameWork,
                LoadPluginFile, LoadPlugin, InitializePlugins, InitializeStep,
                UnloadPlugin, UnloadPluginAll, UnloadStep, UnloadEntry, ReleaseModule,
                CreateObject, ReleaseObject
<1>2. Next => [Stays]_vars
  BY <1>1
<1>. QED  BY <1>2, PTL DEF Spec, RegistrantStays

\* A running InitializePlugins has initialised every entry it has passed.
PassedInited ==
  loop.op = "init" => \A j \in DOMAIN m_modules : j < loop.at => m_modules[j].inited

\* The loop passes an entry that is initialised, or that it has just
\* initialised; nobody else changes the list meanwhile.
LEMMA PassedStep ==
  ASSUME IInv, PassedInited, [Next]_vars
  PROVE  PassedInited'
<1>. SUFFICES ASSUME loop'.op = "init", NEW j \in DOMAIN m_modules', j < loop'.at
              PROVE  m_modules'[j].inited
  BY DEF PassedInited
<1>1. CASE UNCHANGED <<m_modules, loop>>
  BY <1>1 DEF PassedInited
<1>2. CASE InitializeStep
  <2>1. /\ loop \in [op : {"init"}, at : Nat \ {0}]
        /\ loop' = [loop EXCEPT !.at = @ + 1]
    BY <1>2 DEF InitializeStep, EndLoop, Idle, IInv, TypeOK
  <2>2. loop.at \in Nat /\ loop'.at = loop.at + 1
    BY <2>1
  <2>3. /\ m_modules \in Seq(PluginRecord) /\ DOMAIN m_modules = 1 .. Len(m_modules)
    BY DEF IInv, TypeOK
  <2>4. CASE /\ loop.at <= Len(m_modules) /\ m_modules[loop.at].inited
             /\ UNCHANGED m_modules
    <3>1. j < loop.at \/ j = loop.at
      BY <2>2, <2>3, <2>4
    <3>. QED  BY <2>1, <2>4, <3>1 DEF PassedInited
  <2>5. CASE /\ loop.at <= Len(m_modules)
             /\ m_modules' = [m_modules EXCEPT ![loop.at].inited = TRUE]
    <3>1. loop.at \in DOMAIN m_modules
      BY <2>2, <2>3, <2>5, <2>1
    <3>2. m_modules[loop.at] \in PluginRecord
      BY <3>1, EntryType, <2>3
    <3>3. DOMAIN m_modules' = DOMAIN m_modules
      BY <2>5
    <3>4. m_modules'[loop.at].inited
      BY <2>5, <3>1, <3>2 DEF PluginRecord
    <3>5. j # loop.at => m_modules'[j] = m_modules[j]
      BY <2>5, <3>3
    <3>6. j < loop.at \/ j = loop.at
      BY <2>2, <2>3, <3>3
    <3>. QED  BY <2>1, <3>3, <3>4, <3>5, <3>6 DEF PassedInited
  <2>. QED  BY <1>2, <2>1, <2>4, <2>5 DEF InitializeStep, EndLoop, Idle
<1>3. CASE InitializePlugins
  <2>1. loop' = [op |-> "init", at |-> 1]
    BY <1>3 DEF InitializePlugins
  <2>2. j \in Nat \ {0}
    BY <1>3 DEF IInv, TypeOK, InitializePlugins
  <2>. QED  BY <2>1, <2>2
<1>4. CASE LoadPluginManager
  <2>1. DOMAIN m_modules' = {1} /\ m_modules'[1].inited
    BY <1>4 DEF LoadPluginManager
  <2>. QED  BY <2>1
<1>5. CASE UnloadStep
  <2>1. loop \in [op : {"unload"}, at : Nat \ {0}, force : BOOLEAN, res : {"OK", "ERROR"}]
    BY <1>5 DEF UnloadStep, IInv, TypeOK, Idle
  <2>2. CASE loop' = [loop EXCEPT !.at = @ + 1,
                                  !.res = IF ret' = "OK" THEN @ ELSE ret']
    <3> DEFINE a == loop.at + 1
               r == IF ret' = "OK" THEN loop.res ELSE ret'
    <3>1. loop' = [loop EXCEPT !.at = a, !.res = r]
      BY <2>2
    <3>. HIDE DEF a, r
    <3>. QED  BY <2>1, <3>1
  <2>3. CASE loop' = Idle
    BY <2>3 DEF Idle
  <2>. QED  BY <1>5, <2>2, <2>3 DEF UnloadStep, EndLoop
<1>6. CASE loop = Idle /\ UNCHANGED loop
  BY <1>6 DEF Idle
<1>7. CASE UnloadPluginAll(TRUE) \/ UnloadPluginAll(FALSE)
  BY <1>7 DEF UnloadPluginAll
<1>. QED  BY <1>1, <1>2, <1>3, <1>4, <1>5, <1>6, <1>7
          DEF Next, vars, StaticConstructor, RegisterFrameWork, LoadPluginFile,
              LoadPlugin, UnloadPlugin, CreateObject, ReleaseObject, Ready

\* InitializePlugins reports success only when every plugin up to the first
\* released one is initialised.
THEOREM LoaderInitReaches == Spec => InitReaches
<1> DEFINE Reaches == loop.op = "init" /\ loop'.op = "idle" /\ ret' = "OK"
                        => \A i \in DOMAIN m_modules : Reached(i) => m_modules[i].inited
<1>1. Init => PassedInited
  BY DEF Init, Idle, PassedInited
<1>2. ASSUME IInv, PassedInited, Next PROVE Reaches
  <2>. SUFFICES ASSUME loop.op = "init", loop'.op = "idle", ret' = "OK",
                       NEW i \in DOMAIN m_modules, Reached(i)
                PROVE  m_modules[i].inited
    OBVIOUS
  <2>1. /\ loop \in [op : {"init"}, at : Nat \ {0}]
        /\ DOMAIN m_modules = 1 .. Len(m_modules)
        /\ Len(m_modules) \in Nat
    BY <1>2 DEF IInv, TypeOK, Idle
  <2>2. CASE InitializeStep
    <3>1. \/ loop.at > Len(m_modules)
          \/ /\ ~m_modules[loop.at].inited
             /\ m_modules[loop.at].module = NoModule
      BY <2>1, <2>2 DEF InitializeStep, EndLoop
    <3>2. i < loop.at
      BY <2>1, <3>1 DEF Reached
    <3>. QED  BY <1>2, <3>2 DEF PassedInited
  <2>3. CASE loop' = loop \/ loop = Idle \/ loop.op = "unload"
    BY <2>3 DEF Idle
  <2>. QED  BY <1>2, <2>2, <2>3
            DEF Next, StaticConstructor, LoadPluginManager, RegisterFrameWork, LoadPluginFile,
                LoadPlugin, InitializePlugins, UnloadPlugin, UnloadPluginAll, UnloadStep,
                CreateObject, ReleaseObject, Ready
<1>3. IInv /\ PassedInited /\ [Next]_vars => PassedInited'
  BY PassedStep
<1>4. IInv /\ PassedInited /\ [Next]_vars => [Reaches]_vars
  BY <1>2
<1>. QED  BY <1>1, <1>3, <1>4, Inductive, PTL DEF Spec, InitReaches

=============================================================================
