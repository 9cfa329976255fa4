---------------------------- MODULE PluginLoader ----------------------------
(***************************************************************************)
(* The plugin loader (PModule/PluginLoader: Cx_PluginLoader on top of      *)
(* Cx_ObjectFactory) over the global module table of FrameworkEntry.       *)
(*                                                                         *)
(* m_modules lists the plugins that were ever loaded; a released one keeps *)
(* its entry, with a NULL module, because m_clsmap holds indices into the  *)
(* list.  m_clsmap gives for a class id the module whose creator function  *)
(* serves it.  The loader reaches the table through the object of class    *)
(* CLSID_FwIntf, which is itself created through m_clsmap: once the        *)
(* framework's own module is unloaded the loader cannot open or close a    *)
(* library any more.                                                       *)
(*                                                                         *)
(* One thread runs everything.  InitializePlugins and UnloadPluginAll call *)
(* into plugins, which may create objects meanwhile; loop is the position  *)
(* of such a call.  The module models the build with the loader linked in  *)
(* and LWDP_DEBUG_MACRO defined (the makefiles' build), where a failed     *)
(* ASSERT_CHECK_RET returns.                                               *)
(***************************************************************************)
EXTENDS FrameworkEntry, Sequences

CONSTANTS
  LoaderModule,  \* the module object of the PluginLoader plugin
  FwModule,      \* the framework's own module object (Cx_FwIntf)
  Clsid,         \* class ids
  FwClsid,       \* CLSID_FwIntf
  ClassesOf,     \* the class ids in a module's class table
  LevelOf,       \* pluginLevel of a module
  DomainCovers,  \* <<m, n>>: the domain string of m contains that of n
  Rejected,      \* modules CheckPlugin refuses (version, unicode tag)
  NoEntry        \* no creator is registered for a class id

ASSUME PluginLoaderAssumption ==
  /\ LoaderModule \in Static /\ FwModule \in Static
  /\ LoaderModule # FwModule
  /\ \A m \in Module \ {FwModule} : ModidOf[m] # ModidOf[FwModule]
  /\ \A m \in Module \ {LoaderModule} : ModidOf[m] # ModidOf[LoaderModule]
  /\ ClassesOf \in [Module -> SUBSET Clsid]
  /\ FwClsid \in Clsid
  /\ LevelOf \in [Module -> Nat]
  /\ DomainCovers \subseteq Module \X Module
  /\ Rejected \subseteq Module \ {LoaderModule, FwModule}
  /\ NoEntry \notin [module : Module, index : Nat]

VARIABLES
  constructed,  \* linked-in modules whose static constructor has run
  m_modules,    \* the plugin list, a sequence of MODULE records
  m_clsmap,     \* the creator registered for each class id
  inUse,        \* modules whose CanUnloadPlugin() answers false
  loop,         \* the running InitializePlugins or UnloadPluginAll
  ret           \* what the last operation of the loader returned

vars == <<fwVars, constructed, m_modules, m_clsmap, inUse, loop, ret>>
loaderVars == <<constructed, m_modules, m_clsmap, inUse, loop, ret>>

PluginRecord == [modid : Modid, module : Module \cup {NoModule},
                 clsids : SUBSET Clsid, owned : BOOLEAN, inited : BOOLEAN]
ClassEntry == [module : Module, index : Nat \ {0}]
Idle == [op |-> "idle"]

TypeOK ==
  /\ FwTypeOK
  /\ constructed \subseteq Static
  /\ m_modules \in Seq(PluginRecord)
  /\ m_clsmap \in [Clsid -> ClassEntry \cup {NoEntry}]
  /\ inUse \subseteq Module
  /\ loop \in {Idle} \cup [op : {"init"}, at : Nat \ {0}]
                \cup [op : {"unload"}, at : Nat \ {0}, force : BOOLEAN, res : {"OK", "ERROR"}]
  /\ ret \in {"OK", "ERROR"}

\* Linked-in modules enter the table from their static constructors, in an
\* order the language leaves open; FwModule is made by Fw_Init instead.
Linked == Static \ {FwModule}

Init ==
  /\ FwInit
  /\ constructed = {}
  /\ m_modules = <<>>
  /\ m_clsmap = [c \in Clsid |-> NoEntry]
  /\ inUse = {}
  /\ loop = Idle
  /\ ret = "OK"

-----------------------------------------------------------------------------
(* Helpers.                                                                *)

\* FindModule and GetPluginIndex search from the end; 0 stands for -1.
FindModule(d) ==
  IF \E i \in DOMAIN m_modules : m_modules[i].modid = d
  THEN CHOOSE i \in DOMAIN m_modules :
         /\ m_modules[i].modid = d
         /\ \A j \in DOMAIN m_modules : j > i => m_modules[j].modid # d
  ELSE 0

\* CreateObject(CLSID_FwIntf) succeeds; the first use leaves a count on the
\* singleton that nobody gives back, so its module is in use from then on.
FwIntfReachable == m_clsmap[FwClsid] # NoEntry

\* A module object can be called while the code that holds it is in memory.
\* A call into an unmapped library faults: it has no successor in the model.
Callable(m) == m \in File => mapped[m] > 0

\* Usage counters are static data of the module's library.
StillCounted(S) == {m \in S : m \in File => mapped'[m] > 0}

\* The classes of m that RegisterClassEntryTable can register: RegisterClass
\* refuses one that somebody else already serves.
Registrable(m) == {c \in ClassesOf[m] : m_clsmap[c] = NoEntry}

\* A slip: a plugin whose id is known is registered once more.
FaultRegisterAgain(m) ==
  /\ m_modules' = Append(m_modules,
       [modid |-> ModidOf[m], module |-> m, clsids |-> Registrable(m),
        owned |-> m \in File, inited |-> FALSE])
  /\ m_clsmap' = [c \in Clsid |->
       IF c \in Registrable(m) THEN [module |-> m, index |-> Len(m_modules) + 1]
       ELSE m_clsmap[c]]

\* A slip: a class somebody else serves is registered over the old creator.
FaultRegisterOver(m) ==
  IF FindModule(ModidOf[m]) # 0
  THEN UNCHANGED <<m_modules, m_clsmap>>
  ELSE /\ m_modules' = Append(m_modules,
            [modid |-> ModidOf[m], module |-> m, clsids |-> ClassesOf[m],
             owned |-> m \in File, inited |-> FALSE])
       /\ m_clsmap' = [c \in Clsid |->
            IF c \in ClassesOf[m] THEN [module |-> m, index |-> Len(m_modules) + 1]
            ELSE m_clsmap[c]]

\* RegisterPlugin: a known id is left alone (and reported as 0, that is
\* LWDP_OK); a new one is appended and its classes registered.
RegisterPlugin(m) ==
  IF FindModule(ModidOf[m]) # 0
  THEN UNCHANGED <<m_modules, m_clsmap>>
  ELSE /\ m_modules' = Append(m_modules,
            [modid |-> ModidOf[m], module |-> m, clsids |-> Registrable(m),
             owned |-> m \in File, inited |-> FALSE])
       /\ m_clsmap' = [c \in Clsid |->
            IF c \in Registrable(m) THEN [module |-> m, index |-> Len(m_modules) + 1]
            ELSE m_clsmap[c]]

\* ReferenceCheck(target, source) = LWDP_OK.  A source that is no plugin is
\* the main program, which may use everything.
ReferenceCheck(target, d) ==
  LET i == FindModule(d)
      j == FindModule(ModidOf[target])
  IN i # 0 =>
       /\ m_modules[i].module # NoModule
       /\ j # 0
       /\ m_modules[j].module # NoModule
       /\ LevelOf[m_modules[j].module] <= LevelOf[m_modules[i].module]
       /\ <<m_modules[i].module, m_modules[j].module>> \in DomainCovers

\* A slip: the classes of a released plugin stay registered.
FaultKeepClasses(i) == m_clsmap

\* m_clsmap without the classes entry i lists, whoever serves them now.
ClsmapWithout(i) ==
  [c \in Clsid |-> IF c \in m_modules[i].clsids THEN NoEntry ELSE m_clsmap[c]]

\* A slip: the entry of a released plugin keeps its module pointer.
FaultKeepPointer(r) == [r EXCEPT !.clsids = {}, !.owned = FALSE, !.inited = FALSE]

\* The record ReleaseModule leaves behind: the id stays.
Released(r) == [r EXCEPT !.module = NoModule, !.clsids = {},
                         !.owned = FALSE, !.inited = FALSE]

\* ReleaseModule.  The classes go first; a plugin that came with a library
\* then needs the framework interface to close it, and when that is gone the
\* function returns with the rest undone.
ReleaseModule(i) ==
  /\ m_clsmap' = ClsmapWithout(i)
  /\ \/ /\ m_modules[i].owned
        /\ ClsmapWithout(i)[FwClsid] = NoEntry
        /\ UNCHANGED <<fwVars, m_modules, inUse>>
     \/ /\ m_modules[i].owned
        /\ ClsmapWithout(i)[FwClsid] # NoEntry
        /\ Fw_UnLoadModule(ModidOf[m_modules[i].module])
        /\ m_modules' = [m_modules EXCEPT ![i] = Released(@)]
        /\ inUse' = StillCounted(inUse \cup {FwModule})
     \/ /\ ~m_modules[i].owned
        /\ m_modules' = [m_modules EXCEPT ![i] = Released(@)]
        /\ UNCHANGED <<fwVars, inUse>>

-----------------------------------------------------------------------------
(* Start of the program.                                                   *)

StaticConstructor(m) ==
  /\ m \in Linked \ constructed
  /\ constructed' = constructed \cup {m}
  /\ \/ Fw_RegisteModule(m)
     \/ TableFull(m) /\ UNCHANGED fwVars
  /\ UNCHANGED <<m_modules, m_clsmap, inUse, loop, ret>>

\* CPluginManager::LoadPluginManager with the loader in the table: the
\* loader puts itself first in the list (Cx_PluginLoaderOut::Init), already
\* initialised and without registering its classes.
LoadPluginManager ==
  /\ constructed = Linked
  /\ m_modules = <<>>
  /\ Fw_GetModulePtr(ModidOf[LoaderModule]) = LoaderModule
  /\ m_modules' = <<[modid |-> ModidOf[LoaderModule], module |-> LoaderModule,
                     clsids |-> {}, owned |-> FALSE, inited |-> TRUE]>>
  /\ ret' = "OK"
  /\ UNCHANGED <<fwVars, constructed, m_clsmap, inUse, loop>>

Ready == m_modules # <<>> /\ loop = Idle

\* Fw_Init's RegisteFwModule and RegisterFrameWork.
RegisterFrameWork ==
  /\ Ready
  /\ FwModule \notin constructed
  /\ \/ /\ Fw_RegisteModule(FwModule)
        /\ RegisterPlugin(FwModule)
        /\ constructed' = constructed \cup {FwModule}
        /\ ret' = "OK"
     \/ /\ TableFull(FwModule)
        /\ ret' = "ERROR"
        /\ UNCHANGED <<fwVars, m_modules, m_clsmap, constructed>>
  /\ UNCHANGED <<inUse, loop>>

-----------------------------------------------------------------------------
(* Operations of Ix_PluginLoader.                                          *)

LoadPluginFile(f) ==
  /\ Ready
  /\ \/ /\ FwIntfReachable
        /\ Fw_LoadModule(f)
        /\ inUse' = StillCounted(inUse \cup {FwModule})
        /\ ret' = "OK"
     \/ /\ FwIntfReachable
        /\ Fw_LoadModuleFails(f)
        /\ inUse' = inUse \cup {FwModule}
        /\ ret' = "ERROR"
     \/ /\ ~FwIntfReachable
        /\ ret' = "ERROR"
        /\ UNCHANGED <<fwVars, inUse>>
  /\ UNCHANGED <<constructed, m_modules, m_clsmap, loop>>

\* The test for an already loaded plugin also asks for an empty module id,
\* which no entry has: it never holds.
LoadPlugin(d) ==
  LET m == Fw_GetModulePtr(d)
  IN /\ Ready
     /\ \/ /\ ~FwIntfReachable
           /\ ret' = "ERROR"
           /\ UNCHANGED <<fwVars, m_modules, m_clsmap, inUse>>
        \/ /\ FwIntfReachable
           /\ m = NoModule
           /\ ret' = "ERROR"
           /\ inUse' = inUse \cup {FwModule}
           /\ UNCHANGED <<fwVars, m_modules, m_clsmap>>
        \/ /\ FwIntfReachable
           /\ m \in Rejected
           /\ IF m \in File THEN Fw_UnLoadModule(ModidOf[m]) ELSE UNCHANGED fwVars
           /\ ret' = "ERROR"
           /\ inUse' = StillCounted(inUse \cup {FwModule})
           /\ UNCHANGED <<m_modules, m_clsmap>>
        \/ /\ FwIntfReachable
           /\ m \in Module \ Rejected
           /\ RegisterPlugin(m)
           /\ ret' = "OK"
           /\ inUse' = inUse \cup {FwModule}
           /\ UNCHANGED fwVars
     /\ UNCHANGED <<constructed, loop>>

InitializePlugins ==
  /\ Ready
  /\ loop' = [op |-> "init", at |-> 1]
  /\ UNCHANGED <<fwVars, constructed, m_modules, m_clsmap, inUse, ret>>

\* A slip: a loop that meets an error starts over.
FaultStartOver(res) ==
  /\ loop' = IF res = "ERROR" THEN [loop EXCEPT !.at = 1] ELSE Idle
  /\ ret' = res

\* A slip: a loop that meets an error reports success.
FaultReportOk(res) == loop' = Idle /\ ret' = "OK"

\* The loop returns.
EndLoop(res) == loop' = Idle /\ ret' = res

\* One round of the loop of InitializePlugins.  A NULL module fails the
\* assertion, whose return value 0 is LWDP_OK.
InitializeStep ==
  /\ loop.op = "init"
  /\ \/ /\ loop.at > Len(m_modules)
        /\ EndLoop("OK")
        /\ UNCHANGED m_modules
     \/ /\ loop.at <= Len(m_modules)
        /\ m_modules[loop.at].inited
        /\ loop' = [loop EXCEPT !.at = @ + 1]
        /\ UNCHANGED <<m_modules, ret>>
     \/ /\ loop.at <= Len(m_modules)
        /\ ~m_modules[loop.at].inited
        /\ m_modules[loop.at].module = NoModule
        /\ EndLoop("OK")
        /\ UNCHANGED m_modules
     \/ /\ loop.at <= Len(m_modules)
        /\ ~m_modules[loop.at].inited
        /\ m_modules[loop.at].module # NoModule
        /\ Callable(m_modules[loop.at].module)
        /\ \/ /\ m_modules' = [m_modules EXCEPT ![loop.at].inited = TRUE]
              /\ loop' = [loop EXCEPT !.at = @ + 1]
              /\ UNCHANGED ret
           \/ EndLoop("ERROR") /\ UNCHANGED m_modules
  /\ UNCHANGED <<fwVars, constructed, m_clsmap, inUse>>

\* UnloadPlugin on entry i once the entry is found.  The result of
\* ReleaseModule is not looked at.
UnloadEntry(i, force) ==
  \/ /\ m_modules[i].module = NoModule
     /\ ret' = "ERROR"
     /\ UNCHANGED <<fwVars, m_modules, m_clsmap, inUse>>
  \/ /\ m_modules[i].module # NoModule
     /\ Callable(m_modules[i].module)
     /\ ~force /\ m_modules[i].module \in inUse
     /\ ret' = "ERROR"
     /\ UNCHANGED <<fwVars, m_modules, m_clsmap, inUse>>
  \/ /\ m_modules[i].module # NoModule
     /\ Callable(m_modules[i].module)
     /\ force \/ m_modules[i].module \notin inUse
     /\ ReleaseModule(i)
     /\ ret' = "OK"

UnloadPlugin(d, force) ==
  /\ Ready
  /\ \/ /\ FindModule(d) = 0
        /\ ret' = "ERROR"
        /\ UNCHANGED <<fwVars, m_modules, m_clsmap, inUse>>
     \/ /\ FindModule(d) # 0
        /\ UnloadEntry(FindModule(d), force)
  /\ UNCHANGED <<constructed, loop>>

\* UnloadPluginAll walks the list from its first entry.
UnloadPluginAll(force) ==
  /\ Ready
  /\ loop' = [op |-> "unload", at |-> 1, force |-> force, res |-> "OK"]
  /\ UNCHANGED <<fwVars, constructed, m_modules, m_clsmap, inUse, ret>>

\* One round of the loop of UnloadPluginAll.
UnloadStep ==
  /\ loop.op = "unload"
  /\ \/ /\ loop.at > Len(m_modules)
        /\ EndLoop(loop.res)
        /\ UNCHANGED <<fwVars, m_modules, m_clsmap, inUse>>
     \/ /\ loop.at <= Len(m_modules)
        /\ m_modules[loop.at].module = NoModule
        /\ EndLoop("ERROR")
        /\ UNCHANGED <<fwVars, m_modules, m_clsmap, inUse>>
     \/ /\ loop.at <= Len(m_modules)
        /\ m_modules[loop.at].module # NoModule
        /\ UnloadEntry(loop.at, loop.force)
        /\ loop' = [loop EXCEPT !.at = @ + 1,
                                !.res = IF ret' = "OK" THEN @ ELSE ret']
  /\ UNCHANGED constructed

-----------------------------------------------------------------------------
(* Operations of Ix_ObjectFactory, which plugins may also call while they  *)
(* are being initialised.                                                  *)

\* Cx_ObjectFactory::CreateObject for a client that keeps the object: the
\* class counts a use by another module (the counting itself is modelled in
\* ObjectLife; here it may or may not leave the module in use).
CreateObject(c, d) ==
  /\ m_clsmap[c] # NoEntry
  /\ ReferenceCheck(m_clsmap[c].module, d)
  /\ Callable(m_clsmap[c].module)
  /\ inUse' = inUse \cup {m_clsmap[c].module}
  /\ UNCHANGED <<fwVars, constructed, m_modules, m_clsmap, loop, ret>>

\* The last user of module m's objects releases them.
ReleaseObject(m) ==
  /\ m \in inUse \ {FwModule}
  /\ inUse' = inUse \ {m}
  /\ UNCHANGED <<fwVars, constructed, m_modules, m_clsmap, loop, ret>>

-----------------------------------------------------------------------------
LoopStep == InitializeStep \/ UnloadStep

Next ==
  \/ \E m \in Linked : StaticConstructor(m)
  \/ LoadPluginManager
  \/ RegisterFrameWork
  \/ \E f \in File : LoadPluginFile(f)
  \/ \E d \in Modid : LoadPlugin(d)
  \/ InitializePlugins
  \/ InitializeStep
  \/ \E d \in Modid, force \in BOOLEAN : UnloadPlugin(d, force)
  \/ \E force \in BOOLEAN : UnloadPluginAll(force)
  \/ UnloadStep
  \/ \E c \in Clsid, d \in Modid \cup {NoModule} : CreateObject(c, d)
  \/ \E m \in Module : ReleaseObject(m)

Spec == Init /\ [][Next]_vars

\* The thread that entered a loop keeps running it.
FairSpec == Spec /\ WF_vars(LoopStep)

-----------------------------------------------------------------------------
(* Properties.                                                             *)

\* Another module object carries the same id: loading one replaces the other
\* in the table, behind the plugin list's back.
SharedId(m) == \E n \in Module \ {m} : ModidOf[n] = ModidOf[m]

\* Every creator m_clsmap hands out belongs to the live plugin at the index
\* stored with it, and that plugin lists the class: the two structures that
\* RegisterClass fills and ReleaseModule empties cannot drift so far apart
\* that a class is served by a released plugin.
ClsmapOwned ==
  \A c \in Clsid : m_clsmap[c] # NoEntry =>
    LET i == m_clsmap[c].index
    IN /\ i \in DOMAIN m_modules
       /\ m_modules[i].module = m_clsmap[c].module
       /\ c \in m_modules[i].clsids

\* The plugin list never refers to a module in a library that is not in
\* memory, after any sequence of loads, reloads, failed checks, unloads and
\* half-done unloads, as long as no other file carries the same id.
NoDangling ==
  \A i \in DOMAIN m_modules :
    LET m == m_modules[i].module
    IN m \in File /\ ~SharedId(m) => mapped[m] > 0

\* A plugin still in the list carries the id of its entry, passed CheckPlugin,
\* and, if its library's id is not shared, is in the global table: what the
\* loader and the framework know of a plugin agrees.
ListSound ==
  \A i \in DOMAIN m_modules :
    LET m == m_modules[i].module
    IN m # NoModule =>
         /\ m_modules[i].modid = ModidOf[m]
         /\ m \notin Rejected
         /\ m \in File /\ ~SharedId(m) => \E s \in Slot : gModuleTable[s] = m

\* A plugin id has one entry, released or not, so that FindModule and
\* GetPluginIndex mean the same plugin and none is initialised twice.
OneEntry ==
  \A i, j \in DOMAIN m_modules :
    m_modules[i].modid = m_modules[j].modid => i = j

\* No step hands a class from one creator to another: the first plugin that
\* registered it keeps it until it is unloaded (RegisterClass).
RegistrantStays ==
  [][\A c \in Clsid :
       m_clsmap[c] # NoEntry /\ m_clsmap'[c] # NoEntry => m_clsmap'[c] = m_clsmap[c]]_vars

\* InitializePlugins reports success only when every plugin up to the first
\* released one is initialised: a plugin that fails is not passed over.  (The
\* plugins after a released one are, and the report is the same.)
Reached(i) ==
  \A j \in 1 .. i : m_modules[j].inited \/ m_modules[j].module # NoModule
InitReaches ==
  [][loop.op = "init" /\ loop'.op = "idle" /\ ret' = "OK"
       => \A i \in DOMAIN m_modules : Reached(i) => m_modules[i].inited]_vars

\* InitializePlugins and UnloadPluginAll come to an end, whatever the plugins
\* do meanwhile, unless they run into an unmapped library.
LoopEnds ==
  loop.op # "idle" ~>
    \/ loop.op = "idle"
    \/ \E m \in {m_modules[i].module : i \in DOMAIN m_modules} :
         m # NoModule /\ ~Callable(m)

=============================================================================
