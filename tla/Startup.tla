------------------------------ MODULE Startup -------------------------------
(***************************************************************************)
(* How the framework comes up and goes down (Fw_Init from line 78 on,      *)
(* Fw_Start and Fw_Stop in FrameworkEntry.cpp) over the configuration      *)
(* manager and the script engine: the sources are added, the plugins of    *)
(* the module table are loaded from the directories their properties name, *)
(* and the scripts GlobalInit and GlobalUnInit are looked up and run.      *)
(* Every step that fails ends the call it is part of.                      *)
(*                                                                         *)
(* Loading and initialising plugins is PluginLoader's; here it succeeds or *)
(* fails.                                                                  *)
(***************************************************************************)
EXTENDS ConfigMgr, ScriptEngine

CONSTANT ConfigSrc  \* the sources given to Fw_Init, in their order

ASSUME StartupAssumption ==
  /\ ConfigSrc \in Seq(SrcNames)
  /\ {"ModuleLoadTable", "GlobalInit", "GlobalUnInit"} \subseteq Items
  /\ Items \cap Modules = {}
  /\ \A c \in Contents, n \in SrcNames :
       \/ c[n].item["ModuleLoadTable"] = Absent
       \/ c[n].item["ModuleLoadTable"] \in Seq(Modules)

VARIABLES
  phase,   \* what the framework is doing
  k,       \* the source or table row it is at
  table    \* moduleTable

vars == <<configVars, engineVars, phase, k, table>>

Init ==
  /\ ConfigInit /\ EngineInit
  /\ phase = "sources" /\ k = 1 /\ table = <<>>

Done(newPhase) == phase' = newPhase /\ lookup' = NoLookup

-----------------------------------------------------------------------------
(* Fw_Init.                                                                *)

AddSource ==
  /\ phase = "sources" /\ k <= Len(ConfigSrc)
  /\ IF Addable(ConfigSrc[k])
       THEN AddConfigSrc(ConfigSrc[k]) /\ k' = k + 1 /\ UNCHANGED phase
       ELSE phase' = "failed" /\ UNCHANGED <<mConfigDataList, k>>
  /\ UNCHANGED <<content, lookup, engineVars, table>>

AskTable ==
  /\ phase = "sources" /\ k > Len(ConfigSrc)
  /\ GetModuleItem("ModuleLoadTable") /\ phase' = "table"
  /\ UNCHANGED <<content, mConfigDataList, engineVars, k, table>>

TakeTable ==
  /\ phase = "table" /\ lookup.at = "done"
  /\ IF lookup.stat = "OK"
       THEN table' = lookup.result /\ k' = 1 /\ Done("load")
       ELSE Done("failed") /\ UNCHANGED <<table, k>>
  /\ UNCHANGED <<content, mConfigDataList, engineVars>>

AskDirectory ==
  /\ phase = "load" /\ k <= Len(table)
  /\ GetModulePropEntry(table[k])
  /\ UNCHANGED <<content, mConfigDataList, engineVars, phase, k, table>>

\* Whether the look-up failed is not asked; without a directory the plugin may
\* still be one whose file is known.
LoadPlugin ==
  /\ phase = "load" /\ lookup.at = "done"
  /\ \/ k' = k + 1 /\ Done("load")
     \/ Done("failed") /\ UNCHANGED k
  /\ UNCHANGED <<content, mConfigDataList, engineVars, table>>

\* InitializePlugins, for the user's modules.
Loaded ==
  /\ phase = "load" /\ k > Len(table)
  /\ phase' \in {"ready", "failed"}
  /\ UNCHANGED <<configVars, engineVars, k, table>>

-----------------------------------------------------------------------------
(* Fw_Start and Fw_Stop, and what plugins may do in between.               *)

Script == [ready |-> "GlobalInit", started |-> "GlobalUnInit"]

AskScript ==
  /\ phase \in DOMAIN Script
  /\ GetModuleItem(Script[phase])
  /\ phase' = IF phase = "ready" THEN "start" ELSE "stop"
  /\ UNCHANGED <<content, mConfigDataList, engineVars, k, table>>

RunFound ==
  /\ phase \in {"start", "stop"} /\ lookup.at = "done"
  /\ IF lookup.stat = "OK"
       THEN /\ SyncScriptRun(lookup.result)
            /\ Done(IF phase = "start" THEN "starting" ELSE "stopping")
       ELSE /\ Done(IF phase = "start" THEN "ready" ELSE "started")
            /\ UNCHANGED engineVars
  /\ UNCHANGED <<content, mConfigDataList, k, table>>

RunOn ==
  /\ phase \in {"starting", "stopping"} /\ RunScript
  /\ UNCHANGED <<configVars, phase, k, table>>

Ran ==
  /\ phase \in {"starting", "stopping"} /\ frames = <<>>
  /\ phase' = IF phase = "starting" THEN "started" ELSE "stopped"
  /\ UNCHANGED <<configVars, engineVars, k, table>>

ChangeSources ==
  /\ phase \in {"ready", "started"}
  /\ \E name \in SrcNames : AddConfigSrc(name) \/ DelConfigSrc(name)
  /\ UNCHANGED <<content, lookup, engineVars, phase, k, table>>

Look ==
  /\ Search
  /\ UNCHANGED <<content, mConfigDataList, engineVars, phase, k, table>>

Next ==
  \/ AddSource \/ AskTable \/ TakeTable \/ AskDirectory \/ LoadPlugin \/ Loaded
  \/ AskScript \/ RunFound \/ RunOn \/ Ran \/ ChangeSources \/ Look

Spec == Init /\ [][Next]_vars

\* A call that was made goes on: nothing in it waits for anybody.
Fairness == WF_vars(RunOn) /\ WF_vars(Ran)
FairSpec == Spec /\ Fairness

-----------------------------------------------------------------------------
\* A script whose loops count down ends, whatever leaves or repeats a round and
\* whatever its actions report, unless an if that does not hold meets a text:
\* AWhile looks at its condition again after each round, and a condition that is
\* no longer a number of rounds ends it.
ScriptsEnd ==
  (phase \in {"starting", "stopping"}) ~> (frames = <<>> \/ stat = "fault")

=============================================================================
