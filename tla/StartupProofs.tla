--------------------------- MODULE StartupProofs ----------------------------
(***************************************************************************)
(* LookupSound holds for every set of names, items, modules and contents,  *)
(* whatever scripts do.  A look-up keeps what it knows of the sources it   *)
(* has passed (Knows); that the sources do not change under it follows     *)
(* from the order in which the framework comes up (Apart).                 *)
(*                                                                         *)
(* The script engine implements ScriptControl, for every script.  The      *)
(* refinement needs what a level below the innermost is at (Nested): the   *)
(* if or while tag that opened the one above.  For scripts without jumps   *)
(* no level is ever told of one (AllCalm), so that every failure ends the  *)
(* whole script (FailuresEnd).                                             *)
(***************************************************************************)
EXTENDS Startup, TLAPS

\* The fields of a look-up.
Fields ==
  lookup = [at |-> lookup.at, key |-> lookup.key, pos |-> lookup.pos,
            stat |-> lookup.stat, result |-> lookup.result]

\* A source without the item was passed by every search for it; a source with
\* the property has put its values into the result.
Passed(i) == Document(i).item[lookup.key] = Absent
Held(i) == /\ Document(i).prop[lookup.key] # Absent
           /\ Range(Document(i).prop[lookup.key]) \subseteq Range(lookup.result)

Knows ==
  /\ lookup.at = "back" =>
       /\ lookup.key \in Items /\ lookup.stat # "OK"
       /\ lookup.pos \in 0 .. Len(mConfigDataList)
       /\ \A i \in lookup.pos + 1 .. Len(mConfigDataList) : Passed(i)
  /\ lookup.at = "forward" =>
       /\ lookup.key \in Modules /\ lookup.stat = "OK"
       /\ lookup.pos \in 1 .. Len(mConfigDataList) + 1
       /\ lookup.result \in Seq(STRING)
       /\ \A i \in 1 .. lookup.pos - 1 : Held(i)

\* Sources are added and deleted only while nothing is looked for.
Apart ==
  /\ lookup.at \in {"idle", "back", "forward", "done"}
  /\ phase \in {"sources", "ready", "started", "starting", "stopping"} =>
       lookup.at = "idle"
  /\ phase = "load" /\ lookup.at # "idle" => k <= Len(table)
  /\ phase = "table" => lookup.key = "ModuleLoadTable"
  /\ phase \in {"start", "stop"} => lookup.key \in {"GlobalInit", "GlobalUnInit"}

Shapes ==
  /\ content \in Contents
  /\ mConfigDataList \in Seq(SrcNames)
  /\ table \in Seq(Modules)
  /\ k \in Nat \ {0}

IInv == Shapes /\ Fields /\ Knows /\ Apart /\ LookupSound

-----------------------------------------------------------------------------
\* What is put behind a sequence loses none of its elements and adds its own.
LEMMA RangeConcat ==
  ASSUME NEW s \in Seq(STRING), NEW t \in Seq(STRING)
  PROVE  /\ s \o t \in Seq(STRING)
         /\ Range(s) \subseteq Range(s \o t)
         /\ Range(t) \subseteq Range(s \o t)
<1>1. s \o t \in Seq(STRING) /\ Len(s \o t) = Len(s) + Len(t)
  OBVIOUS
<1>2. ASSUME NEW v \in Range(s) PROVE v \in Range(s \o t)
  <2>1. PICK i \in 1 .. Len(s) : v = s[i]
    BY <1>2 DEF Range
  <2>2. (s \o t)[i] = s[i] /\ i \in DOMAIN (s \o t)
    BY <1>1
  <2>. QED  BY <2>1, <2>2 DEF Range
<1>3. ASSUME NEW v \in Range(t) PROVE v \in Range(s \o t)
  <2>1. PICK i \in 1 .. Len(t) : v = t[i]
    BY <1>3 DEF Range
  <2>2. (s \o t)[Len(s) + i] = t[i] /\ Len(s) + i \in DOMAIN (s \o t)
    BY <1>1
  <2>. QED  BY <2>1, <2>2 DEF Range
<1>. QED  BY <1>1, <1>2, <1>3

\* A source's values are absent or strings.
LEMMA PropType ==
  ASSUME Shapes, NEW i \in DOMAIN mConfigDataList, lookup.key \in Modules,
         Document(i).prop[lookup.key] # Absent
  PROVE  Document(i).prop[lookup.key] \in Seq(STRING)
<1>1. mConfigDataList[i] \in SrcNames
  BY DEF Shapes
<1>. QED  BY <1>1, ConfigMgrAssumption DEF Shapes, Document

\* Modules and items are different things.
LEMMA KeyKind == ASSUME lookup.key \in Modules PROVE lookup.key \notin Items
  BY StartupAssumption

-----------------------------------------------------------------------------
LEMMA InitInv == Init => IInv
<1>. SUFFICES ASSUME Init PROVE IInv
  OBVIOUS
<1>1. lookup.at = "idle" /\ Fields
  BY DEF Init, ConfigInit, NoLookup, Fields
<1>2. Shapes
  BY DEF Init, ConfigInit, Shapes
<1>3. Knows /\ LookupSound
  BY <1>1 DEF Knows, LookupSound
<1>4. Apart
  BY <1>1 DEF Init, Apart
<1>. QED  BY <1>1, <1>2, <1>3, <1>4 DEF IInv

\* A step of a look-up.
LEMMA LookInv == ASSUME IInv, Look PROVE IInv'
<1>. DEFINE N == Len(mConfigDataList)
<1>1. /\ content' = content /\ mConfigDataList' = mConfigDataList
      /\ phase' = phase /\ k' = k /\ table' = table
  BY DEF Look
<1>2. Shapes /\ Shapes'
  BY <1>1 DEF IInv, Shapes
<1>3. \A i : Document(i)' = Document(i)
  BY <1>1 DEF Document
<1>4. N \in Nat /\ DOMAIN mConfigDataList = 1 .. N
  BY <1>2 DEF Shapes
<1>5. SUFFICES Fields' /\ Knows' /\ LookupSound' /\ lookup'.key = lookup.key
               /\ lookup.at \in {"back", "forward"}
               /\ lookup'.at \in {"back", "forward", "done"}
  BY <1>1, <1>2, <1>5 DEF IInv, Apart
<1>6. CASE SearchBack
  <2>1. /\ lookup.at = "back" /\ lookup.pos > 0 /\ lookup.key \in Items
        /\ lookup.stat # "OK" /\ lookup.pos \in 1 .. N
        /\ \A i \in lookup.pos + 1 .. N : Passed(i)
    BY <1>6, <1>4 DEF SearchBack, IInv, Knows
  <2>2. CASE Passed(lookup.pos)
    <3>1. lookup' = [at |-> "back", key |-> lookup.key, pos |-> lookup.pos - 1,
                     stat |-> "ELEMENT_FIND_ERROR", result |-> lookup.result]
      BY <1>6, <2>1, <2>2 DEF SearchBack, Passed, IInv, Fields
    <3>2. \A i \in lookup.pos .. N : Document(i)'.item[lookup'.key] = Absent
      BY <2>1, <2>2, <3>1, <1>3, <1>4 DEF Passed
    <3>. QED  BY <2>1, <3>1, <3>2, <1>1, <1>4 DEF Fields, Knows, LookupSound, Passed
  <2>3. CASE ~Passed(lookup.pos)
    <3>1. lookup' = [at |-> "done", key |-> lookup.key, pos |-> lookup.pos,
                     stat |-> "OK", result |-> Document(lookup.pos).item[lookup.key]]
      BY <1>6, <2>1, <2>3 DEF SearchBack, Passed, IInv, Fields
    <3>2. \A j \in 1 .. N : Document(j).item[lookup.key] # Absent => j <= lookup.pos
      BY <2>1, <1>4 DEF Passed
    <3>3. LookupSound'
      BY <2>1, <2>3, <3>1, <3>2, <1>1, <1>3, <1>4 DEF LookupSound, Passed
    <3>. QED  BY <2>1, <3>1, <3>3 DEF Fields, Knows
  <2>. QED  BY <2>2, <2>3
<1>7. CASE SearchForward
  <2>1. /\ lookup.at = "forward" /\ lookup.pos \in 1 .. N /\ lookup.key \in Modules
        /\ lookup.stat = "OK" /\ lookup.result \in Seq(STRING)
        /\ \A i \in 1 .. lookup.pos - 1 : Held(i)
    BY <1>7, <1>4 DEF SearchForward, IInv, Knows
  <2> DEFINE values == Document(lookup.pos).prop[lookup.key]
  <2>2. CASE values = Absent
    <3>1. lookup' = [at |-> "done", key |-> lookup.key, pos |-> lookup.pos,
                     stat |-> "ELEMENT_FIND_ERROR", result |-> lookup.result]
      BY <1>7, <2>1, <2>2 DEF SearchForward, IInv, Fields
    <3>. QED  BY <2>1, <3>1, KeyKind DEF Fields, Knows, LookupSound
  <2>3. CASE values # Absent
    <3>1. lookup' = [at |-> "forward", key |-> lookup.key, pos |-> lookup.pos + 1,
                     stat |-> "OK", result |-> lookup.result \o values]
      BY <1>7, <2>1, <2>3 DEF SearchForward, IInv, Fields
    <3>2. values \in Seq(STRING)
      BY <2>1, <2>3, <1>2, <1>4, PropType
    <3>3. /\ lookup.result \o values \in Seq(STRING)
          /\ Range(lookup.result) \subseteq Range(lookup.result \o values)
          /\ Range(values) \subseteq Range(lookup.result \o values)
      BY <2>1, <3>2, RangeConcat
    <3>4. \A i \in 1 .. lookup.pos :
            /\ Document(i).prop[lookup.key] # Absent
            /\ Range(Document(i).prop[lookup.key]) \subseteq Range(lookup.result \o values)
      <4> SUFFICES ASSUME NEW i \in 1 .. lookup.pos
                   PROVE  /\ Document(i).prop[lookup.key] # Absent
                          /\ Range(Document(i).prop[lookup.key])
                               \subseteq Range(lookup.result \o values)
        OBVIOUS
      <4>1. CASE i = lookup.pos
        BY <4>1, <2>3, <3>3
      <4>2. CASE i # lookup.pos
        <5>1. i \in 1 .. lookup.pos - 1
          BY <4>2, <2>1, <1>4
        <5>. QED  BY <5>1, <2>1, <3>3 DEF Held
      <4>. QED  BY <4>1, <4>2
    <3>5. \A i \in 1 .. lookup'.pos - 1 : Held(i)'
      BY <3>1, <3>4, <1>3, <2>1, <1>4 DEF Held
    <3>6. lookup'.pos \in 1 .. Len(mConfigDataList') + 1
      BY <3>1, <2>1, <1>1, <1>4
    <3>7. lookup'.key \in Modules /\ lookup'.stat = "OK" /\ lookup'.at = "forward"
          /\ lookup'.result \in Seq(STRING)
      BY <2>1, <3>1, <3>3
    <3>8. Knows'
      BY <3>5, <3>6, <3>7 DEF Knows
    <3>. QED  BY <2>1, <3>1, <3>8 DEF Fields, LookupSound
  <2>. QED  BY <2>2, <2>3
<1>8. CASE SearchEnds
  <2>1. lookup' = [at |-> "done", key |-> lookup.key, pos |-> lookup.pos,
                   stat |-> lookup.stat, result |-> lookup.result]
    BY <1>8 DEF SearchEnds, IInv, Fields
  <2>2. CASE lookup.at = "back"
    <3>1. /\ lookup.key \in Items /\ lookup.stat # "OK"
          /\ \A i \in 1 .. N : Passed(i)
      BY <1>8, <2>2, <1>4 DEF SearchEnds, IInv, Knows
    <3>2. \A i \in 1 .. N : Document(i)'.item[lookup'.key] = Absent
      BY <3>1, <2>1, <1>3 DEF Passed
    <3>3. LookupSound'
      BY <3>1, <3>2, <2>1, <1>1, <1>4 DEF LookupSound
    <3>. QED  BY <2>1, <2>2, <3>3 DEF Fields, Knows
  <2>3. CASE lookup.at = "forward"
    <3>1. /\ lookup.key \in Modules
          /\ \A i \in 1 .. N : Held(i)
      BY <1>8, <2>3, <1>4 DEF SearchEnds, IInv, Knows
    <3>2. \A i \in 1 .. N : Document(i)'.prop[lookup'.key] # Absent
            /\ Range(Document(i)'.prop[lookup'.key]) \subseteq Range(lookup'.result)
      BY <3>1, <2>1, <1>3 DEF Held
    <3>3. LookupSound'
      BY <3>1, <3>2, <2>1, <1>1, <1>4, KeyKind DEF LookupSound
    <3>. QED  BY <2>1, <2>3, <3>3 DEF Fields, Knows
  <2>. QED  BY <1>8, <2>2, <2>3 DEF SearchEnds
<1>. QED  BY <1>6, <1>7, <1>8 DEF Look, Search

\* A look-up begins or ends, or there is none before and after.
LEMMA OutsideKeeps ==
  ASSUME IInv, content' = content, Fields', mConfigDataList' \in Seq(SrcNames),
         \/ lookup'.at = "idle"
         \/ /\ \E item \in Items : GetModuleItem(item)
            /\ mConfigDataList' = mConfigDataList
         \/ /\ \E module \in Modules : GetModulePropEntry(module)
            /\ mConfigDataList' = mConfigDataList
  PROVE  Knows' /\ LookupSound'
<1>1. CASE lookup'.at = "idle"
  BY <1>1 DEF Knows, LookupSound
<1>2. Len(mConfigDataList) \in Nat
  BY DEF IInv, Shapes
<1>3. ASSUME NEW item \in Items, GetModuleItem(item), mConfigDataList' = mConfigDataList
      PROVE  Knows' /\ LookupSound'
  BY <1>3, <1>2 DEF GetModuleItem, Knows, LookupSound
<1>4. ASSUME NEW module \in Modules, GetModulePropEntry(module),
             mConfigDataList' = mConfigDataList
      PROVE  Knows' /\ LookupSound'
  BY <1>4, <1>2 DEF GetModulePropEntry, Knows, LookupSound
<1>. QED  BY <1>1, <1>3, <1>4

\* The table of modules that a look-up found.
LEMMA FoundTable ==
  ASSUME IInv, phase = "table", lookup.at = "done", lookup.stat = "OK"
  PROVE  lookup.result \in Seq(Modules)
<1>1. lookup.key = "ModuleLoadTable" /\ lookup.key \in Items
  BY StartupAssumption DEF IInv, Apart
<1>2. PICK i \in DOMAIN mConfigDataList :
        /\ Document(i).item["ModuleLoadTable"] # Absent
        /\ lookup.result = Document(i).item["ModuleLoadTable"]
  BY <1>1 DEF IInv, LookupSound
<1>3. mConfigDataList[i] \in SrcNames
  BY DEF IInv, Shapes
<1>. QED  BY <1>2, <1>3, StartupAssumption DEF IInv, Shapes, Document

LEMMA StepInv == IInv /\ [Next]_vars => IInv'
<1>. SUFFICES ASSUME IInv, [Next]_vars PROVE IInv'
  OBVIOUS
<1>0. /\ Shapes /\ Fields /\ Apart /\ Knows /\ LookupSound
      /\ Len(table) \in Nat
  BY DEF IInv, Shapes
<1>1. CASE AddSource
  <2>1. lookup.at = "idle" /\ lookup' = lookup /\ content' = content
        /\ phase = "sources" /\ table' = table
    BY <1>0, <1>1 DEF AddSource, Apart
  <2>2. Shapes'
    <3>1. ConfigSrc[k] \in SrcNames
      BY <1>0, <1>1, StartupAssumption DEF AddSource, Shapes
    <3>2. CASE Addable(ConfigSrc[k])
      BY <1>0, <1>1, <2>1, <3>1, <3>2 DEF AddSource, AddConfigSrc, Shapes
    <3>3. CASE ~Addable(ConfigSrc[k])
      BY <1>0, <1>1, <2>1, <3>3 DEF AddSource, Shapes
    <3>. QED  BY <3>2, <3>3
  <2>3. Fields'
    BY <1>0, <2>1 DEF Fields
  <2>4. Knows' /\ LookupSound'
    BY <2>1, <2>2, <2>3, OutsideKeeps DEF Shapes
  <2>5. phase' \in {"sources", "failed"}
    BY <1>1, <2>1 DEF AddSource
  <2>6. Apart'
    BY <2>1, <2>5 DEF Apart
  <2>. QED  BY <2>2, <2>3, <2>4, <2>6 DEF IInv
<1>2. CASE AskTable
  <2>1. GetModuleItem("ModuleLoadTable") /\ phase' = "table" /\ content' = content
        /\ mConfigDataList' = mConfigDataList /\ table' = table /\ k' = k
    BY <1>2 DEF AskTable
  <2>2. lookup'.at = "back" /\ lookup'.key = "ModuleLoadTable" /\ Fields'
    BY <2>1 DEF GetModuleItem, Fields
  <2>3. Shapes' /\ Apart'
    BY <1>0, <2>1, <2>2 DEF Shapes, Apart
  <2>4. Knows' /\ LookupSound'
    BY <2>1, <2>2, <2>3, OutsideKeeps, StartupAssumption DEF Shapes
  <2>. QED  BY <2>2, <2>3, <2>4 DEF IInv
<1>3. CASE TakeTable
  <2>1. lookup' = NoLookup /\ phase' \in {"load", "failed"} /\ content' = content
        /\ mConfigDataList' = mConfigDataList
    BY <1>3 DEF TakeTable, Done
  <2>2. lookup'.at = "idle" /\ Fields'
    BY <2>1 DEF NoLookup, Fields
  <2>3. table' \in Seq(Modules) /\ k' \in Nat \ {0}
    BY <1>0, <1>3, FoundTable DEF TakeTable, Done, Shapes
  <2>4. Shapes' /\ Apart'
    BY <1>0, <2>1, <2>2, <2>3 DEF Shapes, Apart
  <2>5. Knows' /\ LookupSound'
    BY <2>1, <2>2, <2>4, OutsideKeeps DEF Shapes
  <2>. QED  BY <2>2, <2>4, <2>5 DEF IInv
<1>4. CASE AskDirectory
  <2>1. /\ phase = "load" /\ k <= Len(table) /\ GetModulePropEntry(table[k])
        /\ content' = content /\ mConfigDataList' = mConfigDataList
        /\ phase' = phase /\ k' = k /\ table' = table
    BY <1>4 DEF AskDirectory
  <2>2. table[k] \in Modules
    BY <1>0, <2>1 DEF Shapes
  <2>3. lookup'.at = "forward" /\ Fields'
    BY <2>1 DEF GetModulePropEntry, Fields
  <2>4. Shapes' /\ Apart'
    BY <1>0, <2>1, <2>3 DEF Shapes, Apart
  <2>5. Knows' /\ LookupSound'
    BY <2>1, <2>2, <2>3, <2>4, OutsideKeeps DEF Shapes
  <2>. QED  BY <2>3, <2>4, <2>5 DEF IInv
<1>5. CASE LoadPlugin
  <2>1. /\ lookup' = NoLookup /\ phase' \in {"load", "failed"} /\ k' \in {k, k + 1}
        /\ content' = content /\ mConfigDataList' = mConfigDataList /\ table' = table
    BY <1>5 DEF LoadPlugin, Done
  <2>2. lookup'.at = "idle" /\ Fields'
    BY <2>1 DEF NoLookup, Fields
  <2>3. Shapes' /\ Apart'
    BY <1>0, <2>1, <2>2 DEF Shapes, Apart
  <2>4. Knows' /\ LookupSound'
    BY <2>1, <2>2, <2>3, OutsideKeeps DEF Shapes
  <2>. QED  BY <2>2, <2>3, <2>4 DEF IInv
<1>6. CASE AskScript
  <2>1. /\ \E item \in Items : GetModuleItem(item)
        /\ GetModuleItem("GlobalInit") \/ GetModuleItem("GlobalUnInit")
        /\ phase' \in {"start", "stop"}
        /\ content' = content /\ mConfigDataList' = mConfigDataList
        /\ table' = table /\ k' = k
    <3>1. phase \in {"ready", "started"} /\ GetModuleItem(Script[phase])
      BY <1>6 DEF AskScript, Script
    <3>2. Script[phase] \in Items
      BY <3>1, StartupAssumption DEF Script
    <3>. QED  BY <1>6, <3>1, <3>2 DEF AskScript, Script
  <2>2. lookup'.at = "back" /\ Fields' /\ lookup'.key \in {"GlobalInit", "GlobalUnInit"}
    BY <2>1 DEF GetModuleItem, Fields
  <2>3. Shapes' /\ Apart'
    BY <1>0, <2>1, <2>2 DEF Shapes, Apart
  <2>4. Knows' /\ LookupSound'
    BY <2>1, <2>2, <2>3, OutsideKeeps DEF Shapes
  <2>. QED  BY <2>2, <2>3, <2>4 DEF IInv
<1>7. CASE RunFound
  <2>1. /\ lookup' = NoLookup /\ content' = content /\ mConfigDataList' = mConfigDataList
        /\ table' = table /\ k' = k
        /\ phase' \notin {"load", "table", "start", "stop"}
    BY <1>7 DEF RunFound, Done
  <2>2. lookup'.at = "idle" /\ Fields'
    BY <2>1 DEF NoLookup, Fields
  <2>3. Shapes' /\ Apart'
    BY <1>0, <2>1, <2>2 DEF Shapes, Apart
  <2>4. Knows' /\ LookupSound'
    BY <2>1, <2>2, <2>3, OutsideKeeps DEF Shapes
  <2>. QED  BY <2>2, <2>3, <2>4 DEF IInv
<1>8. CASE ChangeSources
  <2>1. /\ lookup.at = "idle" /\ lookup' = lookup /\ content' = content
        /\ phase' = phase /\ k' = k /\ table' = table
    BY <1>0, <1>8 DEF ChangeSources, Apart
  <2>2. mConfigDataList' \in Seq(SrcNames)
    <3>1. PICK name \in SrcNames : AddConfigSrc(name) \/ DelConfigSrc(name)
      BY <1>8 DEF ChangeSources
    <3>2. CASE AddConfigSrc(name)
      BY <1>0, <3>2 DEF AddConfigSrc, Shapes
    <3>3. CASE DelConfigSrc(name)
      <4>1. mConfigDataList \in Seq(SrcNames)
        BY <1>0 DEF Shapes
      <4>2. ASSUME NEW i \in DOMAIN mConfigDataList
            PROVE  RemoveAt(mConfigDataList, i) \in Seq(SrcNames)
        BY <4>1, <4>2 DEF RemoveAt
      <4>. QED  BY <4>1, <4>2, <3>3 DEF DelConfigSrc
    <3>. QED  BY <3>1, <3>2, <3>3
  <2>3. Shapes' /\ Fields' /\ Apart'
    BY <1>0, <2>1, <2>2 DEF Shapes, Fields, Apart
  <2>4. Knows' /\ LookupSound'
    BY <2>1, <2>2, <2>3, OutsideKeeps
  <2>. QED  BY <2>3, <2>4 DEF IInv
<1>9. CASE Look
  BY <1>9, LookInv
<1>10. CASE Loaded \/ RunOn \/ Ran \/ UNCHANGED vars
  <2>1. /\ lookup' = lookup /\ content' = content /\ mConfigDataList' = mConfigDataList
        /\ table' = table /\ k' = k
        /\ \/ phase' = phase
           \/ phase = "load" /\ k > Len(table) /\ phase' \in {"ready", "failed"}
           \/ phase \in {"starting", "stopping"} /\ phase' \in {"started", "stopped"}
    BY <1>10 DEF Loaded, RunOn, Ran, vars, configVars
  <2>2. Shapes' /\ Fields' /\ Knows' /\ LookupSound'
    BY <1>0, <2>1 DEF Shapes, Fields, Knows, LookupSound, Passed, Held, Document
  <2>3. Apart'
    BY <1>0, <2>1 DEF Apart, Shapes
  <2>. QED  BY <2>2, <2>3 DEF IInv
<1>. QED
  BY <1>1, <1>2, <1>3, <1>4, <1>5, <1>6, <1>7, <1>8, <1>9, <1>10 DEF Next

-----------------------------------------------------------------------------
\* A look-up that reports success has what it promises: the newest source's item,
\* or the values of every source (LookupSound).
THEOREM StartupLookupSound == Spec => []LookupSound
<1>1. IInv => LookupSound
  BY DEF IInv
<1>. QED  BY <1>1, InitInv, StepInv, PTL DEF Spec

-----------------------------------------------------------------------------
(***************************************************************************)
(* The script engine.  A level that has another above it runs the tag that *)
(* opened it, and so does the innermost one when it hears that the level   *)
(* above failed, or is about to test a loop's condition.                   *)
(***************************************************************************)
RetStrs == {"", "figure", BreakRet, ContinueRet}
FrameOf(C) == [code : C, iter : Nat, retStr : RetStrs, testing : BOOLEAN]

Holds(f) ==
  /\ f.iter <= Len(f.code)
  /\ \/ f.code[f.iter].name = "while" /\ f.testing = TRUE
     \/ f.code[f.iter].name = "if" /\ f.testing = FALSE

Nested ==
  /\ stat \in {"run", "fault"} => frames # <<>>
  /\ stat = Ok => frames = <<>>
  /\ \A i \in 1 .. Len(frames) - 1 : Holds(frames[i])
  /\ frames # <<>> /\ (stat # "run" \/ Top.testing) => Holds(Top)

EngineInv == (\E C : frames \in Seq(FrameOf(C))) /\ Nested

Stack == Views(frames)

\* The first n levels are the same.
SameUpTo(n, s, t) == \A i \in 1 .. n : t[i] = s[i]

\* All but the last element of a sequence, and one with another last element.
LEMMA FrontOf ==
  ASSUME NEW S, NEW s \in Seq(S), s # <<>>
  PROVE  /\ Front(s) \in Seq(S) /\ Len(Front(s)) = Len(s) - 1
         /\ \A i \in 1 .. Len(s) - 1 : Front(s)[i] = s[i]
         /\ Len(s) \in Nat \ {0} /\ DOMAIN s = 1 .. Len(s)
         /\ DOMAIN Front(s) = 1 .. Len(s) - 1
<1>1. Len(s) \in Nat \ {0} /\ DOMAIN s = 1 .. Len(s)
  OBVIOUS
<1>2. Front(s) = [i \in 1 .. Len(s) - 1 |-> s[i]]
  BY <1>1 DEF Front
<1>3. Front(s) \in Seq(S) /\ Len(Front(s)) = Len(s) - 1
  BY <1>1 DEF Front
<1>. QED  BY <1>1, <1>2, <1>3

LEMMA LastReplaced ==
  ASSUME NEW S, NEW s \in Seq(S), s # <<>>, NEW v \in S
  PROVE  LET t == [s EXCEPT ![Len(s)] = v]
         IN  /\ t \in Seq(S) /\ Len(t) = Len(s) /\ DOMAIN t = 1 .. Len(s)
             /\ t[Len(s)] = v /\ \A i \in 1 .. Len(s) - 1 : t[i] = s[i]
  OBVIOUS

LEMMA SeqOfMore ==
  ASSUME NEW S, NEW T, S \subseteq T, NEW s \in Seq(S)
  PROVE  s \in Seq(T)
<1>1. \A i \in 1 .. Len(s) : s[i] \in T
  OBVIOUS
<1>. QED  BY <1>1

LEMMA FrameOfMore ==
  ASSUME NEW C, NEW D, NEW s \in Seq(FrameOf(C))
  PROVE  s \in Seq(FrameOf(C \cup D))
<1>1. FrameOf(C) \subseteq FrameOf(C \cup D)
  BY DEF FrameOf
<1>. QED  BY <1>1, SeqOfMore

\* The frames of levels as ScriptControl sees them.
LEMMA ViewsOf ==
  ASSUME NEW C, NEW s \in Seq(FrameOf(C))
  PROVE  /\ DOMAIN Views(s) = 1 .. Len(s) /\ Len(Views(s)) = Len(s)
         /\ Views(s) \in Seq({View(s[i]) : i \in 1 .. Len(s)})
         /\ s = <<>> <=> Views(s) = <<>>
         /\ \A i \in 1 .. Len(s) : Views(s)[i] = View(s[i])
<1>1. DOMAIN s = 1 .. Len(s) /\ Len(s) \in Nat
  OBVIOUS
<1>2. Views(s) \in Seq({View(s[i]) : i \in 1 .. Len(s)})
  BY <1>1 DEF Views
<1>. QED  BY <1>1, <1>2 DEF Views

LEMMA FrontViews ==
  ASSUME NEW C, NEW s \in Seq(FrameOf(C)), s # <<>>
  PROVE  Views(Front(s)) = Front(Views(s))
<1>1. /\ Views(s) # <<>> /\ Len(Views(s)) = Len(s)
      /\ Views(s) \in Seq({View(s[i]) : i \in 1 .. Len(s)})
      /\ \A i \in 1 .. Len(s) : Views(s)[i] = View(s[i])
      /\ DOMAIN Views(s) = 1 .. Len(s)
  <2>1. s = <<>> <=> Views(s) = <<>>
    BY ViewsOf
  <2>2. /\ DOMAIN Views(s) = 1 .. Len(s) /\ Len(Views(s)) = Len(s)
        /\ Views(s) \in Seq({View(s[i]) : i \in 1 .. Len(s)})
        /\ \A i \in 1 .. Len(s) : Views(s)[i] = View(s[i])
    BY ViewsOf
  <2>. QED  BY <2>1, <2>2
<1>2. /\ DOMAIN Front(Views(s)) = 1 .. Len(s) - 1
      /\ \A i \in 1 .. Len(s) - 1 : Front(Views(s))[i] = View(s[i])
  BY <1>1, FrontOf
<1>3. /\ DOMAIN Front(s) = 1 .. Len(s) - 1
      /\ \A i \in 1 .. Len(s) - 1 : Front(s)[i] = s[i]
  BY FrontOf
<1>4. Front(Views(s)) = [i \in 1 .. Len(s) - 1 |-> View(s[i])]
  BY <1>1, <1>2 DEF Front
<1>. QED  BY <1>3, <1>4 DEF Views

\* A level goes on with its next tag.
LEMMA DoneViews ==
  ASSUME NEW C, NEW s \in Seq(FrameOf(C)), s # <<>>, NEW retStr \in RetStrs,
         NEW t, t = DoneWith(s, retStr)
  PROVE  /\ t \in Seq(FrameOf(C)) /\ Len(t) = Len(s) /\ t # <<>>
         /\ SameUpTo(Len(s) - 1, s, t)
         /\ t[Len(s)] = [code |-> s[Len(s)].code, iter |-> s[Len(s)].iter + 1,
                         retStr |-> retStr, testing |-> FALSE]
         /\ Views(t) = Control!Advanced(Views(s), Told(retStr))
<1>. DEFINE f == s[Len(s)]
            g == [code |-> f.code, iter |-> f.iter + 1, retStr |-> retStr,
                  testing |-> FALSE]
            u == [s EXCEPT ![Len(s)] = g]
<1>1. f \in FrameOf(C) /\ Len(s) \in Nat \ {0} /\ DOMAIN s = 1 .. Len(s)
  OBVIOUS
<1>2. g \in FrameOf(C)
  BY <1>1 DEF FrameOf
<1>3. DoneWith(s, retStr) = u
  BY DEF DoneWith
<1>4. /\ u \in Seq(FrameOf(C)) /\ Len(u) = Len(s) /\ DOMAIN u = 1 .. Len(s)
      /\ u[Len(s)] = g /\ \A i \in 1 .. Len(s) - 1 : u[i] = s[i]
  <2> HIDE DEF g
  <2>. QED  BY <1>2, LastReplaced
<1>5. u # <<>>
  BY <1>1, <1>4
<1>6. Views(u) = [Views(s) EXCEPT ![Len(s)] = View(g)]
  BY <1>1, <1>4 DEF Views
<1>7. /\ Views(s)[Len(s)] = View(f) /\ Len(Views(s)) = Len(s)
      /\ DOMAIN Views(s) = 1 .. Len(s)
  <2>1. /\ DOMAIN Views(s) = 1 .. Len(s) /\ Len(Views(s)) = Len(s)
        /\ \A i \in 1 .. Len(s) : Views(s)[i] = View(s[i])
    BY ViewsOf
  <2>. QED  BY <1>1, <2>1
<1>8. Control!Advanced(Views(s), Told(retStr)) = [Views(s) EXCEPT ![Len(s)] = View(g)]
  <2> DEFINE v == Views(s)
  <2> HIDE DEF v
  <2>1. v[Len(v)] = View(f) /\ Len(v) = Len(s)
    BY <1>7 DEF v
  <2>2. View(g) = [code |-> v[Len(v)].code, pos |-> v[Len(v)].pos + 1,
                   testing |-> FALSE, heard |-> Told(retStr)]
    BY <2>1 DEF View
  <2>. QED  BY <2>1, <2>2 DEF Control!Advanced, v
<1>. QED  BY <1>3, <1>4, <1>5, <1>6, <1>8 DEF SameUpTo

\* A level is told a string by the one above it.
TellLast(s, retStr) == [s EXCEPT ![Len(s)].retStr = retStr]
TestLast(s) == [s EXCEPT ![Len(s)].testing = TRUE]

LEMMA ToldViews ==
  ASSUME NEW C, NEW s \in Seq(FrameOf(C)), s # <<>>, NEW retStr \in RetStrs,
         NEW t, t = TellLast(s, retStr)
  PROVE  /\ t \in Seq(FrameOf(C)) /\ Len(t) = Len(s) /\ t # <<>>
         /\ SameUpTo(Len(s) - 1, s, t)
         /\ t[Len(s)].code = s[Len(s)].code /\ t[Len(s)].iter = s[Len(s)].iter
         /\ t[Len(s)].retStr = retStr
         /\ Holds(s[Len(s)]) <=> Holds(t[Len(s)])
         /\ Views(t) = Control!Hears(Views(s), Told(retStr))
<1>. DEFINE f == s[Len(s)]
            g == [code |-> f.code, iter |-> f.iter, retStr |-> retStr,
                  testing |-> f.testing]
            u == [s EXCEPT ![Len(s)] = g]
<1>1. f \in FrameOf(C) /\ Len(s) \in Nat \ {0} /\ DOMAIN s = 1 .. Len(s)
  OBVIOUS
<1>2. g \in FrameOf(C)
  BY <1>1 DEF FrameOf
<1>3. TellLast(s, retStr) = u
  <2>1. f = [code |-> f.code, iter |-> f.iter, retStr |-> f.retStr,
             testing |-> f.testing]
    BY <1>1 DEF FrameOf
  <2>2. [f EXCEPT !.retStr = retStr] = g
    BY <2>1
  <2>. QED  BY <2>2 DEF TellLast
<1>4. /\ u \in Seq(FrameOf(C)) /\ Len(u) = Len(s) /\ DOMAIN u = 1 .. Len(s)
      /\ u[Len(s)] = g /\ \A i \in 1 .. Len(s) - 1 : u[i] = s[i]
  <2> HIDE DEF g
  <2>. QED  BY <1>2, LastReplaced
<1>5. u # <<>>
  BY <1>1, <1>4
<1>6. Holds(f) <=> Holds(g)
  BY DEF Holds
<1>7. Views(u) = [Views(s) EXCEPT ![Len(s)] = View(g)]
  BY <1>1, <1>4 DEF Views
<1>8. /\ Views(s)[Len(s)] = View(f) /\ Len(Views(s)) = Len(s)
      /\ DOMAIN Views(s) = 1 .. Len(s)
  <2>1. /\ DOMAIN Views(s) = 1 .. Len(s) /\ Len(Views(s)) = Len(s)
        /\ \A i \in 1 .. Len(s) : Views(s)[i] = View(s[i])
    BY ViewsOf
  <2>. QED  BY <1>1, <2>1
<1>9. Control!Hears(Views(s), Told(retStr)) = [Views(s) EXCEPT ![Len(s)] = View(g)]
  <2> DEFINE v == Views(s)
             w == Told(retStr)
  <2>1. View(g) = [code |-> f.code, pos |-> f.iter, testing |-> f.testing, heard |-> w]
    BY DEF View
  <2>2. View(f) = [code |-> f.code, pos |-> f.iter, testing |-> f.testing,
                   heard |-> Told(f.retStr)]
    BY DEF View
  <2> HIDE DEF v, w
  <2>3. [View(f) EXCEPT !.heard = w] = View(g)
    BY <2>1, <2>2
  <2>4. [v[Len(v)] EXCEPT !.heard = w] = View(g) /\ Len(v) = Len(s)
    BY <2>3, <1>8 DEF v
  <2>. QED  BY <2>4 DEF Control!Hears, v, w
<1>. QED  BY <1>3, <1>4, <1>5, <1>6, <1>7, <1>9 DEF SameUpTo

\* What a tag that opens a level was told is forgotten.
LEMMA ClearViews ==
  ASSUME NEW C, NEW s \in Seq(FrameOf(C)), s # <<>>,
         NEW t, t = Clear(s)
  PROVE  /\ t \in Seq(FrameOf(C)) /\ Len(t) = Len(s) /\ t # <<>>
         /\ SameUpTo(Len(s) - 1, s, t)
         /\ t[Len(s)].code = s[Len(s)].code /\ t[Len(s)].iter = s[Len(s)].iter
         /\ Holds(s[Len(s)]) <=> Holds(t[Len(s)])
         /\ Views(t) = Control!Hears(Views(s), "nothing")
<1>1. PICK r \in RetStrs : r = ""
  BY DEF RetStrs
<1>2. t = TellLast(s, r) /\ Told(r) = "nothing"
  BY <1>1 DEF Clear, TellLast, Told, BreakRet, ContinueRet
<1>3. /\ t \in Seq(FrameOf(C)) /\ Len(t) = Len(s) /\ t # <<>>
      /\ SameUpTo(Len(s) - 1, s, t)
      /\ t[Len(s)].code = s[Len(s)].code /\ t[Len(s)].iter = s[Len(s)].iter
      /\ t[Len(s)].retStr = r
      /\ Holds(s[Len(s)]) <=> Holds(t[Len(s)])
      /\ Views(t) = Control!Hears(Views(s), Told(r))
  BY <1>2, ToldViews
<1>. QED  BY <1>2, <1>3

\* A loop is about to look at its condition.
LEMMA TestingViews ==
  ASSUME NEW C, NEW s \in Seq(FrameOf(C)), s # <<>>,
         NEW t, t = TestLast(s)
  PROVE  /\ t \in Seq(FrameOf(C)) /\ Len(t) = Len(s) /\ t # <<>>
         /\ SameUpTo(Len(s) - 1, s, t)
         /\ t[Len(s)] = [code |-> s[Len(s)].code, iter |-> s[Len(s)].iter,
                         retStr |-> s[Len(s)].retStr, testing |-> TRUE]
         /\ Views(t) = [Views(s) EXCEPT ![Len(s)].testing = TRUE]
<1>. DEFINE f == s[Len(s)]
            g == [code |-> f.code, iter |-> f.iter, retStr |-> f.retStr,
                  testing |-> TRUE]
            u == [s EXCEPT ![Len(s)] = g]
<1>1. f \in FrameOf(C) /\ Len(s) \in Nat \ {0} /\ DOMAIN s = 1 .. Len(s)
  OBVIOUS
<1>2. g \in FrameOf(C)
  BY <1>1 DEF FrameOf
<1>3. TestLast(s) = u
  <2>1. f = [code |-> f.code, iter |-> f.iter, retStr |-> f.retStr,
             testing |-> f.testing]
    BY <1>1 DEF FrameOf
  <2>2. ASSUME NEW e, e = [code |-> e.code, iter |-> e.iter, retStr |-> e.retStr,
                           testing |-> e.testing],
               NEW h, h = [e EXCEPT !.testing = TRUE]
        PROVE  h = [code |-> e.code, iter |-> e.iter, retStr |-> e.retStr,
                    testing |-> TRUE]
    BY <2>2
  <2>3. [f EXCEPT !.testing = TRUE] = g
    BY <2>1, <2>2
  <2>. QED  BY <2>3 DEF TestLast
<1>4. /\ u \in Seq(FrameOf(C)) /\ Len(u) = Len(s) /\ DOMAIN u = 1 .. Len(s)
      /\ u[Len(s)] = g /\ \A i \in 1 .. Len(s) - 1 : u[i] = s[i]
  <2> HIDE DEF g
  <2>. QED  BY <1>2, LastReplaced
<1>5. u # <<>>
  BY <1>1, <1>4
<1>6. Views(u) = [Views(s) EXCEPT ![Len(s)] = View(g)]
  BY <1>1, <1>4 DEF Views
<1>7. Views(s)[Len(s)] = View(f)
  <2>1. \A i \in 1 .. Len(s) : Views(s)[i] = View(s[i])
    BY ViewsOf
  <2>. QED  BY <1>1, <2>1
<1>8. [Views(s) EXCEPT ![Len(s)].testing = TRUE] = [Views(s) EXCEPT ![Len(s)] = View(g)]
  <2> DEFINE v == Views(s)
             w == Told(f.retStr)
  <2>1. View(g) = [code |-> f.code, pos |-> f.iter, testing |-> TRUE, heard |-> w]
    BY DEF View
  <2>2. View(f) = [code |-> f.code, pos |-> f.iter, testing |-> f.testing, heard |-> w]
    BY DEF View
  <2> HIDE DEF v, w
  <2>5. ASSUME NEW e, e = [code |-> e.code, pos |-> e.pos, testing |-> e.testing,
                           heard |-> e.heard],
               NEW h, h = [e EXCEPT !.testing = TRUE]
        PROVE  h = [code |-> e.code, pos |-> e.pos, testing |-> TRUE,
                    heard |-> e.heard]
    BY <2>5
  <2>3. [View(f) EXCEPT !.testing = TRUE] = View(g)
    BY <2>1, <2>2, <2>5
  <2>4. [v[Len(s)] EXCEPT !.testing = TRUE] = View(g)
    BY <2>3, <1>7 DEF v
  <2>. QED  BY <2>4 DEF v
<1>. QED  BY <1>3, <1>4, <1>5, <1>6, <1>8 DEF SameUpTo

\* A level is entered.
LEMMA EnterViews ==
  ASSUME NEW C, NEW s \in Seq(FrameOf(C)), NEW code,
         NEW t, t = Enter(s, code)
  PROVE  /\ t \in Seq(FrameOf(C \cup {code})) /\ Len(t) = Len(s) + 1 /\ t # <<>>
         /\ SameUpTo(Len(s), s, t)
         /\ t[Len(t)] = Level(code)
         /\ Views(t) = Append(Views(s), Control!Frame(code))
<1>. DEFINE D == C \cup {code}
            f == Level(code)
            u == Enter(s, code)
<1>1. s \in Seq(FrameOf(D)) /\ f \in FrameOf(D)
  <2>1. code \in D /\ "" \in RetStrs
    BY DEF RetStrs
  <2>2. f \in FrameOf(D)
    BY <2>1 DEF Level, FrameOf
  <2>. QED  BY <2>2, FrameOfMore
<1>2. ASSUME NEW F, s \in Seq(F), f \in F
      PROVE  /\ u \in Seq(F) /\ Len(u) = Len(s) + 1 /\ u # <<>>
             /\ DOMAIN u = 1 .. Len(s) + 1 /\ Len(s) \in Nat
             /\ \A i \in 1 .. Len(s) : u[i] = s[i]
             /\ u[Len(s) + 1] = f
  <2> HIDE DEF f
  <2>. QED  BY <1>2 DEF Enter, f
<1>3. /\ u \in Seq(FrameOf(D)) /\ Len(u) = Len(s) + 1 /\ u # <<>>
      /\ DOMAIN u = 1 .. Len(s) + 1 /\ Len(s) \in Nat
      /\ \A i \in 1 .. Len(s) : u[i] = s[i]
      /\ u[Len(s) + 1] = f
  <2> HIDE DEF f, D, u
  <2>. QED  BY <1>1, <1>2
<1>4. View(f) = Control!Frame(code)
  BY DEF View, Level, Control!Frame, Told, BreakRet, ContinueRet
<1>5. Views(u) = Append(Views(s), View(f))
  <2>1. /\ Len(Views(s)) = Len(s) /\ DOMAIN Views(s) = 1 .. Len(s)
        /\ Views(s) \in Seq({View(s[i]) : i \in 1 .. Len(s)})
        /\ \A i \in 1 .. Len(s) : Views(s)[i] = View(s[i])
    BY ViewsOf
  <2> DEFINE v == Views(s)
             a == Append(v, View(f))
  <2> HIDE DEF v, f, u
  <2>2. ASSUME NEW F, NEW q \in Seq(F), NEW e
        PROVE  Append(q, e) = [i \in 1 .. Len(q) + 1 |-> IF i = Len(q) + 1 THEN e ELSE q[i]]
    <3> DEFINE w == Append(q, e)
               F2 == F \cup {e}
    <3>1. q \in Seq(F2)
      BY SeqOfMore
    <3>2. /\ w \in Seq(F2) /\ DOMAIN w = 1 .. Len(q) + 1 /\ Len(q) \in Nat
          /\ \A i \in 1 .. Len(q) + 1 : w[i] = IF i = Len(q) + 1 THEN e ELSE q[i]
      <4> HIDE DEF F2
      <4>1. e \in F2
        BY DEF F2
      <4>. QED  BY <3>1, <4>1
    <3> HIDE DEF w
    <3>3. w = [i \in DOMAIN w |-> w[i]]
      BY <3>2
    <3>. QED  BY <3>2, <3>3 DEF w
  <2>4. a = [i \in 1 .. Len(s) + 1 |-> IF i = Len(s) + 1 THEN View(f) ELSE v[i]]
    BY <2>1, <2>2 DEF v
  <2>3. Views(u) = [i \in 1 .. Len(s) + 1 |-> View(u[i])]
    BY <1>3 DEF Views
  <2>. QED  BY <2>1, <2>3, <2>4, <1>3 DEF v
<1>. QED  BY <1>3, <1>4, <1>5 DEF SameUpTo

-----------------------------------------------------------------------------
(* What the engine's steps do to its levels, and what is seen of that.     *)

\* The innermost level and the tag it is at.
LEMMA TopIs ==
  ASSUME EngineInv, frames # <<>>
  PROVE  /\ Len(frames) \in Nat \ {0} /\ Top = frames[Len(frames)]
         /\ Top.retStr \in RetStrs /\ Top.testing \in BOOLEAN
         /\ Stack # <<>> /\ Len(Stack) = Len(frames)
         /\ Control!Last(Stack) = View(Top)
         /\ Control!TagOf(Stack) = Tag
         /\ Control!InTag(Stack) <=> Top.iter <= Len(Top.code)
         /\ Control!Last(Stack).testing = Top.testing
         /\ Control!Last(Stack).heard = Told(Top.retStr)
         /\ Control!Kept = IF Top.testing THEN Told(Top.retStr) ELSE "nothing"
<1>1. PICK C : frames \in Seq(FrameOf(C))
  BY DEF EngineInv
<1>2. /\ Len(frames) \in Nat \ {0} /\ frames[Len(frames)] \in FrameOf(C)
      /\ Top = frames[Len(frames)]
  BY <1>1 DEF Top, Last
<1>3. Top.retStr \in RetStrs /\ Top.testing \in BOOLEAN
  BY <1>2 DEF FrameOf
<1>4. Stack # <<>> /\ Len(Stack) = Len(frames) /\ Stack[Len(frames)] = View(Top)
  <2>1. frames = <<>> <=> Views(frames) = <<>>
    BY <1>1, ViewsOf
  <2>2. /\ Len(Views(frames)) = Len(frames)
        /\ \A i \in 1 .. Len(frames) : Views(frames)[i] = View(frames[i])
    BY <1>1, ViewsOf
  <2>. QED  BY <2>1, <2>2, <1>2 DEF Stack
<1>5. Control!Last(Stack) = View(Top)
  BY <1>4 DEF Control!Last
<1>6. /\ View(Top).code = Top.code /\ View(Top).pos = Top.iter
      /\ View(Top).testing = Top.testing /\ View(Top).heard = Told(Top.retStr)
  BY DEF View
<1>7. Control!Kept = IF Top.testing THEN Told(Top.retStr) ELSE "nothing"
  BY <1>5, <1>6 DEF Control!Kept, Stack
<1>. QED
  BY <1>2, <1>3, <1>4, <1>5, <1>6, <1>7 DEF Control!TagOf, Control!InTag, Tag

\* The innermost level goes on with its next tag.
LEMMA KeepDone ==
  ASSUME EngineInv, frames # <<>>, NEW retStr \in RetStrs,
         frames' = DoneWith(frames, retStr), stat' = "run"
  PROVE  /\ EngineInv' /\ Stack' = Control!Advanced(Stack, Told(retStr))
         /\ Signal' = "run"
<1>1. PICK C : frames \in Seq(FrameOf(C))
  BY DEF EngineInv
<1>2. /\ frames' \in Seq(FrameOf(C)) /\ Len(frames') = Len(frames) /\ frames' # <<>>
      /\ \A i \in 1 .. Len(frames) - 1 : frames'[i] = frames[i]
      /\ frames'[Len(frames)].testing = FALSE
      /\ Views(frames') = Control!Advanced(Views(frames), Told(retStr))
  <2>1. PICK t : t = frames'
    OBVIOUS
  <2>2. t = DoneWith(frames, retStr)
    BY <2>1
  <2>3. /\ t \in Seq(FrameOf(C)) /\ Len(t) = Len(frames) /\ t # <<>>
        /\ SameUpTo(Len(frames) - 1, frames, t)
        /\ t[Len(frames)] = [code |-> frames[Len(frames)].code,
                             iter |-> frames[Len(frames)].iter + 1,
                             retStr |-> retStr, testing |-> FALSE]
        /\ Views(t) = Control!Advanced(Views(frames), Told(retStr))
    BY <2>2, <1>1, DoneViews
  <2>. QED  BY <2>1, <2>3 DEF SameUpTo
<1>3. Top'.testing = FALSE
  BY <1>2 DEF Top, Last
<1>4. Nested'
  BY <1>2, <1>3 DEF EngineInv, Nested, Ok
<1>. QED  BY <1>2, <1>4 DEF EngineInv, Stack, Signal

\* The innermost level ends; the level below is told retStr.
LEMMA KeepReturn ==
  ASSUME EngineInv, frames # <<>>, NEW error, error \notin {"run", Ok, "fault"},
         NEW retStr \in RetStrs, Return(error, retStr)
  PROVE  EngineInv' /\ Control!Leave(Told(retStr))
<1>1. PICK C : frames \in Seq(FrameOf(C))
  BY DEF EngineInv
<1>. DEFINE s == Front(frames)
<1>2. /\ s \in Seq(FrameOf(C)) /\ Len(s) = Len(frames) - 1
      /\ \A i \in 1 .. Len(frames) - 1 : s[i] = frames[i]
      /\ Len(frames) \in Nat \ {0}
  BY <1>1, FrontOf
<1>3. Views(s) = Control!Front(Stack) /\ Len(Stack) = Len(frames)
  BY <1>1, FrontViews, ViewsOf DEF Stack, Front, Control!Front
<1>4. stat' = error
  BY DEF Return
<1>5. CASE Len(frames) = 1
  <2>1. frames' = <<>> /\ s = <<>>
    BY <1>2, <1>5 DEF Return
  <2>2. EngineInv'
    BY <2>1, <1>4 DEF EngineInv, Nested
  <2>3. Stack' = <<>> /\ Signal' = "failed" /\ Len(Stack) = 1
    BY <2>1, <1>3, <1>4, <1>5 DEF Stack, Views, Signal
  <2>. QED  BY <2>2, <2>3 DEF Control!Leave, Stack
<1>6. CASE Len(frames) # 1
  <2>1. s # <<>> /\ Len(s) = Len(frames) - 1 /\ Len(s) \in Nat \ {0}
    BY <1>2, <1>6
  <2>2. frames' = [s EXCEPT ![Len(s)].retStr = retStr]
    BY <1>2, <1>6 DEF Return
  <2> HIDE DEF s
  <2>3. /\ frames' \in Seq(FrameOf(C)) /\ Len(frames') = Len(s) /\ frames' # <<>>
        /\ \A i \in 1 .. Len(s) - 1 : frames'[i] = s[i]
        /\ frames'[Len(s)].retStr = retStr
        /\ Holds(s[Len(s)]) <=> Holds(frames'[Len(s)])
        /\ Views(frames') = Control!Hears(Views(s), Told(retStr))
    <3>1. PICK t : t = frames'
      OBVIOUS
    <3>2. t = TellLast(s, retStr)
      BY <2>2, <3>1 DEF TellLast
    <3>3. /\ t \in Seq(FrameOf(C)) /\ Len(t) = Len(s) /\ t # <<>>
          /\ SameUpTo(Len(s) - 1, s, t)
          /\ t[Len(s)].retStr = retStr
          /\ Holds(s[Len(s)]) <=> Holds(t[Len(s)])
          /\ Views(t) = Control!Hears(Views(s), Told(retStr))
      BY <3>2, <2>1, <1>2, ToldViews
    <3>. QED  BY <3>1, <3>3 DEF SameUpTo
  <2>4. Top' = frames'[Len(s)]
    BY <2>3 DEF Top, Last
  <2>5. \A i \in 1 .. Len(s) : Holds(s[i])
    BY <1>2, <2>1 DEF EngineInv, Nested
  <2>6. Nested'
    BY <2>1, <2>3, <2>4, <2>5, <1>4 DEF Nested
  <2>7. Stack' = Control!Hears(Control!Front(Stack), Told(retStr))
    BY <2>3, <1>3 DEF Stack, s
  <2>8. Signal' = "left" /\ Len(Stack) # 1
    BY <2>3, <1>3, <1>4, <1>6 DEF Signal
  <2>. QED  BY <2>3, <2>6, <2>7, <2>8 DEF EngineInv, Control!Leave, Stack
<1>. QED  BY <1>5, <1>6

\* The innermost level ends and tells nothing, as if it told the level below what
\* that was told before.
LEMMA KeepUnset ==
  ASSUME EngineInv, frames # <<>>, NEW error, error \notin {"run", Ok, "fault"},
         ReturnUnset(error)
  PROVE  EngineInv' /\ Control!Leave(Control!HeardBelow)
<1>1. PICK C : frames \in Seq(FrameOf(C))
  BY DEF EngineInv
<1>. DEFINE n == Len(frames)
            s == Front(frames)
            below == IF n = 1 THEN "" ELSE frames[n - 1].retStr
<1>2. /\ s \in Seq(FrameOf(C)) /\ Len(s) = n - 1 /\ n \in Nat \ {0}
      /\ \A i \in 1 .. n - 1 : s[i] = frames[i]
  BY <1>1, FrontOf
<1>3. Len(Stack) = n /\ \A i \in 1 .. n : Stack[i] = View(frames[i])
  BY <1>1, ViewsOf DEF Stack
<1>4. CASE n = 1
  <2>1. frames' = <<>> /\ below = "" /\ below \in RetStrs
    BY <1>2, <1>4 DEF ReturnUnset, RetStrs
  <2>2. Return(error, below)
    BY <2>1, <1>4 DEF Return, ReturnUnset
  <2>3. Control!HeardBelow = "nothing" /\ Told(below) = "nothing"
    BY <2>1, <1>3, <1>4 DEF Control!HeardBelow, Stack, Told, BreakRet, ContinueRet
  <2>. QED  BY <2>1, <2>2, <2>3, KeepReturn
<1>5. CASE n # 1
  <2>1. /\ frames[n - 1] \in FrameOf(C) /\ s[n - 1] = frames[n - 1]
        /\ below = s[n - 1].retStr /\ n - 1 \in DOMAIN s
    BY <1>1, <1>2, <1>5
  <2>2. below \in RetStrs
    BY <2>1 DEF FrameOf
  <2>3. [s EXCEPT ![n - 1].retStr = below] = s
    <3>1. s[n - 1] = [code |-> s[n - 1].code, iter |-> s[n - 1].iter,
                      retStr |-> s[n - 1].retStr, testing |-> s[n - 1].testing]
      BY <2>1 DEF FrameOf
    <3>2. [s[n - 1] EXCEPT !.retStr = below] = s[n - 1]
      BY <2>1, <3>1
    <3> HIDE DEF s, n, below
    <3>3. [s EXCEPT ![n - 1] = s[n - 1]] = s
      BY <1>2
    <3>. QED  BY <3>2, <3>3
  <2>4. Return(error, below)
    BY <2>3, <1>5 DEF Return, ReturnUnset
  <2>5. Control!HeardBelow = Told(below)
    <3>1. Control!HeardBelow = Stack[n - 1].heard
      BY <1>3, <1>5 DEF Control!HeardBelow, Stack
    <3>2. n - 1 \in 1 .. n /\ below = frames[n - 1].retStr
      BY <1>2, <1>5
    <3>3. Stack[n - 1] = View(frames[n - 1])
      BY <1>3, <3>2
    <3> HIDE DEF n, below
    <3>4. Stack[n - 1].heard = Told(frames[n - 1].retStr)
      BY <3>3 DEF View
    <3>. QED  BY <3>1, <3>2, <3>4
  <2>. QED  BY <2>2, <2>4, <2>5, KeepReturn
<1>. QED  BY <1>4, <1>5

\* The innermost level opens another, whatever it was told before.
LEMMA KeepEnter ==
  ASSUME EngineInv, frames # <<>>, Holds(Top), NEW code, stat' = "run",
         NEW s, s = frames \/ s = Clear(frames), frames' = Enter(s, code)
  PROVE  /\ EngineInv' /\ Stack' = Append(Views(s), Control!Frame(code))
         /\ Signal' = "run"
<1>1. PICK C : frames \in Seq(FrameOf(C))
  BY DEF EngineInv
<1>2. frames' = Enter(s, code)
  OBVIOUS
<1>3. /\ s \in Seq(FrameOf(C)) /\ Len(s) = Len(frames) /\ s # <<>>
      /\ SameUpTo(Len(frames) - 1, frames, s)
      /\ Holds(frames[Len(frames)]) <=> Holds(s[Len(frames)])
  <2>1. CASE s = frames
    BY <1>1, <2>1 DEF SameUpTo
  <2>2. CASE s = Clear(frames)
    BY <1>1, <2>2, ClearViews
  <2>. QED  BY <2>1, <2>2
<1>4. PICK t : t = frames'
  OBVIOUS
<1>5. /\ t \in Seq(FrameOf(C \cup {code})) /\ Len(t) = Len(s) + 1 /\ t # <<>>
      /\ SameUpTo(Len(s), s, t)
      /\ t[Len(t)] = Level(code)
      /\ Views(t) = Append(Views(s), Control!Frame(code))
  <2>1. t = Enter(s, code) /\ s \in Seq(FrameOf(C))
    BY <1>2, <1>3, <1>4
  <2>. QED  BY <2>1, EnterViews, ZenonT(40)
<1>6. Top' = Level(code)
  BY <1>4, <1>5 DEF Top, Last
<1>7. Len(frames) \in Nat \ {0} /\ Top = frames[Len(frames)]
  BY <1>1 DEF Top, Last
<1>8. \A i \in 1 .. Len(frames) : Holds(t[i])
  <2>1. \A i \in 1 .. Len(frames) - 1 : Holds(t[i])
    BY <1>3, <1>5, <1>7 DEF EngineInv, Nested, SameUpTo
  <2>2. Holds(t[Len(frames)])
    BY <1>3, <1>5, <1>7 DEF SameUpTo
  <2>. QED  BY <2>1, <2>2, <1>7
<1>9. Nested'
  <2>1. /\ frames' # <<>> /\ Len(frames') - 1 = Len(frames)
        /\ \A i \in 1 .. Len(frames) : Holds(frames'[i])
    BY <1>3, <1>4, <1>5, <1>7, <1>8
  <2>2. Top'.testing = FALSE
    BY <1>6 DEF Level
  <2>. QED  BY <2>1, <2>2 DEF Nested, Ok
<1>. QED  BY <1>3, <1>4, <1>5, <1>9 DEF EngineInv, Stack, Signal

\* A loop begins.
LEMMA KeepTesting ==
  ASSUME EngineInv, frames # <<>>, AWhile
  PROVE  EngineInv' /\ Stack' = Control!Testing(Stack) /\ Signal' = "run"
<1>1. PICK C : frames \in Seq(FrameOf(C))
  BY DEF EngineInv
<1>2. /\ stat = "run" /\ stat' = "run" /\ Tag.name = "while"
      /\ Top.iter <= Len(Top.code)
      /\ frames' = [Clear(frames) EXCEPT ![Len(frames)].testing = TRUE]
  BY DEF AWhile, At
<1>3. PICK s : s = Clear(frames)
  OBVIOUS
<1>4. /\ s \in Seq(FrameOf(C)) /\ Len(s) = Len(frames) /\ s # <<>>
      /\ SameUpTo(Len(frames) - 1, frames, s)
      /\ s[Len(frames)].code = frames[Len(frames)].code
      /\ s[Len(frames)].iter = frames[Len(frames)].iter
      /\ Views(s) = Control!Hears(Stack, "nothing")
  BY <1>1, <1>3, ClearViews DEF Stack
<1>5. PICK t : t = frames'
  OBVIOUS
<1>6. /\ t \in Seq(FrameOf(C)) /\ Len(t) = Len(s) /\ t # <<>>
      /\ SameUpTo(Len(s) - 1, s, t)
      /\ t[Len(s)] = [code |-> s[Len(s)].code, iter |-> s[Len(s)].iter,
                      retStr |-> s[Len(s)].retStr, testing |-> TRUE]
      /\ Views(t) = [Views(s) EXCEPT ![Len(s)].testing = TRUE]
  <2>1. t = TestLast(s)
    BY <1>2, <1>3, <1>4, <1>5 DEF TestLast
  <2>. QED  BY <2>1, <1>4, TestingViews
<1>7. Len(frames) \in Nat \ {0} /\ Top = frames[Len(frames)]
  BY <1>1 DEF Top, Last
<1>8. Holds(t[Len(t)])
  <2>1. s[Len(s)].code = Top.code /\ s[Len(s)].iter = Top.iter
    BY <1>4, <1>7
  <2>. QED  BY <2>1, <1>2, <1>4, <1>6 DEF Holds, Tag
<1>9. Top' = t[Len(t)]
  BY <1>5 DEF Top, Last
<1>10. Nested'
  BY <1>2, <1>4, <1>5, <1>6, <1>7, <1>8, <1>9 DEF EngineInv, Nested, Ok, SameUpTo
<1>11. Stack' = Control!Testing(Stack)
  <2>1. Len(Stack) = Len(s)
    BY <1>1, <1>4, ViewsOf DEF Stack
  <2>2. Stack' = Views(t)
    BY <1>5 DEF Stack
  <2>. QED  BY <1>4, <1>6, <2>1, <2>2 DEF Control!Testing
<1>. QED  BY <1>2, <1>5, <1>6, <1>10, <1>11 DEF EngineInv, Signal

\* The innermost level is at its end.
LEMMA KeepFinish ==
  ASSUME EngineInv, frames # <<>>, LevelDone
  PROVE  EngineInv' /\ Control!Finish
<1>1. PICK C : frames \in Seq(FrameOf(C))
  BY DEF EngineInv
<1>. DEFINE s == Front(frames)
            n == Len(frames)
<1>2. /\ s \in Seq(FrameOf(C)) /\ Len(s) = n - 1
      /\ \A i \in 1 .. n - 1 : s[i] = frames[i]
      /\ n \in Nat \ {0}
  BY <1>1, FrontOf
<1>3. Views(s) = Control!Front(Stack) /\ Len(Stack) = n
  BY <1>1, FrontViews, ViewsOf DEF Stack, Front, Control!Front
<1>4. stat = "run" /\ Signal = "run" /\ Stack # <<>>
  BY TopIs DEF LevelDone, Signal
<1>5. CASE n = 1
  <2>1. frames' = <<>> /\ stat' = Ok
    BY <1>5 DEF LevelDone
  <2>2. EngineInv'
    BY <2>1 DEF EngineInv, Nested, Ok
  <2>4. Stack' = <<>> /\ Signal' = "done"
    BY <2>1 DEF Stack, Views, Signal, Ok
  <2>. QED  BY <2>2, <2>4, <1>3, <1>4, <1>5 DEF Control!Finish, Stack
<1>6. CASE n # 1
  <2> DEFINE tag == Last(s).code[Last(s).iter]
             atText == Top.iter <= Len(Top.code) /\ Tag.name = "text"
             retStr == IF atText THEN "" ELSE Top.retStr
  <2>1. /\ stat' = "run"
        /\ frames' = IF tag.name = "if" THEN DoneWith(s, retStr)
                     ELSE [s EXCEPT ![Len(s)].retStr = retStr]
    BY <1>4, <1>6 DEF LevelDone
  <2>2. retStr \in RetStrs
    BY TopIs DEF RetStrs
  <2>9. Told(retStr) \in {"nothing", Control!Last(Stack).heard}
    <3>1. Told("") = "nothing" /\ Control!Last(Stack).heard = Told(Top.retStr)
      BY TopIs DEF Told, BreakRet, ContinueRet
    <3>. QED  BY <3>1
  <2>3. /\ s # <<>> /\ Len(s) \in Nat \ {0} /\ n > 1
        /\ Last(s) = frames[n - 1] /\ Last(s) = s[Len(s)]
    BY <1>2, <1>6 DEF Last
  <2>4. \A i \in 1 .. Len(s) : Holds(s[i])
    BY <1>2 DEF EngineInv, Nested
  <2>5. /\ Views(s) # <<>> /\ Control!TagOf(Views(s)) = tag
    <3>1. s = <<>> <=> Views(s) = <<>>
      BY <1>2, ViewsOf
    <3>2. /\ Len(Views(s)) = Len(s)
          /\ \A i \in 1 .. Len(s) : Views(s)[i] = View(s[i])
      BY <1>2, ViewsOf
    <3>3. Control!Last(Views(s)) = View(Last(s))
      BY <3>2, <2>3 DEF Control!Last
    <3>4. View(Last(s)).code = Last(s).code /\ View(Last(s)).pos = Last(s).iter
      BY DEF View
    <3>. QED  BY <3>1, <3>3, <3>4, <2>3 DEF Control!TagOf
  <2> HIDE DEF s, n, tag, retStr
  <2>6. PICK t : t = frames'
    OBVIOUS
  <2>7. CASE tag.name = "if"
    <3>1. t = DoneWith(s, retStr)
      BY <2>1, <2>6, <2>7
    <3>2. /\ t \in Seq(FrameOf(C)) /\ Len(t) = Len(s) /\ t # <<>>
          /\ SameUpTo(Len(s) - 1, s, t)
          /\ t[Len(s)] = [code |-> s[Len(s)].code, iter |-> s[Len(s)].iter + 1,
                          retStr |-> retStr, testing |-> FALSE]
          /\ Views(t) = Control!Advanced(Views(s), Told(retStr))
      BY <3>1, <2>2, <2>3, <1>2, DoneViews
    <3>3. Top'.testing = FALSE
      BY <3>2, <2>6 DEF Top, Last
    <3>4. Nested'
      <4>1. frames' # <<>> /\ \A i \in 1 .. Len(frames') - 1 : Holds(frames'[i])
        BY <3>2, <2>3, <2>4, <2>6 DEF SameUpTo
      <4>. QED  BY <4>1, <3>3, <2>1 DEF Nested, Ok
    <3>5. EngineInv'
      BY <3>2, <3>4, <2>6 DEF EngineInv
    <3>6. /\ Stack' = Control!Advanced(Control!Front(Stack), Told(retStr))
          /\ Signal' = "run"
      BY <3>2, <2>1, <2>6, <1>3 DEF Stack, Signal
    <3>7. Len(Stack) # 1 /\ Control!TagOf(Control!Front(Stack)).name = "if"
      BY <2>3, <2>5, <2>7, <1>3, <1>6
    <3>. QED  BY <3>5, <3>6, <3>7, <2>9, <1>4 DEF Control!Finish, Stack
  <2>8. CASE tag.name # "if"
    <3>1. t = TellLast(s, retStr)
      BY <2>1, <2>6, <2>8 DEF TellLast
    <3>2. /\ t \in Seq(FrameOf(C)) /\ Len(t) = Len(s) /\ t # <<>>
          /\ SameUpTo(Len(s) - 1, s, t)
          /\ Holds(s[Len(s)]) <=> Holds(t[Len(s)])
          /\ Views(t) = Control!Hears(Views(s), Told(retStr))
      BY <3>1, <2>2, <2>3, <1>2, ToldViews
    <3>3. Holds(Top')
      BY <3>2, <2>3, <2>4, <2>6 DEF Top, Last
    <3>4. Nested'
      <4>1. frames' # <<>> /\ \A i \in 1 .. Len(frames') - 1 : Holds(frames'[i])
        BY <3>2, <2>3, <2>4, <2>6 DEF SameUpTo
      <4>. QED  BY <4>1, <3>3, <2>1 DEF Nested, Ok
    <3>5. EngineInv'
      BY <3>2, <3>4, <2>6 DEF EngineInv
    <3>6. /\ Stack' = Control!Hears(Control!Front(Stack), Told(retStr))
          /\ Signal' = "run"
      BY <3>2, <2>1, <2>6, <1>3 DEF Stack, Signal
    <3>7. Len(Stack) # 1 /\ Control!TagOf(Control!Front(Stack)).name # "if"
      BY <2>3, <2>5, <2>8, <1>3, <1>6
    <3>. QED  BY <3>5, <3>6, <3>7, <2>9, <1>4 DEF Control!Finish, Stack
  <2>. QED  BY <2>7, <2>8
<1>. QED  BY <1>5, <1>6

-----------------------------------------------------------------------------
(***************************************************************************)
(* Each of the engine's steps is one of ScriptControl's.  Two exits leave  *)
(* in place what a level was told: that of a level that fails without a    *)
(* word, which leaves the string of the level below, and that of a loop    *)
(* whose condition cannot be evaluated, which passes on its own.           *)
(***************************************************************************)

\* A tag that is neither break nor continue is done, ...
LEMMA TagDone ==
  ASSUME EngineInv, frames # <<>>, stat = "run", stat' = "run",
         Top.iter <= Len(Top.code), Tag.name \notin {"break", "continue"},
         NEW retStr \in RetStrs, Told(retStr) = Control!Kept,
         frames' = DoneWith(frames, retStr)
  PROVE  EngineInv' /\ Control!ControlNext
<1>1. /\ EngineInv' /\ Stack' = Control!Advanced(Stack, Control!Kept)
      /\ Signal' = "run"
  BY KeepDone
<1>2. Control!InTag(Stack) /\ Control!TagOf(Stack) = Tag /\ Signal = "run"
  BY TopIs DEF Signal
<1>3. Control!PlainTag
  BY <1>1, <1>2 DEF Control!PlainTag, Control!Jump, Stack
<1>. QED  BY <1>1, <1>3 DEF Control!ControlNext

\* ... or fails, which the level below is told, ...
LEMMA TagFails ==
  ASSUME EngineInv, frames # <<>>, stat = "run",
         Top.iter <= Len(Top.code), Tag.name \notin {"break", "continue"},
         NEW error, error \notin {"run", Ok, "fault"},
         NEW retStr \in RetStrs, Told(retStr) = Control!Kept,
         Return(error, retStr)
  PROVE  EngineInv' /\ Control!ControlNext
<1>1. EngineInv' /\ Control!Leave(Control!Kept)
  BY KeepReturn
<1>2. Control!InTag(Stack) /\ Control!TagOf(Stack) = Tag /\ Signal = "run"
  BY TopIs DEF Signal
<1>3. Control!PlainTag
  BY <1>1, <1>2 DEF Control!PlainTag, Control!Jump, Stack
<1>. QED  BY <1>1, <1>3 DEF Control!ControlNext

\* ... or is not told.
LEMMA TagFailsUntold ==
  ASSUME EngineInv, frames # <<>>, stat = "run",
         Top.iter <= Len(Top.code), Tag.name \notin {"break", "continue"},
         NEW error, error \notin {"run", Ok, "fault"}, ReturnUnset(error)
  PROVE  EngineInv' /\ Control!ControlNext
<1>1. EngineInv' /\ Control!Leave(Control!HeardBelow)
  BY KeepUnset
<1>2. Control!InTag(Stack) /\ Control!TagOf(Stack) = Tag /\ Signal = "run"
  BY TopIs DEF Signal
<1>3. Control!PlainTag
  BY <1>1, <1>2 DEF Control!PlainTag, Control!Jump, Stack
<1>. QED  BY <1>1, <1>3 DEF Control!ControlNext

\* What a Ret attribute does with a result.
LEMMA TagStores ==
  ASSUME EngineInv, frames # <<>>, stat = "run",
         Top.iter <= Len(Top.code), Tag.name \notin {"break", "continue"},
         NEW result, NEW retStr \in RetStrs, Told(retStr) = Control!Kept,
         StoreRet(retStr, result)
  PROVE  EngineInv' /\ Control!ControlNext
<1>1. CASE Tag.ret = None \/ Defined(Tag.ret)
  <2>1. frames' = DoneWith(frames, retStr) /\ stat' = "run"
    BY <1>1 DEF StoreRet
  <2>. QED  BY <2>1, TagDone
<1>2. CASE Tag.ret # None /\ ~Defined(Tag.ret)
  <2>1. ReturnUnset("ACTION_IS_NOT_VAR_ERROR")
    BY <1>2 DEF StoreRet
  <2>. QED  BY <2>1, TagFailsUntold DEF Ok
<1>. QED  BY <1>1, <1>2

LEMMA TagOpens ==
  ASSUME EngineInv, frames # <<>>, stat = "run", stat' = "run", Holds(Top), NEW code,
         \/ /\ Tag.name = "if"
            /\ code \in {Tag.sub} \cup Control!Elses(Tag)
            /\ frames' = Enter(Clear(frames), code)
         \/ /\ Tag.name = "while" /\ code = Tag.sub /\ Top.testing
            /\ frames' = Enter(frames, code)
  PROVE  EngineInv' /\ Control!ControlNext
<1>1. /\ Control!InTag(Stack) /\ Control!TagOf(Stack) = Tag /\ Signal = "run"
      /\ Control!Last(Stack).testing = Top.testing
  BY TopIs DEF Signal, Holds
<1>2. CASE Tag.name = "if"
  <2>1. frames' = Enter(Clear(frames), code) /\ code \in {Tag.sub} \cup Control!Elses(Tag)
    BY <1>2
  <2>2. PICK s : s = Clear(frames)
    OBVIOUS
  <2>3. /\ EngineInv' /\ Stack' = Append(Views(s), Control!Frame(code))
        /\ Signal' = "run"
    BY <2>1, <2>2, KeepEnter
  <2>4. Views(s) = Control!Hears(Stack, "nothing")
    BY <2>2, ClearViews DEF EngineInv, Stack
  <2>5. Control!OpenTag
    BY <1>1, <1>2, <2>1, <2>3, <2>4 DEF Control!OpenTag, Stack
  <2>. QED  BY <2>3, <2>5 DEF Control!ControlNext
<1>3. CASE Tag.name = "while"
  <2>1. frames' = Enter(frames, code) /\ code = Tag.sub /\ Top.testing
    BY <1>3
  <2>2. PICK s : s = frames
    OBVIOUS
  <2>3. EngineInv' /\ Stack' = Append(Stack, Control!Frame(code)) /\ Signal' = "run"
    BY <2>1, <2>2, KeepEnter DEF Stack
  <2>4. Control!OpenTag
    BY <1>1, <1>3, <2>1, <2>3 DEF Control!OpenTag, Stack
  <2>. QED  BY <2>3, <2>4 DEF Control!ControlNext
<1>. QED  BY <1>2, <1>3

\* The search for an else meets a text.
LEMMA TagFaults ==
  ASSUME EngineInv, frames # <<>>, stat = "run", ~Top.testing,
         Top.iter <= Len(Top.code), Tag.name = "if", TextFirst(Tag.sub),
         stat' = "fault", frames' = frames
  PROVE  EngineInv' /\ Control!ControlNext
<1>1. Holds(Top)
  BY TopIs DEF Holds, Tag
<1>2. Top' = Top /\ Views(frames)' = Views(frames)
  BY DEF Top
<1>3. EngineInv'
  BY <1>1, <1>2 DEF EngineInv, Nested, Ok
<1>4. Control!InTag(Stack) /\ Control!TagOf(Stack) = Tag /\ Signal = "run"
  BY TopIs DEF Signal
<1>5. \E tag \in Control!ToSet(Tag.sub) : tag.name = "text"
  BY DEF TextFirst, Control!ToSet
<1>6. Signal' = "fault"
  BY DEF Signal
<1>7. Control!Fault
  BY <1>2, <1>4, <1>5, <1>6 DEF Control!Fault, Stack
<1>. QED  BY <1>3, <1>7 DEF Control!ControlNext

\* Each step of a running script is one of ScriptControl's.
LEMMA EngineStep ==
  ASSUME EngineInv, RunScript
  PROVE  EngineInv' /\ Control!ControlNext
<1>0. frames # <<>> /\ Len(frames) \in Nat \ {0}
  BY TopIs DEF RunScript
<1>1. Top.retStr \in RetStrs /\ {"", "figure"} \subseteq RetStrs
  BY <1>0, TopIs DEF RetStrs
<1>2. /\ ~Top.testing => Told("") = Control!Kept /\ Told("figure") = Control!Kept
      /\ Top.testing => Told(Top.retStr) = Control!Kept
  BY <1>0, <1>1, TopIs DEF Told, BreakRet, ContinueRet
<1>3. CASE AVar
  <2>1. stat = "run" /\ Top.iter <= Len(Top.code) /\ Tag.name = "vars"
        /\ ~Top.testing
    BY <1>3 DEF AVar, At
  <2>2. CASE Defined(Tag.var)
    <3>1. Return("VAR_EXIST_ERROR", "")
      BY <1>3, <2>2 DEF AVar
    <3>. QED  BY <1>0, <1>1, <1>2, <2>1, <3>1, TagFails DEF Ok
  <2>3. CASE ~Defined(Tag.var)
    <3>1. frames' = DoneWith(frames, "") /\ stat' = "run"
      BY <1>3, <2>1, <2>3 DEF AVar
    <3>. QED  BY <1>0, <1>1, <1>2, <2>1, <3>1, TagDone
  <2>. QED  BY <2>2, <2>3
<1>4. CASE AComput
  <2>1. /\ stat = "run" /\ Top.iter <= Len(Top.code) /\ Tag.name \in {"inc", "dec"}
        /\ ~Top.testing
    BY <1>4 DEF AComput, At
  <2>2. CASE ~Defined(Tag.var)
    <3>1. Return("ACTION_IS_NOT_VAR_ERROR", "")
      BY <1>4, <2>2 DEF AComput
    <3>. QED  BY <1>0, <1>1, <1>2, <2>1, <3>1, TagFails DEF Ok
  <2>3. CASE Defined(Tag.var) /\ Tag.ret # None
    <3>1. PICK res : StoreRet("figure", res)
      BY <1>4, <2>3 DEF AComput
    <3>. QED  BY <1>0, <1>1, <1>2, <2>1, <3>1, TagStores
  <2>4. CASE Defined(Tag.var) /\ Tag.ret = None
    <3>1. frames' = DoneWith(frames, "") /\ stat' = "run"
      BY <1>4, <2>1, <2>4 DEF AComput
    <3>. QED  BY <1>0, <1>1, <1>2, <2>1, <3>1, TagDone
  <2>. QED  BY <2>2, <2>3, <2>4
<1>5. CASE AElse
  <2>1. /\ stat = "run" /\ Top.iter <= Len(Top.code) /\ Tag.name = "else"
        /\ ~Top.testing
        /\ frames' = DoneWith(frames, "") /\ stat' = "run"
    BY <1>5 DEF AElse, At
  <2>. QED  BY <1>0, <1>1, <1>2, <2>1, TagDone
<1>6. CASE ABreak
  <2>1. stat = "run" /\ Top.iter <= Len(Top.code) /\ Tag.name \in {"break", "continue"}
    BY <1>6 DEF ABreak, At
  <2>2. PICK error \in {"ACTION_BREAK_RET", "ACTION_CONTINUE_RET"} :
          Return(error, Tag.name)
    BY <1>6, <2>1 DEF ABreak, BreakRet, ContinueRet
  <2>3. Tag.name \in RetStrs /\ Told(Tag.name) = Tag.name /\ error \notin {"run", Ok, "fault"}
    BY <2>1, <2>2 DEF RetStrs, Told, BreakRet, ContinueRet, Ok
  <2>4. EngineInv' /\ Control!Leave(Tag.name)
    BY <1>0, <2>2, <2>3, KeepReturn
  <2>5. Control!InTag(Stack) /\ Control!TagOf(Stack) = Tag /\ Signal = "run"
    BY <1>0, <2>1, TopIs DEF Signal
  <2>6. Control!JumpTag
    BY <2>1, <2>4, <2>5 DEF Control!JumpTag, Control!Jump, Stack
  <2>. QED  BY <2>4, <2>6 DEF Control!ControlNext
<1>7. CASE AIfElse
  <2>1. /\ stat = "run" /\ Top.iter <= Len(Top.code) /\ Tag.name = "if"
        /\ ~Top.testing
    BY <1>7 DEF AIfElse, At
  <2>2. Holds(Top)
    BY <2>1, <1>0, TopIs DEF Holds, Tag
  <2>3. CASE Return("EXPR_ERROR", "")
    BY <1>0, <1>1, <1>2, <2>1, <2>3, TagFails DEF Ok
  <2>4. CASE frames' = Enter(Clear(frames), Tag.sub) /\ UNCHANGED stat
    BY <1>0, <2>1, <2>2, <2>4, TagOpens
  <2>5. ASSUME NEW i \in FirstElse(Tag.sub), UNCHANGED stat,
               frames' = Enter(Clear(frames), Tag.sub[i].sub)
        PROVE  EngineInv' /\ Control!ControlNext
    <3>1. i \in DOMAIN Tag.sub /\ Tag.sub[i].name = "else"
      BY <2>5 DEF FirstElse
    <3>2. Tag.sub[i].sub \in Control!Elses(Tag)
      BY <3>1 DEF Control!Elses, Control!ToSet
    <3>. QED  BY <1>0, <2>1, <2>2, <2>5, <3>2, TagOpens
  <2>6. CASE frames' = DoneWith(frames, "") /\ UNCHANGED stat
    BY <1>0, <1>1, <1>2, <2>1, <2>6, TagDone
  <2>7. CASE TextFirst(Tag.sub) /\ stat' = "fault" /\ UNCHANGED frames
    BY <1>0, <2>1, <2>7, TagFaults
  <2>. QED  BY <1>7, <2>3, <2>4, <2>5, <2>6, <2>7 DEF AIfElse
<1>8. CASE AWhile
  <2>1. EngineInv' /\ Stack' = Control!Testing(Stack) /\ Signal' = "run"
    BY <1>0, <1>8, KeepTesting
  <2>2. /\ stat = "run" /\ Top.iter <= Len(Top.code) /\ Tag.name = "while"
        /\ ~Top.testing
    BY <1>8 DEF AWhile, At
  <2>3. /\ Control!InTag(Stack) /\ Control!TagOf(Stack) = Tag /\ Signal = "run"
        /\ ~Control!Last(Stack).testing
    BY <1>0, <2>2, TopIs DEF Signal
  <2>4. Control!OpenTag
    BY <2>1, <2>2, <2>3 DEF Control!OpenTag, Stack
  <2>. QED  BY <2>1, <2>4 DEF Control!ControlNext
<1>9. CASE WhileTest
  <2>1. stat = "run" /\ Top.testing
    BY <1>9 DEF WhileTest
  <2>2. Holds(Top) /\ Top.iter <= Len(Top.code) /\ Tag.name = "while"
    BY <1>0, <2>1 DEF EngineInv, Nested, Holds, Tag
  <2>3. CASE ParseBool(Tag) = "error"
    <3>1. Return("EXPR_ERROR", Top.retStr)
      BY <1>9, <2>3 DEF WhileTest
    <3>. QED  BY <1>0, <1>1, <1>2, <2>1, <2>2, <3>1, TagFails DEF Ok
  <2>4. CASE ParseBool(Tag) = "false"
    <3>1. frames' = DoneWith(frames, Top.retStr) /\ stat' = "run"
      BY <1>9, <2>1, <2>4 DEF WhileTest
    <3>. QED  BY <1>0, <1>1, <1>2, <2>1, <2>2, <3>1, TagDone
  <2>5. CASE ParseBool(Tag) \notin {"error", "false"}
    <3>1. frames' = Enter(frames, Tag.sub) /\ stat' = "run"
      BY <1>9, <2>1, <2>5 DEF WhileTest
    <3>. QED  BY <1>0, <2>1, <2>2, <3>1, TagOpens
  <2>. QED  BY <2>3, <2>4, <2>5
<1>10. CASE CallRefused
  <2>1. /\ stat = "run" /\ Top.iter <= Len(Top.code) /\ ~Top.testing
        /\ Tag.name \notin SystemTags \cup {"text"}
        /\ Tag.name \notin Actions \/ \E v \in Tag.args : ~Defined(v)
        /\ ReturnUnset("FIND_ACTION_ERROR")
    BY <1>10 DEF CallRefused, At
  <2>2. Tag.name \notin {"break", "continue"}
    BY <2>1 DEF SystemTags
  <2>. QED  BY <1>0, <2>1, <2>2, TagFailsUntold DEF Ok
<1>11. CASE Call
  <2>1. /\ stat = "run" /\ Top.iter <= Len(Top.code) /\ ~Top.testing
        /\ Tag.name \in Actions \ (SystemTags \cup {"text"})
    BY <1>11 DEF Call, At
  <2>2. Tag.name \notin {"break", "continue"}
    BY <2>1 DEF SystemTags
  <2>3. ASSUME NEW figure, NEW retStr \in {"", "figure"}, StoreRet(retStr, figure)
        PROVE  EngineInv' /\ Control!ControlNext
    <3>1. retStr \in RetStrs /\ Told(retStr) = Control!Kept
      BY <1>1, <1>2, <2>1, <2>3
    <3>. QED  BY <1>0, <2>1, <2>2, <2>3, <3>1, TagStores
  <2>4. CASE Return("ACTION_ERROR", "")
    BY <1>0, <1>1, <1>2, <2>1, <2>2, <2>4, TagFails DEF Ok
  <2>5. \/ \E figure \in 0 .. 1 : StoreRet(IF Tag.ret = None THEN "" ELSE "figure", figure)
        \/ Return("ACTION_ERROR", "")
    BY <1>11 DEF Call
  <2>. QED  BY <2>3, <2>4, <2>5
<1>12. CASE LevelFailed
  <2>1. stat \notin {"run", Ok, "fault"} /\ Holds(Top)
    BY <1>0, <1>12 DEF LevelFailed, EngineInv, Nested
  <2>2. /\ Control!InTag(Stack) /\ Control!TagOf(Stack) = Tag /\ Stack # <<>>
        /\ Control!Last(Stack).heard = Told(Top.retStr)
        /\ Signal = "left" /\ Tag.name \in {"if", "while"}
    BY <1>0, <2>1, TopIs DEF Signal, Holds, Tag
  <2>3. Told(Top.retStr) \in Control!Jump <=> Top.retStr \in {BreakRet, ContinueRet}
    BY DEF Told, Control!Jump, BreakRet, ContinueRet
  <2>4. CASE Tag.name = "while" /\ Top.retStr = BreakRet
    <3>1. frames' = DoneWith(frames, Top.retStr) /\ stat' = "run"
      BY <1>12, <2>4 DEF LevelFailed, BreakRet, ContinueRet
    <3>2. Told(Top.retStr) = "break"
      BY <2>4 DEF Told, BreakRet
    <3>3. EngineInv' /\ Stack' = Control!Advanced(Stack, "break") /\ Signal' = "run"
      BY <1>0, <1>1, <3>1, <3>2, KeepDone
    <3>4. Control!Hear
      BY <2>2, <2>4, <3>2, <3>3 DEF Control!Hear, Control!Jump, Stack
    <3>. QED  BY <3>3, <3>4 DEF Control!ControlNext
  <2>5. CASE Tag.name = "while" /\ Top.retStr = ContinueRet
    <3>1. frames' = frames /\ stat' = "run"
      BY <1>12, <2>5 DEF LevelFailed, BreakRet, ContinueRet
    <3>2. Stack' = Stack /\ Signal' = "run"
      BY <3>1 DEF Stack, Signal
    <3>3. Top' = Top
      BY <3>1 DEF Top
    <3>4. EngineInv'
      BY <1>0, <2>1, <3>1, <3>3 DEF EngineInv, Nested, Ok
    <3>5. Told(Top.retStr) = "continue"
      BY <2>5 DEF Told, ContinueRet
    <3>6. Control!Hear
      BY <2>2, <2>5, <3>2, <3>5 DEF Control!Hear, Control!Jump, Stack
    <3>. QED  BY <3>4, <3>6 DEF Control!ControlNext
  <2>6. CASE ~(Tag.name = "while" /\ Top.retStr \in {BreakRet, ContinueRet})
    <3>1. PICK error \in {"IF_RUN_ERROR", "WHILE_RUN_ERROR"} : Return(error, Top.retStr)
      BY <1>12, <2>2, <2>6 DEF LevelFailed
    <3>2. error \notin {"run", Ok, "fault"}
      BY DEF Ok
    <3>3. EngineInv' /\ Control!Leave(Told(Top.retStr))
      BY <1>0, <1>1, <3>1, <3>2, KeepReturn
    <3>4. Control!Hear
      BY <2>2, <2>3, <2>6, <3>3 DEF Control!Hear, Stack
    <3>. QED  BY <3>3, <3>4 DEF Control!ControlNext
  <2>. QED  BY <2>4, <2>5, <2>6
<1>13. CASE LevelDone
  BY <1>0, <1>13, KeepFinish DEF Control!ControlNext
<1>. QED
  BY <1>3, <1>4, <1>5, <1>6, <1>7, <1>8, <1>9, <1>10, <1>11, <1>12, <1>13 DEF RunScript

\* A script is begun where none runs.
LEMMA EngineBegins ==
  ASSUME EngineInv, NEW script, SyncScriptRun(script)
  PROVE  EngineInv' /\ Control!Begin
<1>1. /\ frames = <<>> /\ frames' = <<Level(script)>> /\ stat' = "run"
  BY DEF SyncScriptRun
<1>2. Signal \in {"done", "failed"}
  BY <1>1 DEF EngineInv, Nested, Signal
<1>3. Level(script) \in FrameOf({script})
  BY DEF Level, FrameOf, RetStrs
<1>4. <<Level(script)>> \in Seq(FrameOf({script}))
  <2> DEFINE f == Level(script)
             F == FrameOf({script})
  <2> HIDE DEF f, F
  <2>. QED  BY <1>3 DEF f, F
<1>5. Top' = Level(script)
  BY <1>1 DEF Top, Last
<1>6. Nested'
  <2>1. Len(frames') = 1 /\ frames' # <<>> /\ Top'.testing = FALSE
    BY <1>1, <1>5 DEF Level
  <2>. QED  BY <2>1, <1>1 DEF Nested, Ok
<1>7. EngineInv'
  BY <1>1, <1>4, <1>6 DEF EngineInv
<1>8. Stack' = <<Control!Frame(script)>> /\ Signal' = "run"
  <2> DEFINE f == Level(script)
             s == <<f>>
  <2>1. View(f) = Control!Frame(script)
    BY DEF View, Level, Control!Frame, Told, BreakRet, ContinueRet
  <2> HIDE DEF f
  <2>2. Views(s) = <<View(f)>>
    BY DEF Views
  <2>. QED  BY <1>1, <2>1, <2>2 DEF Stack, Signal, f
<1>9. Control!Frame(script).code = script
  BY DEF Control!Frame
<1>10. Len(Stack') = 1 /\ Stack'[1] = Control!Frame(Stack'[1].code)
  BY <1>8, <1>9
<1>. QED  BY <1>2, <1>7, <1>8, <1>10 DEF Control!Begin, Stack

LEMMA InitEngine == Init => EngineInv /\ Control!ControlInit
<1>. SUFFICES ASSUME Init PROVE EngineInv /\ Control!ControlInit
  OBVIOUS
<1>1. frames = <<>> /\ stat = Ok
  BY DEF Init, EngineInit
<1>2. EngineInv
  <2>1. frames \in Seq(FrameOf({}))
    BY <1>1
  <2>. QED  BY <1>1, <2>1 DEF EngineInv, Nested, Ok
<1>3. Views(frames) = <<>> /\ Signal = "done"
  BY <1>1 DEF Views, Signal, Ok
<1>. QED  BY <1>2, <1>3 DEF Control!ControlInit

\* Only the calls that run a script touch the engine.
LEMMA StepEngine ==
  ASSUME EngineInv, [Next]_vars
  PROVE  EngineInv' /\ [Control!ControlNext]_(Control!controlVars)
<1>1. CASE RunOn
  BY <1>1, EngineStep DEF RunOn
<1>2. ASSUME NEW script, SyncScriptRun(script)
      PROVE  EngineInv' /\ [Control!ControlNext]_(Control!controlVars)
  BY <1>2, EngineBegins DEF Control!ControlNext
<1>3. CASE UNCHANGED engineVars
  <2>1. frames' = frames /\ stat' = stat
    BY <1>3 DEF engineVars
  <2>2. Top' = Top /\ Views(frames)' = Views(frames)
    BY <2>1 DEF Top
  <2>3. Signal' = Signal
    BY <2>1, <2>2 DEF Signal
  <2>4. EngineInv'
    BY <2>1, <2>2 DEF EngineInv, Nested
  <2>. QED  BY <2>2, <2>3, <2>4 DEF Control!controlVars
<1>4. \/ RunOn \/ \E script : SyncScriptRun(script)
      \/ UNCHANGED engineVars
  BY DEF Next, vars, AddSource, AskTable, TakeTable, AskDirectory, LoadPlugin, Loaded,
         AskScript, RunFound, Ran, ChangeSources, Look
<1>. QED  BY <1>1, <1>2, <1>3, <1>4

\* Whatever the scripts are, every run of the engine is one of ScriptControl's: no
\* jump is lost on its way to its loop, and no failure is taken for a jump but the
\* last its loop heard (ScriptEngine.cpp:167-171, 235, 467, 482 and 588-602).
THEOREM StartupImplementsControl == Spec => ImplementsControl
<1>1. EngineInv /\ [Next]_vars
        => EngineInv' /\ [Control!ControlNext]_(Control!controlVars)
  BY StepEngine
<1>. QED  BY <1>1, InitEngine, PTL DEF Spec, ImplementsControl, Control!ControlSpec

-----------------------------------------------------------------------------
(***************************************************************************)
(* Scripts without break and continue never leave a jump's string behind.  *)
(***************************************************************************)
Jumps == {BreakRet, ContinueRet}

JumpFree(Codes, Tags) ==
  /\ Codes \subseteq Seq(Tags)
  /\ \A tag \in Tags : tag.name \notin Jumps /\ tag.sub \in Codes

\* A level of such a script, one told nothing of a jump.
Calm(Codes, f) ==
  /\ f.code \in Codes /\ f.iter \in Nat \ {0}
  /\ f.retStr \in RetStrs \ Jumps
AllCalm(Codes, s) == \A i \in 1 .. Len(s) : Calm(Codes, s[i])

LEMMA CalmFront ==
  ASSUME NEW C, NEW s \in Seq(FrameOf(C)), s # <<>>, NEW Codes, AllCalm(Codes, s)
  PROVE  AllCalm(Codes, Front(s)) /\ Front(s) \in Seq(FrameOf(C))
  BY FrontOf DEF AllCalm

LEMMA CalmDone ==
  ASSUME NEW C, NEW s \in Seq(FrameOf(C)), s # <<>>, NEW Codes, AllCalm(Codes, s),
         NEW retStr \in RetStrs \ Jumps
  PROVE  AllCalm(Codes, DoneWith(s, retStr))
<1>. PICK t : t = DoneWith(s, retStr)
  OBVIOUS
<1>1. /\ Len(t) = Len(s) /\ SameUpTo(Len(s) - 1, s, t)
      /\ t[Len(s)] = [code |-> s[Len(s)].code, iter |-> s[Len(s)].iter + 1,
                      retStr |-> retStr, testing |-> FALSE]
  BY DoneViews
<1>2. Len(s) \in Nat \ {0}
  OBVIOUS
<1>3. Calm(Codes, t[Len(s)])
  BY <1>1, <1>2 DEF AllCalm, Calm
<1>. QED  BY <1>1, <1>2, <1>3 DEF AllCalm, SameUpTo

LEMMA CalmTold ==
  ASSUME NEW C, NEW s \in Seq(FrameOf(C)), s # <<>>, NEW Codes, AllCalm(Codes, s),
         NEW retStr \in RetStrs \ Jumps
  PROVE  /\ AllCalm(Codes, TellLast(s, retStr))
         /\ TellLast(s, retStr) \in Seq(FrameOf(C)) /\ TellLast(s, retStr) # <<>>
<1>. PICK t : t = TellLast(s, retStr)
  OBVIOUS
<1>1. /\ t \in Seq(FrameOf(C)) /\ t # <<>>
      /\ Len(t) = Len(s) /\ SameUpTo(Len(s) - 1, s, t)
      /\ t[Len(s)].code = s[Len(s)].code /\ t[Len(s)].iter = s[Len(s)].iter
      /\ t[Len(s)].retStr = retStr
  BY ToldViews
<1>2. Len(s) \in Nat \ {0}
  OBVIOUS
<1>3. Calm(Codes, t[Len(s)])
  BY <1>1, <1>2 DEF AllCalm, Calm
<1>. QED  BY <1>1, <1>2, <1>3 DEF AllCalm, SameUpTo

LEMMA CalmTesting ==
  ASSUME NEW C, NEW s \in Seq(FrameOf(C)), s # <<>>, NEW Codes, AllCalm(Codes, s)
  PROVE  AllCalm(Codes, TestLast(s))
<1>. PICK t : t = TestLast(s)
  OBVIOUS
<1>1. /\ Len(t) = Len(s) /\ SameUpTo(Len(s) - 1, s, t)
      /\ t[Len(s)] = [code |-> s[Len(s)].code, iter |-> s[Len(s)].iter,
                      retStr |-> s[Len(s)].retStr, testing |-> TRUE]
  BY TestingViews
<1>2. Len(s) \in Nat \ {0}
  OBVIOUS
<1>3. Calm(Codes, t[Len(s)])
  BY <1>1, <1>2 DEF AllCalm, Calm
<1>. QED  BY <1>1, <1>2, <1>3 DEF AllCalm, SameUpTo

LEMMA CalmEnter ==
  ASSUME NEW C, NEW s \in Seq(FrameOf(C)), NEW Codes, AllCalm(Codes, s),
         NEW code \in Codes
  PROVE  AllCalm(Codes, Enter(s, code))
<1>. PICK t : t = Enter(s, code)
  OBVIOUS
<1>1. /\ Len(t) = Len(s) + 1 /\ SameUpTo(Len(s), s, t) /\ t[Len(t)] = Level(code)
  BY EnterViews
<1>2. Len(s) \in Nat
  OBVIOUS
<1>3. Calm(Codes, Level(code))
  BY DEF Calm, Level, RetStrs, Jumps, BreakRet, ContinueRet
<1>. QED  BY <1>1, <1>2, <1>3 DEF AllCalm, SameUpTo

\* A level that leaves, telling the one below it retStr or nothing.
LEMMA CalmReturn ==
  ASSUME NEW C, frames \in Seq(FrameOf(C)), frames # <<>>, NEW Codes,
         AllCalm(Codes, frames), NEW error, NEW retStr \in RetStrs \ Jumps,
         Return(error, retStr) \/ ReturnUnset(error)
  PROVE  AllCalm(Codes, frames')
<1>1. AllCalm(Codes, Front(frames)) /\ Front(frames) \in Seq(FrameOf(C))
  BY CalmFront
<1>2. /\ Len(Front(frames)) = Len(frames) - 1 /\ Len(frames) \in Nat \ {0}
  BY FrontOf
<1>3. CASE frames' = Front(frames) \/ frames' = <<>>
  BY <1>1, <1>3 DEF AllCalm
<1>4. CASE Len(frames) # 1 /\ frames' = [Front(frames) EXCEPT ![Len(frames) - 1].retStr = retStr]
  <2> DEFINE s == Front(frames)
  <2>1. s # <<>> /\ frames' = TellLast(s, retStr)
    BY <1>2, <1>4 DEF TellLast
  <2> HIDE DEF s
  <2>2. AllCalm(Codes, TellLast(s, retStr))
    BY <1>1, <2>1, CalmTold DEF s
  <2>. QED  BY <2>1, <2>2
<1>. QED  BY <1>3, <1>4 DEF Return, ReturnUnset

LEMMA CalmStep ==
  ASSUME NEW Codes, NEW Tags, JumpFree(Codes, Tags),
         EngineInv, AllCalm(Codes, frames), RunScript
  PROVE  AllCalm(Codes, frames')
<1>0. frames # <<>>
  BY DEF RunScript
<1>1. PICK C : frames \in Seq(FrameOf(C))
  BY DEF EngineInv
<1>2. /\ Len(frames) \in Nat \ {0} /\ Top = frames[Len(frames)]
      /\ Calm(Codes, Top)
  BY <1>0, <1>1 DEF Top, Last, AllCalm
<1>3. /\ Top.retStr \in RetStrs \ Jumps
      /\ "" \in RetStrs \ Jumps /\ "figure" \in RetStrs \ Jumps
  BY <1>2 DEF Calm, RetStrs, Jumps, BreakRet, ContinueRet
<1>4. ASSUME Top.iter <= Len(Top.code)
      PROVE  Tag \in Tags /\ Tag.name \notin Jumps /\ Tag.sub \in Codes
  <2>1. Top.code \in Seq(Tags) /\ Top.iter \in 1 .. Len(Top.code)
    BY <1>2, <1>4 DEF Calm, JumpFree
  <2>2. Tag \in Tags
    BY <2>1 DEF Tag
  <2>. QED  BY <2>2 DEF JumpFree
<1>5. /\ AllCalm(Codes, TellLast(frames, ""))
      /\ TellLast(frames, "") \in Seq(FrameOf(C)) /\ TellLast(frames, "") # <<>>
  BY <1>0, <1>1, <1>3, CalmTold
<1>6. Clear(frames) = TellLast(frames, "")
  BY DEF Clear, TellLast
\* Whatever the tag does with its own level, ...
<1>7. ASSUME NEW retStr \in RetStrs \ Jumps, frames' = DoneWith(frames, retStr)
      PROVE  AllCalm(Codes, frames')
  BY <1>0, <1>1, <1>7, CalmDone
<1>8. ASSUME NEW error, NEW retStr \in RetStrs \ Jumps,
             Return(error, retStr) \/ ReturnUnset(error)
      PROVE  AllCalm(Codes, frames')
  BY <1>0, <1>1, <1>8, CalmReturn
<1>9. ASSUME NEW code \in Codes,
             frames' = Enter(frames, code) \/ frames' = Enter(Clear(frames), code)
      PROVE  AllCalm(Codes, frames')
  <2>1. AllCalm(Codes, Enter(frames, code))
    BY <1>1, CalmEnter
  <2>2. AllCalm(Codes, Enter(TellLast(frames, ""), code))
    BY <1>5, CalmEnter
  <2>. QED  BY <1>6, <1>9, <2>1, <2>2
\* ... its own action does one of those.
<1>10. CASE AVar \/ AElse
  BY <1>3, <1>7, <1>8, <1>10 DEF AVar, AElse
<1>11. ASSUME NEW result, NEW retStr \in {"", "figure"}, StoreRet(retStr, result)
       PROVE  AllCalm(Codes, frames')
  BY <1>3, <1>7, <1>8, <1>11 DEF StoreRet
<1>12. CASE AComput
  BY <1>3, <1>7, <1>8, <1>11, <1>12 DEF AComput
<1>13. CASE ABreak
  BY <1>4, <1>13 DEF ABreak, At, Jumps, BreakRet, ContinueRet
<1>14. CASE AIfElse
  <2>1. Tag.sub \in Codes /\ Tag.sub \in Seq(Tags)
    BY <1>4, <1>14 DEF AIfElse, At, JumpFree
  <2>2. ASSUME NEW i \in FirstElse(Tag.sub) PROVE Tag.sub[i].sub \in Codes
    BY <2>1 DEF FirstElse, JumpFree
  <2>3. frames' = frames => AllCalm(Codes, frames')
    BY <1>1
  <2>. QED  BY <1>3, <1>7, <1>8, <1>9, <1>14, <2>1, <2>2, <2>3 DEF AIfElse
<1>15. CASE AWhile
  <2>1. frames' = TestLast(TellLast(frames, ""))
    <3>1. Len(TellLast(frames, "")) = Len(frames)
      BY <1>0, <1>1, <1>3, ToldViews
    <3>. QED  BY <1>6, <1>15, <3>1 DEF AWhile, TestLast
  <2>. QED  BY <1>5, <2>1, CalmTesting
<1>16. CASE WhileTest
  <2>1. Tag.sub \in Codes
    <3>1. Top.iter <= Len(Top.code)
      BY <1>0, <1>16 DEF WhileTest, EngineInv, Nested, Holds
    <3>. QED  BY <1>4, <3>1
  <2>. QED  BY <1>3, <1>7, <1>8, <1>9, <1>16, <2>1 DEF WhileTest
<1>17. CASE CallRefused
  BY <1>3, <1>8, <1>17 DEF CallRefused
<1>18. CASE Call
  <2>1. \/ \E figure \in 0 .. 1 : StoreRet(IF Tag.ret = None THEN "" ELSE "figure", figure)
        \/ Return("ACTION_ERROR", "")
    BY <1>18 DEF Call
  <2>. QED  BY <1>3, <1>8, <1>11, <2>1
<1>19. CASE LevelFailed
  <2>1. frames' = frames => AllCalm(Codes, frames')
    BY <1>1
  <2>. QED  BY <1>3, <1>7, <1>8, <1>19, <2>1 DEF LevelFailed
<1>20. CASE LevelDone
  <2> DEFINE s == Front(frames)
             atText == Top.iter <= Len(Top.code) /\ Tag.name = "text"
             retStr == IF atText THEN "" ELSE Top.retStr
  <2>1. /\ AllCalm(Codes, s) /\ s \in Seq(FrameOf(C))
        /\ Len(s) = Len(frames) - 1
    BY <1>0, <1>1, CalmFront, FrontOf
  <2>2. retStr \in RetStrs \ Jumps
    BY <1>3
  <2>3. CASE Len(frames) = 1
    <3>1. frames' = <<>>
      BY <1>20, <2>3 DEF LevelDone
    <3>. QED  BY <3>1 DEF AllCalm
  <2>4. CASE Len(frames) # 1
    <3>1. frames' = DoneWith(s, retStr) \/ frames' = TellLast(s, retStr)
      BY <1>20, <2>4 DEF LevelDone, TellLast
    <3>2. s # <<>>
      BY <1>2, <2>1, <2>4
    <3> HIDE DEF s, retStr
    <3>. QED  BY <2>1, <2>2, <3>1, <3>2, CalmDone, CalmTold
  <2>. QED  BY <2>3, <2>4
<1>. QED
  BY <1>10, <1>12, <1>13, <1>14, <1>15, <1>16, <1>17, <1>18, <1>19, <1>20 DEF RunScript

\* A failure is passed on until nothing is left of the script.
FailureEnds == Signal = "left" => Signal' \in {"left", "failed"}

LEMMA CalmFails ==
  ASSUME NEW Codes, EngineInv, AllCalm(Codes, frames), [Next]_vars
  PROVE  FailureEnds
<1>. SUFFICES ASSUME Signal = "left" PROVE Signal' \in {"left", "failed"}
  BY DEF FailureEnds
<1>1. frames # <<>> /\ stat \notin {"run", Ok, "fault"}
  <2>1. frames # <<>> /\ stat \notin {"run", "fault"}
    BY DEF Signal
  <2>. QED  BY <2>1 DEF EngineInv, Nested
<1>2. Top.retStr \notin Jumps
  <2>1. Len(frames) \in Nat \ {0} /\ Top = frames[Len(frames)]
    BY <1>1, TopIs
  <2>. QED  BY <2>1 DEF AllCalm, Calm
<1>3. CASE RunOn
  <2>1. LevelFailed
    BY <1>1, <1>3 DEF RunOn, RunScript, AVar, AComput, AElse, ABreak, AIfElse, AWhile,
                      WhileTest, CallRefused, Call, LevelDone, At
  <2>2. stat' \in {"IF_RUN_ERROR", "WHILE_RUN_ERROR"}
    BY <1>2, <2>1 DEF LevelFailed, Return, Jumps
  <2>. QED  BY <2>2 DEF Signal, Ok
<1>4. CASE UNCHANGED engineVars
  BY <1>4 DEF engineVars, Signal
<1>5. RunOn \/ UNCHANGED engineVars
  BY <1>1 DEF Next, vars, AddSource, AskTable, TakeTable, AskDirectory, LoadPlugin, Loaded,
         AskScript, RunFound, SyncScriptRun, Ran, ChangeSources, Look
<1>. QED  BY <1>3, <1>4, <1>5

\* The scripts the sources may hold.
ScriptsIn(Codes) ==
  \A c \in Contents, n \in SrcNames, item \in {"GlobalInit", "GlobalUnInit"} :
    c[n].item[item] \in Codes \cup {Absent}

LEMMA CalmNext ==
  ASSUME NEW Codes, NEW Tags, JumpFree(Codes, Tags), ScriptsIn(Codes),
         IInv, EngineInv, AllCalm(Codes, frames), [Next]_vars
  PROVE  AllCalm(Codes, frames)'
<1>1. CASE RunOn
  BY <1>1, CalmStep DEF RunOn
<1>2. CASE UNCHANGED engineVars
  BY <1>2 DEF engineVars
<1>3. CASE RunFound /\ lookup.stat = "OK"
  <2>1. /\ phase \in {"start", "stop"} /\ lookup.at = "done"
        /\ frames' = <<Level(lookup.result)>>
    BY <1>3 DEF RunFound, SyncScriptRun
  <2>2. lookup.key \in {"GlobalInit", "GlobalUnInit"} /\ lookup.key \in Items
    BY <2>1, StartupAssumption DEF IInv, Apart
  <2>3. PICK i \in DOMAIN mConfigDataList :
          /\ Document(i).item[lookup.key] # Absent
          /\ lookup.result = Document(i).item[lookup.key]
    BY <1>3, <2>1, <2>2 DEF IInv, LookupSound
  <2>4. lookup.result \in Codes
    <3>1. mConfigDataList[i] \in SrcNames /\ content \in Contents
      BY DEF IInv, Shapes
    <3>. QED  BY <2>2, <2>3, <3>1 DEF Document, ScriptsIn
  <2>5. Calm(Codes, Level(lookup.result))
    BY <2>4 DEF Calm, Level, RetStrs, Jumps, BreakRet, ContinueRet
  <2>. QED  BY <2>1, <2>5 DEF AllCalm
<1>4. RunOn \/ UNCHANGED engineVars \/ (RunFound /\ lookup.stat = "OK")
  BY DEF Next, vars, AddSource, AskTable, TakeTable, AskDirectory, LoadPlugin, Loaded,
         AskScript, RunFound, Ran, ChangeSources, Look
<1>. QED  BY <1>1, <1>2, <1>3, <1>4

\* In scripts without break and continue every failure, at any depth, ends the
\* whole script: none is taken for a jump (ScriptEngine.cpp:467, :482 and :601).
THEOREM StartupFailuresEnd ==
  ASSUME NEW Codes, NEW Tags, JumpFree(Codes, Tags), ScriptsIn(Codes)
  PROVE  Spec => [][FailureEnds]_vars
<1>. DEFINE Inv == IInv /\ EngineInv /\ AllCalm(Codes, frames)
<1>1. Init => Inv
  <2>1. Init => frames = <<>>
    BY DEF Init, EngineInit
  <2>. QED  BY <2>1, InitInv, InitEngine DEF AllCalm
<1>2. Inv /\ [Next]_vars => Inv' /\ FailureEnds
  BY StepInv, StepEngine, CalmFails, CalmNext
<1>. QED  BY <1>1, <1>2, PTL DEF Spec

=============================================================================
