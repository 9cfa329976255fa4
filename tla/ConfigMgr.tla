----------------------------- MODULE ConfigMgr ------------------------------
(***************************************************************************)
(* The configuration manager (PModule/ConfigMgr/Cx_ConfigMgr.cpp): a list  *)
(* of sources, each an XML document, in the order they were added.  Tables *)
(* and scripts are looked for from the last source to the first, until one *)
(* has them; properties from the first to the last, as long as each has    *)
(* the module.  A step of a look-up is one source.                         *)
(*                                                                         *)
(* Of a document only what can be looked up is kept: its items, which are  *)
(* the tables and scripts of modules, and the values of one property of    *)
(* each module, Absent if the module has no Property element; and whether  *)
(* the data can be loaded and parsed at all.                               *)
(***************************************************************************)
EXTENDS Integers, Sequences, SequencesExt

CONSTANTS
  SrcNames,   \* what GetConfigNameStr may give
  Items,      \* tables and scripts that are asked for
  Modules,    \* modules whose property is asked for
  Contents,   \* what the sources may be, all together
  Absent

\* A document may lack an item or a property; values are strings.
ASSUME ConfigMgrAssumption ==
  \A c \in Contents, n \in SrcNames, module \in Modules :
    c[n].prop[module] = Absent \/ c[n].prop[module] \in Seq(STRING)

VARIABLES
  content,         \* the document behind each name
  mConfigDataList, \* the names of the sources
  lookup           \* [at, key, pos, stat, result] of the look-up that runs

configVars == <<content, mConfigDataList, lookup>>

NoLookup == [at |-> "idle", key |-> Absent, pos |-> 0, stat |-> Absent,
             result |-> Absent]

ConfigInit ==
  /\ content \in Contents
  /\ mConfigDataList = <<>>
  /\ lookup = NoLookup

Listed(name) == \E i \in DOMAIN mConfigDataList : mConfigDataList[i] = name
Document(i) == content[mConfigDataList[i]]

\* Refused if the name is there, the data cannot be had or is no XML.
Addable(name) == ~Listed(name) /\ content[name].parses

AddConfigSrc(name) ==
  /\ Addable(name)
  /\ mConfigDataList' = Append(mConfigDataList, name)

\* The first of that name goes; deleting what is not there is no error.
DelConfigSrc(name) ==
  \/ ~Listed(name) /\ UNCHANGED mConfigDataList
  \/ \E i \in DOMAIN mConfigDataList :
       /\ mConfigDataList[i] = name
       /\ \A j \in 1 .. i - 1 : mConfigDataList[j] # name
       /\ mConfigDataList' = RemoveAt(mConfigDataList, i)

-----------------------------------------------------------------------------
(* GetModuleTable and GetModuleScript.                                     *)

GetModuleItem(item) ==
  /\ lookup.at = "idle"
  /\ lookup' = [at |-> "back", key |-> item, pos |-> Len(mConfigDataList),
                stat |-> "CANNOT_FIND_CONFIG_ERROR", result |-> Absent]

\* A bug: the search goes on after it has found something.
FaultSearchBack ==
  /\ lookup.at = "back" /\ lookup.pos > 0
  /\ lookup' = IF Document(lookup.pos).item[lookup.key] = Absent
               THEN [lookup EXCEPT !.pos = @ - 1]
               ELSE [lookup EXCEPT !.pos = @ - 1, !.stat = "OK",
                       !.result = Document(lookup.pos).item[lookup.key]]

SearchBack ==
  /\ lookup.at = "back" /\ lookup.pos > 0
  /\ lookup' = IF Document(lookup.pos).item[lookup.key] = Absent
               THEN [lookup EXCEPT !.pos = @ - 1, !.stat = "ELEMENT_FIND_ERROR"]
               ELSE [lookup EXCEPT !.at = "done", !.stat = "OK",
                       !.result = Document(lookup.pos).item[lookup.key]]

-----------------------------------------------------------------------------
(* GetModulePropEntry; GetModulePropertys differs in asking for several.   *)

GetModulePropEntry(module) ==
  /\ lookup.at = "idle"
  /\ lookup' = [at |-> "forward", key |-> module, pos |-> 1,
                stat |-> "OK", result |-> <<>>]

\* What was found in earlier sources stays in the result when the call fails.
SearchForward ==
  /\ lookup.at = "forward" /\ lookup.pos <= Len(mConfigDataList)
  /\ lookup' = IF Document(lookup.pos).prop[lookup.key] = Absent
               THEN [lookup EXCEPT !.at = "done", !.stat = "ELEMENT_FIND_ERROR"]
               ELSE [lookup EXCEPT !.pos = @ + 1,
                       !.result = @ \o Document(lookup.pos).prop[lookup.key]]

SearchEnds ==
  /\ \/ lookup.at = "back" /\ lookup.pos = 0
     \/ lookup.at = "forward" /\ lookup.pos > Len(mConfigDataList)
  /\ lookup' = [lookup EXCEPT !.at = "done"]

Search == SearchBack \/ SearchForward \/ SearchEnds

-----------------------------------------------------------------------------
\* Whatever sources were added, refused and deleted before: a table or script is
\* the one of the source added last among those that have it, and is not found
\* only if none has it (GetModuleTable, GetModuleScript); a property look-up that
\* reports success has the values of every source (GetModulePropEntry).
LookupSound ==
  lookup.at = "done" =>
    IF lookup.key \in Items THEN
      LET having == {i \in DOMAIN mConfigDataList :
                       Document(i).item[lookup.key] # Absent}
      IN  \/ lookup.stat # "OK" /\ having = {}
          \/ /\ lookup.stat = "OK"
             /\ \E i \in having :
                  /\ \A j \in having : j <= i
                  /\ lookup.result = Document(i).item[lookup.key]
    ELSE lookup.stat = "OK" =>
      \A i \in DOMAIN mConfigDataList :
        LET values == Document(i).prop[lookup.key]
        IN  values # Absent /\ Range(values) \subseteq Range(lookup.result)

=============================================================================
