--------------------------- MODULE MCPluginLoader ---------------------------
(***************************************************************************)
(* An instance of PluginLoader: the loader, the framework module and a     *)
(* plugin that is linked in and also comes as a library with the same id;  *)
(* a library with an id of its own that serves one of the same classes;    *)
(* and a library whose version CheckPlugin refuses.  Four table slots for  *)
(* five ids.                                                               *)
(***************************************************************************)
EXTENDS PluginLoader

CONSTANTS ld, fw, st, q, r, bad,               \* modules
          idLd, idFw, idQ, idR, idBad,         \* ids
          cFw, cShared, cOwn                   \* classes

MCStatic == {ld, fw, st}
MCFile   == {q, r, bad}
MCModidOf ==
  [m \in {ld, fw, st, q, r, bad} |->
     CASE m = ld -> idLd [] m = fw -> idFw
       [] m \in {st, q} -> idQ [] m = r -> idR [] m = bad -> idBad]
MCClsid == {cFw, cShared, cOwn}
MCClassesOf ==
  [m \in {ld, fw, st, q, r, bad} |->
     CASE m = fw -> {cFw} [] m = st -> {cShared} [] m = q -> {cShared, cOwn}
       [] m = r -> {cShared} [] OTHER -> {}]
MCLevelOf ==
  [m \in {ld, fw, st, q, r, bad} |->
     IF m \in {ld, fw} THEN 0 ELSE IF m \in {st, r} THEN 1 ELSE 2]
MCDomainCovers ==
  {<<m, n>> \in (MCStatic \cup MCFile) \X (MCStatic \cup MCFile) :
     m = n \/ n \in {ld, fw, r}}

=============================================================================
