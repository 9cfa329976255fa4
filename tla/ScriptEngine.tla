---------------------------- MODULE ScriptEngine ----------------------------
(***************************************************************************)
(* The script engine (PModule/ScriptMgr/ScriptEngine.cpp) and the entry    *)
(* that runs a script (Cx_ScriptMgr::SyncScriptRun).                       *)
(*                                                                         *)
(* scriptRunTag runs the tags of one level; if, else and while run the     *)
(* level below by calling it again.  frames is that recursion: each frame  *)
(* has its code, its iterator and its retStr, which the level below fills  *)
(* through the reference ret_value.  A level tells that it was left by     *)
(* break or continue only by what it puts there, since if turns every      *)
(* failure into the same code.                                             *)
(*                                                                         *)
(* A tag is a record: its name, the variable and the number its attributes *)
(* or its text name, its variables passed as parameters, the variable its  *)
(* Ret attribute names and the tags it contains.  Values are figures; an   *)
(* expression is a variable, or a variable compared with a figure.         *)
(***************************************************************************)
EXTENDS Integers, Sequences, SequencesExt

CONSTANTS
  Vars,       \* names of variables
  Actions,    \* names of the registered actions (Cx_ScriptMgr::mActionSet)
  MaxFigure,  \* bound: figures outside -MaxFigure .. MaxFigure are capped
  None        \* no variable, no value

ASSUME ScriptEngineAssumption ==
  /\ MaxFigure \in Nat
  /\ None \notin Vars \cup Int

VARIABLES
  frames,         \* [code, iter, retStr, testing], the innermost last
  mScriptContext, \* the value of each variable, None if there is no such entry
  stat            \* "run", what the call that just ended returned, or "fault"

engineVars == <<frames, mScriptContext, stat>>

Ok == "LWDP_OK"
BreakRet == "break"        \* LW_ACTION_BREAK_RET_TAG
ContinueRet == "continue"  \* LW_ACTION_CONTINUE_RET_TAG

EngineInit ==
  /\ frames = <<>>
  /\ mScriptContext = [v \in Vars |-> None]
  /\ stat = Ok

Level(code) == [code |-> code, iter |-> 1, retStr |-> "", testing |-> FALSE]
Top == Last(frames)
Tag == Top.code[Top.iter]
Defined(v) == mScriptContext[v] # None
Capped(n) == IF n > MaxFigure THEN MaxFigure
             ELSE IF n < -MaxFigure THEN -MaxFigure ELSE n

\* A tag is about to be looked at.
At(names) ==
  /\ stat = "run" /\ ~Top.testing
  /\ Top.iter <= Len(Top.code) /\ Tag.name \in names

-----------------------------------------------------------------------------
(* How a level goes on and how it ends.                                    *)

\* The iterator moves on; what the tag left in retStr stays until the next.
DoneWith(s, retStr) ==
  [s EXCEPT ![Len(s)] = [code |-> @.code, iter |-> @.iter + 1, retStr |-> retStr,
                         testing |-> FALSE]]

\* The level returns an error; ret_value is what it tells the level above.
Return(error, ret_value) ==
  /\ frames' = IF Len(frames) = 1 THEN <<>>
               ELSE [Front(frames) EXCEPT ![Len(frames) - 1].retStr = ret_value]
  /\ stat' = error

\* The exits of RINOK return without having set ret_value: what an earlier
\* round of the level above left in its retStr is still there.
ReturnUnset(error) ==
  /\ frames' = Front(frames)
  /\ stat' = error

\* The Ret attribute, when the tag itself went well (setVarValue).
StoreRet(retStr, result) ==
  IF Tag.ret = None
    THEN frames' = DoneWith(frames, retStr) /\ UNCHANGED <<mScriptContext, stat>>
  ELSE IF Defined(Tag.ret)
    THEN /\ mScriptContext' = [mScriptContext EXCEPT ![Tag.ret] = result]
         /\ frames' = DoneWith(frames, retStr) /\ UNCHANGED stat
  ELSE ReturnUnset("ACTION_IS_NOT_VAR_ERROR") /\ UNCHANGED mScriptContext

-----------------------------------------------------------------------------
(* The actions of the engine itself.                                       *)

AVar ==
  /\ At({"vars"})
  /\ IF Defined(Tag.var)
       THEN Return("VAR_EXIST_ERROR", "") /\ UNCHANGED mScriptContext
       ELSE /\ mScriptContext' = [mScriptContext EXCEPT ![Tag.var] = Tag.num]
            /\ frames' = DoneWith(frames, "") /\ UNCHANGED stat

\* inc and dec: the result goes to Ret if there is one, else to the variable.
AComput ==
  /\ At({"inc", "dec"})
  /\ IF ~Defined(Tag.var)
       THEN Return("ACTION_IS_NOT_VAR_ERROR", "") /\ UNCHANGED mScriptContext
       ELSE LET res == Capped(IF Tag.name = "inc"
                              THEN mScriptContext[Tag.var] + Tag.num
                              ELSE mScriptContext[Tag.var] - Tag.num)
            IN  IF Tag.ret # None THEN StoreRet("figure", res)
                ELSE /\ mScriptContext' = [mScriptContext EXCEPT ![Tag.var] = res]
                     /\ frames' = DoneWith(frames, "") /\ UNCHANGED stat

\* An else met on the way does nothing; it is run by its if.
AElse ==
  /\ At({"else"})
  /\ frames' = DoneWith(frames, "")
  /\ UNCHANGED <<mScriptContext, stat>>

\* The domain is searched for any letter of "WHILE" and every domain begins
\* with "LWDP", so that break and continue never find themselves outside a loop.
ABreak ==
  /\ At({"break", "continue"})
  /\ IF Tag.name = "break" THEN Return("ACTION_BREAK_RET", BreakRet)
     ELSE Return("ACTION_CONTINUE_RET", ContinueRet)
  /\ UNCHANGED mScriptContext

\* ParseBool of $(@var) or $(@var = num): a figure is true unless it is 0, and
\* a negative one is no string of digits, hence an error.
ParseBool(e) ==
  LET value == mScriptContext[e.var]
  IN  IF value = None THEN "error"
      ELSE IF e.num # None THEN (IF value = e.num THEN "true" ELSE "false")
      ELSE IF value < 0 THEN "error"
      ELSE IF value = 0 THEN "false" ELSE "true"

Enter(s, code) == Append(s, Level(code))
Clear(s) == [s EXCEPT ![Len(s)].retStr = ""]

\* The first else of an if that does not hold.
FirstElse(sub) ==
  {i \in DOMAIN sub : /\ sub[i].name = "else"
                      /\ \A j \in 1 .. i - 1 : sub[j].name # "else"}

\* The search for it compares the name of each tag on the way; a text has none
\* (its levelEntry is null).
TextFirst(sub) ==
  \E i \in DOMAIN sub : /\ sub[i].name = "text"
                        /\ \A j \in 1 .. i - 1 : sub[j].name # "else"

\* With a text before the else, or a text and no else, an if that does not hold
\* dereferences null: the program is gone.
AIfElse ==
  /\ At({"if"})
  /\ \/ /\ ParseBool(Tag) = "error"
        /\ Return("EXPR_ERROR", "")
     \/ /\ ParseBool(Tag) = "true"
        /\ frames' = Enter(Clear(frames), Tag.sub) /\ UNCHANGED stat
     \/ /\ ParseBool(Tag) = "false" /\ TextFirst(Tag.sub)
        /\ stat' = "fault" /\ UNCHANGED frames
     \/ /\ ParseBool(Tag) = "false" /\ ~TextFirst(Tag.sub) /\ UNCHANGED stat
        /\ \/ \E i \in FirstElse(Tag.sub) : frames' = Enter(Clear(frames), Tag.sub[i].sub)
           \/ FirstElse(Tag.sub) = {} /\ frames' = DoneWith(frames, "")
  /\ UNCHANGED mScriptContext

AWhile ==
  /\ At({"while"})
  /\ frames' = [Clear(frames) EXCEPT ![Len(frames)].testing = TRUE]
  /\ UNCHANGED <<mScriptContext, stat>>

\* A bug: what is no number counts as true.
FaultWhileTest ==
  /\ stat = "run" /\ Top.testing
  /\ IF ParseBool(Tag) = "false" THEN frames' = DoneWith(frames, Top.retStr)
     ELSE frames' = Enter(frames, Tag.sub)
  /\ UNCHANGED <<mScriptContext, stat>>

\* The head of the loop.  retStr is not cleared from round to round.
WhileTest ==
  /\ stat = "run" /\ Top.testing
  /\ CASE ParseBool(Tag) = "error" -> Return("EXPR_ERROR", Top.retStr)
       [] ParseBool(Tag) = "false" ->
            frames' = DoneWith(frames, Top.retStr) /\ UNCHANGED stat
       [] OTHER -> frames' = Enter(frames, Tag.sub) /\ UNCHANGED stat
  /\ UNCHANGED mScriptContext

-----------------------------------------------------------------------------
(* Tags that are not the engine's own: actions that plugins registered.    *)

SystemTags == {"vars", "if", "else", "inc", "dec", "while", "break", "continue"}

\* No action of that name, or a parameter names a variable that is not there.
CallRefused ==
  /\ At({Tag.name} \ (SystemTags \cup {"text"}))
  /\ Tag.name \notin Actions \/ \E v \in Tag.args : ~Defined(v)
  /\ ReturnUnset("FIND_ACTION_ERROR")
  /\ UNCHANGED mScriptContext

\* The action succeeds, with a figure if one is asked for, or reports an error;
\* its result string is empty otherwise.
Call ==
  /\ At(Actions \ (SystemTags \cup {"text"})) /\ \A v \in Tag.args : Defined(v)
  /\ \/ \E figure \in 0 .. 1 : StoreRet(IF Tag.ret = None THEN "" ELSE "figure", figure)
     \/ Return("ACTION_ERROR", "") /\ UNCHANGED mScriptContext

-----------------------------------------------------------------------------
(* A level ends, and the tag above goes on.                                *)

\* A bug: the tag gives the level below a string of its own.
FaultLevelFailed ==
  /\ stat \notin {"run", Ok, "fault"} /\ frames # <<>>
  /\ CASE Tag.name = "if" -> Return("IF_RUN_ERROR", "")
       [] Tag.name = "while" /\ Top.retStr = BreakRet ->
            frames' = DoneWith(frames, Top.retStr) /\ stat' = "run"
       [] Tag.name = "while" /\ Top.retStr = ContinueRet ->
            UNCHANGED frames /\ stat' = "run"
       [] OTHER -> Return("WHILE_RUN_ERROR", Top.retStr)
  /\ UNCHANGED mScriptContext

\* The level below returned an error.
LevelFailed ==
  /\ stat \notin {"run", Ok, "fault"} /\ frames # <<>>
  /\ CASE Tag.name = "if" -> Return("IF_RUN_ERROR", Top.retStr)
       [] Tag.name = "while" /\ Top.retStr = BreakRet ->
            frames' = DoneWith(frames, Top.retStr) /\ stat' = "run"
       [] Tag.name = "while" /\ Top.retStr = ContinueRet ->
            UNCHANGED frames /\ stat' = "run"
       [] OTHER -> Return("WHILE_RUN_ERROR", Top.retStr)
  /\ UNCHANGED mScriptContext

\* The level has no more tags; text between tags counts as its end.
LevelDone ==
  LET atText == Top.iter <= Len(Top.code) /\ Tag.name = "text"
      retStr == IF atText THEN "" ELSE Top.retStr
      above == Front(frames)
      tag == Last(above).code[Last(above).iter]
  IN
  /\ stat = "run" /\ ~Top.testing /\ (Top.iter > Len(Top.code) \/ atText)
  /\ IF Len(frames) = 1 THEN frames' = <<>> /\ stat' = Ok
     ELSE /\ frames' = IF tag.name = "if" THEN DoneWith(above, retStr)
                       ELSE [above EXCEPT ![Len(above)].retStr = retStr]
          /\ UNCHANGED stat
  /\ UNCHANGED mScriptContext

\* A new engine has no variables.
SyncScriptRun(script) ==
  /\ frames = <<>>
  /\ frames' = <<Level(script)>> /\ stat' = "run"
  /\ mScriptContext' = [v \in Vars |-> None]

RunScript ==
  /\ frames # <<>>
  /\ \/ AVar \/ AComput \/ AElse \/ ABreak \/ AIfElse \/ AWhile \/ WhileTest
     \/ CallRefused \/ Call \/ LevelFailed \/ LevelDone

-----------------------------------------------------------------------------
\* What ScriptControl sees of the engine: where each level is and what it heard,
\* as the engine's string tells it.
Told(retStr) == IF retStr \in {BreakRet, ContinueRet} THEN retStr ELSE "nothing"
View(f) == [code |-> f.code, pos |-> f.iter, testing |-> f.testing,
            heard |-> Told(f.retStr)]
Views(s) == [i \in DOMAIN s |-> View(s[i])]
Signal ==
  IF stat \in {"run", "fault"} THEN stat
  ELSE IF frames # <<>> THEN "left"
  ELSE IF stat = Ok THEN "done" ELSE "failed"

\* The engine's nesting implements the control ScriptControl states: no break or
\* continue is lost on its way through if, a failure is taken for one only if its
\* loop heard that very jump last, and nothing goes on after a fault (ret_value
\* and the codes of AIfElse and AWhile).
Control == INSTANCE ScriptControl WITH stack <- Views(frames), signal <- Signal

ImplementsControl == Control!ControlSpec

=============================================================================
