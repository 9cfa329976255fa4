--------------------------- MODULE ScriptControl ----------------------------
(***************************************************************************)
(* What a script's nesting promises its author, whatever its conditions    *)
(* and actions yield: break leaves the innermost loop, continue goes to    *)
(* that loop's condition, and any other failure ends the whole script,     *)
(* with one exception.  A loop hears of a failure by a word that the tag   *)
(* that failed may leave unsaid; it then acts on the last word it has had  *)
(* since it began, and that may be a jump of an earlier round.  Nothing    *)
(* else is ever taken for a jump.  An if that looks for its else past a    *)
(* text brings the program down.                                           *)
(* This is the specification ScriptEngine implements, not a translation of *)
(* code.                                                                   *)
(***************************************************************************)
EXTENDS Integers, Sequences, SequencesExt

VARIABLES
  stack,   \* what is being run, innermost last: [code, pos, testing, heard]
  signal   \* "run", "left" when the innermost frame must hear of a failure or
           \* a jump, "done", "failed" or "fault"

controlVars == <<stack, signal>>

Frame(code) == [code |-> code, pos |-> 1, testing |-> FALSE, heard |-> "nothing"]
InTag(s) == s # <<>> /\ Last(s).pos <= Len(Last(s).code)
TagOf(s) == Last(s).code[Last(s).pos]
Advanced(s, h) ==
  [s EXCEPT ![Len(s)] = [code |-> @.code, pos |-> @.pos + 1, testing |-> FALSE,
                         heard |-> h]]
Hears(s, h) == [s EXCEPT ![Len(s)].heard = h]
Testing(s) == [Hears(s, "nothing") EXCEPT ![Len(s)].testing = TRUE]

Elses(tag) == {t.sub : t \in {u \in ToSet(tag.sub) : u.name = "else"}}

Jump == {"break", "continue"}

ControlInit == stack = <<>> /\ signal = "done"

\* Any script may be run, once the last one has ended.
Begin ==
  /\ signal \in {"done", "failed"} /\ signal' = "run"
  /\ Len(stack') = 1 /\ stack'[1] = Frame(stack'[1].code)

\* What a tag has heard by its end, and what the frame below heard last.
Kept == IF Last(stack).testing THEN Last(stack).heard ELSE "nothing"
HeardBelow == IF Len(stack) = 1 THEN "nothing" ELSE stack[Len(stack) - 1].heard

\* The innermost frame is left and the one below hears h; the script has failed
\* if there is none.
Leave(h) ==
  /\ stack' = IF Len(stack) = 1 THEN <<>> ELSE Hears(Front(stack), h)
  /\ signal' = IF Len(stack) = 1 THEN "failed" ELSE "left"

\* A tag is done, opens the code it contains, or fails and may not say so.
PlainTag ==
  /\ InTag(stack) /\ signal = "run" /\ TagOf(stack).name \notin Jump
  /\ \/ stack' = Advanced(stack, Kept) /\ UNCHANGED signal
     \/ \E h \in {Kept, HeardBelow} : Leave(h)

OpenTag ==
  /\ InTag(stack) /\ signal = "run"
  /\ \/ /\ TagOf(stack).name = "if"
        /\ \E code \in {TagOf(stack).sub} \cup Elses(TagOf(stack)) :
             stack' = Append(Hears(stack, "nothing"), Frame(code))
     \/ /\ TagOf(stack).name = "while"
        /\ stack' = IF Last(stack).testing
                    THEN Append(stack, Frame(TagOf(stack).sub))
                    ELSE Testing(stack)
  /\ UNCHANGED signal

JumpTag ==
  /\ InTag(stack) /\ signal = "run" /\ TagOf(stack).name \in Jump
  /\ Leave(TagOf(stack).name)

\* The code of a frame is at its end; what its last tag heard may be passed on.
Finish ==
  /\ stack # <<>> /\ signal = "run"
  /\ \E h \in {"nothing", Last(stack).heard} :
       stack' = IF Len(stack) = 1 THEN <<>>
                ELSE IF TagOf(Front(stack)).name = "if" THEN Advanced(Front(stack), h)
                ELSE Hears(Front(stack), h)
  /\ signal' = IF Len(stack) = 1 THEN "done" ELSE "run"

\* The tag that holds the frame just left acts on what it heard.
Hear ==
  /\ stack # <<>> /\ signal = "left"
  /\ LET h == Last(stack).heard
     IN  IF TagOf(stack).name = "while" /\ h \in Jump
           THEN /\ stack' = IF h = "break" THEN Advanced(stack, h) ELSE stack
                /\ signal' = "run"
           ELSE Leave(h)

\* The search for the else of an if meets a text.
Fault ==
  /\ InTag(stack) /\ signal = "run" /\ TagOf(stack).name = "if"
  /\ \E tag \in ToSet(TagOf(stack).sub) : tag.name = "text"
  /\ signal' = "fault" /\ UNCHANGED stack

ControlNext ==
  \/ Begin \/ PlainTag \/ OpenTag \/ JumpTag \/ Finish \/ Hear \/ Fault

ControlSpec == ControlInit /\ [][ControlNext]_controlVars

=============================================================================
