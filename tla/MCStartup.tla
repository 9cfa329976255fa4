----------------------------- MODULE MCStartup ------------------------------
(***************************************************************************)
(* Instances of Startup with two sources, int and ext, given in that       *)
(* order.  Either the sources differ in what they have, all 13 * 13        *)
(* combinations of a table, a script, a property and data that is no XML;  *)
(* or int has a script, every one of JumpScripts, FailScripts and          *)
(* MixedScripts.                                                           *)
(*                                                                         *)
(* A script counts x down from 2 in a loop, hence runs two rounds of what  *)
(* is put into it; a loop inside counts y.  So figures stay in -3 .. 3     *)
(* (MaxFigure) and every loop can end.  z is a variable nobody declares.   *)
(***************************************************************************)
EXTENDS Startup

CONSTANTS x, y, z, m1, m2, int, ext

(* Tags. *)
T(name) == [name |-> name, var |-> None, num |-> None, ret |-> None,
            args |-> {}, sub |-> <<>>]
Set(v, n) == [T("vars") EXCEPT !.var = v, !.num = n]
Dec(v) == [T("dec") EXCEPT !.var = v, !.num = 1]
While(v, sub) == [T("while") EXCEPT !.var = v, !.sub = <<Dec(v)>> \o sub]
If(v, n, sub) == [T("if") EXCEPT !.var = v, !.num = n, !.sub = sub]
Else(sub) == [T("else") EXCEPT !.sub = sub]
Act(args) == [T("printf") EXCEPT !.args = args]

UpTo2(S) == {<<>>} \cup {<<a>> : a \in S} \cup {<<a, b>> : a \in S, b \in S}
Main(body) == <<Set(x, 2), Set(y, 1), While(x, body)>>

\* Leaving and repeating rounds from every depth, and actions that fail.
Jumping == {T("break"), T("continue"), Act({x})}
JumpScripts ==
  LET inner == Jumping \cup {If(x, 1, s) : s \in UpTo2(Jumping)}
                 \cup {While(y, <<a>>) : a \in Jumping \cup {If(y, 0, <<a>>) : a \in Jumping}}
  IN  {Main(s) : s \in UpTo2(inner)}

\* Everything else that may go wrong, a text where an if looks for its else too.
Failing == {Act({z}), Act({x}), T("nobody"), Set(x, 1), T("text"), If(z, 0, <<>>),
            [Dec(z) EXCEPT !.ret = x], [Dec(x) EXCEPT !.ret = z],
            [Act({}) EXCEPT !.ret = y], [Act({}) EXCEPT !.ret = z], Dec(x)}
FailScripts ==
  LET inner == Failing \cup {If(x, 1, <<a, Else(<<b>>)>>) : a \in Failing, b \in Failing}
                 \cup {While(y, <<a>>) : a \in {f \in Failing : f.ret # y}}
  IN  {Main(<<a, b>>) : a \in Failing, b \in inner}

\* A jump in one round and a failure in the next, which the loop may take for it;
\* an inner loop's last jump passed to the loop around it when the inner loop's
\* condition is no longer a number of rounds.
MixedScripts ==
  {Main(s) : s \in
     {<<If(x, 1, <<a>>), b>> : a \in Jumping, b \in Failing}
       \cup {<<If(x, 1, <<T("text"), Else(<<a>>)>>)>> : a \in Jumping}
       \cup {<<While(y, <<a>>), b>> : a \in Jumping, b \in Failing}
       \cup {<<While(y, <<a>>)>> : a \in {If(y, 0, <<b>>) : b \in Jumping}}
       \cup {<<b, While(y, <<a>>)>> : a \in Jumping, b \in Failing}
       \cup {<<While(y, <<Dec(y), a>>)>> : a \in Jumping}}

Doc(t, i, u, p) ==
  [parses |-> TRUE,
   item |-> [ModuleLoadTable |-> t, GlobalInit |-> i, GlobalUnInit |-> u],
   prop |-> [m \in {m1, m2} |-> p]]
MCItems == {"ModuleLoadTable", "GlobalInit", "GlobalUnInit"}

\* What int and ext have in common is not the same.
Table == [n \in {int, ext} |-> IF n = int THEN <<m1>> ELSE <<m1, m2>>]
Init1 == [n \in {int, ext} |-> IF n = int THEN <<>> ELSE <<Act({})>>]
Docs(n) ==
  {Doc(t, i, Absent, p) : t \in {Absent, Table[n]}, i \in {Absent, Init1[n]},
                          p \in {Absent, <<>>, <<"dir">>}}
    \cup {[Doc(Table[n], Init1[n], Absent, <<"dir">>) EXCEPT !.parses = FALSE]}
Lookups == {[n \in {int, ext} |-> IF n = int THEN d ELSE e] :
              d \in Docs(int), e \in Docs(ext)}
Runs == {[n \in {int, ext} |->
            Doc(<<>>, IF n = int THEN s ELSE Absent, IF n = int THEN <<>> ELSE Absent, Absent)] :
           s \in JumpScripts \cup FailScripts \cup MixedScripts}
MCContents == Lookups \cup Runs
MCConfigSrc == <<int, ext>>
MCActions == {"printf"}

=============================================================================
