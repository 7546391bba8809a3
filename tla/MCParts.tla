------------------------------ MODULE MCParts -------------------------------
(***************************************************************************)
(* The two parts that nothing interleaves with, side by side: a behaviour  *)
(* is one of HeapQueue or one of Wire, and leaves the other alone.         *)
(***************************************************************************)
EXTENDS HeapQueue, Wire, TLC

\* Every pair of the characters that escapes and line ends are made of, names
\* that must be escaped, bodies that look like frames, bodies of the largest size
\* and one more, and a command that is too long; then lengths that a caller
\* names, which build_frame sets right or leaves: right ones, wrong ones, and what
\* is no number.
Values == UNION {[1..n -> {"n", ":", "\\", "\n", "\r"}] : n \in 0..2}
MCFrames ==
  {[command |-> <<"S">>, headers |-> <<<<<<"a">>, v>>>>, body |-> <<>>] : v \in Values}
  \cup {[command |-> <<"S">>, headers |-> <<<<<<"a">>, <<>>>>, <<k, <<"b">>>>>>, body |-> b] :
          k \in {<<>>, <<":">>, <<"\\", "n">>}, b \in {<<NUL>>, <<"\n", "\n", "S", NUL>>}}
  \cup {[command |-> <<"S">>, headers |-> <<>>, body |-> [i \in 1..n |-> NUL]] :
          n \in {MaxFrameSize, MaxFrameSize + 1}}
  \cup {[command |-> [i \in 1..LineLimit + 1 |-> "S"], headers |-> <<>>, body |-> <<>>]}
  \cup {[command |-> <<"S", "b">>, headers |-> <<<<ContentLength, v>>, <<<<"a">>, w>>>>, body |-> b] :
          v \in {<<"0">>, <<"1">>, <<"b">>, <<"0", "\r">>},
          w \in {<<>>, <<"b", "\r", "\r", "\r">>}, b \in {<<>>, <<"S", "\n">>}}
MCDecimal == [n \in 0..MaxFrameSize + 1 |-> ToString(n)]
MCCharacters ==
  {"n", "c", ":", "\\", "\n", "\r", NUL, "content-length", "a", "b", "S"} \cup Range(MCDecimal)

VARIABLE part

PartsInit ==
  /\ Init /\ WireInit /\ part \in {"heap", "wire"}
  /\ part = "wire" => type = "FIFO" /\ prio = [m \in Messages |-> 0]

PartsNext ==
  \/ part = "heap" /\ Next /\ UNCHANGED <<part, wireVars>>
  \/ part = "wire" /\ WireNext /\ UNCHANGED <<part, vars>>

PartsSpec == PartsInit /\ [][PartsNext]_<<part, vars, wireVars>>
=============================================================================
