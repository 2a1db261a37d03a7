---------------------------- MODULE MCFlowParser ----------------------------
(***************************************************************************)
(* Flow files made of levels, modules a, ab (whose name holds that of a)   *)
(* and b, a module whose name begins like the keyword again, an empty line *)
(* and a module whose name holds "level".                                  *)
(***************************************************************************)
EXTENDS FlowParser

Named(tail) == ModuleWord \o tail

LevelLine == [text |-> LevelWord, kind |-> "level", name |-> <<>>, depends |-> <<>>]

Blank == [text |-> <<>>, kind |-> "other", name |-> <<>>, depends |-> <<>>]

ModuleLine(name, rest, depends_on) ==
  [text |-> name \o rest, kind |-> "module", name |-> name, depends |-> depends_on]

A == ModuleLine(Named(<<"a">>), <<>>, <<>>)

AB == ModuleLine(Named(<<"a", "b">>), <<" ", ">">> \o Named(<<"b">>), <<Named(<<"b">>)>>)

B == ModuleLine(Named(<<"b">>),
                <<">">> \o Named(<<"a">>) \o <<",">> \o Named(<<"a", "b">>),
                <<Named(<<"a">>), Named(<<"a", "b">>)>>)

Again == ModuleLine(Named(<<"mod">>), <<>>, <<>>)

LevelUp == [ModuleLine(Named(<<"level">>), <<>>, <<>>) EXCEPT !.kind = "other"]

MCLines == {LevelLine, Blank, A, AB, B, Again, LevelUp}

(* Every file of at most three lines but for B, and some longer ones.       *)
MCFiles ==
  UNION { [1..n -> MCLines \ {B}] : n \in 0..3 }
    \cup { <<LevelLine, AB, LevelLine, A>>, <<LevelLine, B, LevelLine, A>>,
           <<LevelLine, A, Blank, LevelLine, Again>> }
=============================================================================
