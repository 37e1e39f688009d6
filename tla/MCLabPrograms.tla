---------------------------- MODULE MCLabPrograms -----------------------------
(* A small instance of LabPrograms: the messages of the four stream programs *)
(* and the sizes of answers and reads; what 3.txt holds before it is written *)
(* (0 is no letter); the directory tree that is walked and the arguments of  *)
(* ftw; the cfg file fixes the other bounds.                                 *)
EXTENDS LabPrograms

MCMessage == [lockstep |-> <<2, 1, 2>>, race |-> <<2, 2, 2>>,
              pipe |-> <<6, 10>>, signal |-> <<5, 11>>]
MCReply == [lockstep |-> 10, race |-> 4]
MCAnswerRead == [lockstep |-> 3, race |-> 4]

MCOldFiles == {<<>>, <<5, 0>>, <<0, 5, 6, 1, 0>>}

(* r/a/{f, b/{g, c/h}}; the program starts in a.                             *)
MCParentOf == [r |-> "r", a |-> "r", f |-> "a", b |-> "a", g |-> "b", c |-> "b", h |-> "c"]
MCAbove == [r |-> {"r"}, a |-> {"r", "a"}, f |-> {"r", "a", "f"}, b |-> {"r", "a", "b"},
            g |-> {"r", "a", "b", "g"}, c |-> {"r", "a", "b", "c"}, h |-> {"r", "a", "b", "c", "h"}]
Relative(steps) == [absolute |-> FALSE, steps |-> steps]
MCArguments ==
  {Relative(<<"b">>), Relative(<<"f">>), Relative(<<"m">>), Relative(<<".">>),
   Relative(<<"..">>), Relative(<<"b", "c">>), [absolute |-> TRUE, steps |-> <<"a">>]}
=============================================================================
