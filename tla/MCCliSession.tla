---------------------------- MODULE MCCliSession ----------------------------
(* Two processes on one session file; replies of none, one and two messages, *)
(* one of them blank.                                                        *)
EXTENDS CliSession, TLC
CONSTANTS a, b
MCReplies == {<<>>, <<"text">>, <<"text", "text">>, <<"text", "blank">>}
MCSymmetry == Permutations(Terminals)
=============================================================================
