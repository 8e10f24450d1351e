---------------------------- MODULE MCGovernors ----------------------------
(* Two origins, file and http capabilities with a look-alike sibling, two    *)
(* path rules and two links.  Every path of up to three characters over two  *)
(* letters and the slash is tried on every glob.                             *)
EXTENDS Governors

MCPrefixes == {<<"cap", "fs">>, <<"cap", "http">>}

\* A glob of which the matcher is exact, and one with a slash behind a `**' and
\* a single `*', of which it finds all it should and more.
MCGlobs == {<<"?", "*", "*", "b">>, <<"*", "*", "/", "*">>}

MCHostPats == {[wild |-> TRUE, labels |-> <<"example", "org">>]}

MCPaths == UNION {[1 .. n -> {"a", "b", "/"}] : n \in 0 .. 3}

Url(scheme) == [host |-> <<"www", "example", "org">>, scheme |-> scheme, tail |-> TRUE]

MCAsked ==
    [origin : Origins, url : {NoArg}, path : {NoArg, <<"a", "b">>},
     cap : {<<"cap", "fs", "read">>, <<"cap", "fsx">>}]
    \cup
    [origin : Origins, path : {NoArg}, url : {NoArg} \cup {Url(s) : s \in BOOLEAN},
     cap : {<<"cap", "http", "get">>}]

OriginSymmetry == Permutations(Origins)
=============================================================================
