----------------------------- MODULE Governors -----------------------------
(***************************************************************************)
(* The governors of pan-core/src/pipeline.rs and their composition.        *)
(* A deployment builds its policy with grant, allow_path, deny_path,       *)
(* allow_hosts and PolicyChain::push, in any order and number; the state   *)
(* here is what has been built so far, and Verdict(r) is what the chain    *)
(* answers to a request.  Modules Pipeline and RunSpan take a verdict as   *)
(* given.                                                                  *)
(*                                                                         *)
(* Dotted ids and host names are sequences of their parts, so that "a      *)
(* dotted descendant" is a sequence with a given prefix; a path and a glob *)
(* are sequences of characters, because matching is defined on them.  The  *)
(* reasons of a Deny are left out.  No governor here answers               *)
(* RequireApproval.                                                        *)
(***************************************************************************)
EXTENDS Naturals, Sequences, SequencesExt

CONSTANTS
    Origins,    \* Scope::origin of requests
    CapPrefixes,   \* capability prefixes that grants and rules name
    Globs,      \* path globs that rules name
    HostPats,   \* host patterns: [wild, labels]
    Asked,      \* the requests: [origin, cap, path, url]; path and url may be NoArg
    Paths,      \* the paths on which globs are compared with their meaning
    NoArg,      \* the argument is not there
    MaxRules,   \* bound: path rules
    MaxLinks    \* bound: links of the chain

\* Ids and host names are sequences of parts; a listed host has at least one.
\* A part of a path to compare globs on is another one: Paths may be every
\* text, Seq(STRING), or every short one.
ASSUME PolicyConstants ==
    /\ MaxRules \in Nat /\ MaxLinks \in Nat
    /\ CapPrefixes \subseteq Seq(STRING)
    /\ Globs \subseteq Seq(STRING) /\ Paths \subseteq Seq(STRING) /\ << >> \in Paths
    /\ \A x \in Paths : \A i \in 1 .. Len(x) + 1, j \in 0 .. Len(x) : SubSeq(x, i, j) \in Paths
    /\ \A p \in HostPats : p.wild \in BOOLEAN /\ p.labels \in Seq(STRING) \ {<< >>}
    /\ \A r \in Asked :
          /\ r.origin \in Origins /\ r.cap \in Seq(STRING)
          /\ r.url = NoArg \/ r.url.host \in Seq(STRING)

VARIABLES
    grants,     \* ScopedGovernor::grants
    rules,      \* PathGovernor::rules
    hosts,      \* HostAllowlistGovernor::allow_hosts
    chain       \* PolicyChain::governors, by kind

policyVars == <<grants, rules, hosts, chain>>

\* The governors a chain is made of: a ScopedGovernor, a PathGovernor around
\* AllowAll, and a HostAllowlistGovernor around a PathGovernor around
\* the ScopedGovernor.
Kinds == {"scoped", "path", "hostPathScoped"}

Rule == [prefix : CapPrefixes, glob : Globs, allowed : BOOLEAN]

-----------------------------------------------------------------------------
(* Matching.                                                               *)

\* Mutant of PrefixMatches: the test for the dot is forgotten, so that a
\* sibling whose last part merely begins alike matches too.
PrefixMatchesText(prefix, cap) ==
    Len(prefix) <= Len(cap) /\ IsPrefix(Front(prefix), cap)

\* ScopedGovernor::prefix_matches and PathGovernor::prefix_matches.
PrefixMatches(prefix, cap) == IsPrefix(prefix, cap)

\* The calls glob_match_rec(pat, pth, pi, si) that answer true, as the set of
\* their si (indices from 1); matched[p] is that set for a later p.  A `*' goes
\* on at the end of the path or at any character but a slash.
GlobMatchFrom(pat, pth, matched, pi) ==
    LET is(i, c) == i <= Len(pat) /\ pat[i] = c
        slash(s) == s <= Len(pth) /\ pth[s] = "/"
        pair == is(pi, "*") /\ is(pi + 1, "*")
        goesOn == matched[pi + (IF ~pair THEN 1 ELSE IF is(pi + 2, "/") THEN 3 ELSE 2)]
    IN  IF pi > Len(pat) THEN {Len(pth) + 1}
        ELSE IF pair THEN {si \in 1 .. Len(pth) + 1 : \E s \in goesOn : si <= s}
        ELSE IF pat[pi] = "*"
        THEN {si \in 1 .. Len(pth) + 1 : \E s \in goesOn : si <= s /\ ~slash(s)}
        ELSE {si \in 1 .. Len(pth) :
                 /\ IF pat[pi] = "?" THEN ~slash(si) ELSE pth[si] = pat[pi]
                 /\ si + 1 \in goesOn}

\* glob_match_rec for every position of the glob.
GlobMatchRec(pat, pth) ==
    LET matched[pi \in 1 .. Len(pat) + 1] == GlobMatchFrom(pat, pth, matched, pi)
    IN  matched

\* Mutant of GlobMatch: the path may go on after the glob.
GlobMatchPrefix(pat, pth) ==
    \E n \in 0 .. Len(pth) : 1 \in GlobMatchRec(pat, SubSeq(pth, 1, n))[1]

\* glob_match_simple
GlobMatch(pat, pth) == 1 \in GlobMatchRec(pat, pth)[1]

\* HostAllowlistGovernor::host_matches: *.example.com is example.com and below.
HostMatches(pat, host) ==
    IF pat.wild THEN IsSuffix(pat.labels, host) ELSE host = pat.labels

\* extract_host: without a scheme the whole text of the url counts as host,
\* its path included.
ExtractHost(url) ==
    IF url.scheme \/ ~url.tail THEN url.host ELSE Append(url.host, "/")

-----------------------------------------------------------------------------
(* Judging.                                                                *)

\* ScopedGovernor::govern; an origin without an entry is denied everything.
ScopedVerdict(r) ==
    IF \E p \in grants[r.origin] : PrefixMatches(p, r.cap) THEN "Allow" ELSE "Deny"

\* The rules that speak of r, by position.
Speaking(r) ==
    {i \in 1 .. Len(rules) :
        PrefixMatches(rules[i].prefix, r.cap) /\ GlobMatch(rules[i].glob, r.path)}

FirstSpeaking(r) ==
    LET speaking == Speaking(r) IN CHOOSE i \in speaking : \A j \in speaking : i <= j

\* Mutant of PathVerdict: an allow rule answers at once.
PathVerdictAllows(r, inner) ==
    IF r.path = NoArg \/ Speaking(r) = {} THEN inner
    ELSE IF rules[FirstSpeaking(r)].allowed THEN "Allow" ELSE "Deny"

\* PathGovernor::govern: the first rule that matches decides; an allow rule
\* only skips the remaining rules, the inner governor is still asked.
PathVerdict(r, inner) ==
    IF r.path = NoArg \/ Speaking(r) = {} THEN inner
    ELSE IF rules[FirstSpeaking(r)].allowed THEN inner ELSE "Deny"

\* capability.starts_with("cap.http.")
IsHttp(cap) == Len(cap) > 2 /\ IsPrefix(<<"cap", "http">>, cap)

\* Hosts are checked once any origin has an entry.
HostsConfigured == \E o \in Origins : hosts[o] # NoArg

\* args.get("url"), or the empty text.
HostOf(r) == IF r.url = NoArg THEN << >> ELSE ExtractHost(r.url)

HostListed(r) ==
    hosts[r.origin] # NoArg /\ \E p \in hosts[r.origin] : HostMatches(p, HostOf(r))

\* HostAllowlistGovernor::govern
HostVerdict(r, inner) ==
    IF inner = "Allow" /\ IsHttp(r.cap) /\ HostsConfigured /\ ~HostListed(r)
    THEN "Deny" ELSE inner

KindVerdict(kind, r) ==
    CASE kind = "scoped" -> ScopedVerdict(r)
      [] kind = "path" -> PathVerdict(r, "Allow")
      [] kind = "hostPathScoped" -> HostVerdict(r, PathVerdict(r, ScopedVerdict(r)))

\* PolicyChain::govern: the first verdict that is not Allow, else Allow.
Verdict(r) ==
    IF \E i \in 1 .. Len(chain) : KindVerdict(chain[i], r) # "Allow"
    THEN "Deny" ELSE "Allow"

-----------------------------------------------------------------------------
(* Building.                                                               *)

PolicyInit ==
    /\ grants = [o \in Origins |-> {}]
    /\ rules = << >>
    /\ hosts = [o \in Origins |-> NoArg]
    /\ chain = << >>

\* ScopedGovernor::grant replaces what the origin had.
Grant(o, ps) ==
    /\ grants' = [grants EXCEPT ![o] = ps]
    /\ UNCHANGED <<rules, hosts, chain>>

\* PathGovernor::allow_path and deny_path
AddRule(p, g, allowed) ==
    /\ Len(rules) < MaxRules
    /\ rules' = Append(rules, [prefix |-> p, glob |-> g, allowed |-> allowed])
    /\ UNCHANGED <<grants, hosts, chain>>

AllowPath(p, g) == AddRule(p, g, TRUE)
DenyPath(p, g) == AddRule(p, g, FALSE)

\* HostAllowlistGovernor::allow_hosts
AllowHosts(o, hs) ==
    /\ hosts' = [hosts EXCEPT ![o] = hs]
    /\ UNCHANGED <<grants, rules, chain>>

\* PolicyChain::push
Push(kind) ==
    /\ Len(chain) < MaxLinks
    /\ chain' = Append(chain, kind)
    /\ UNCHANGED <<grants, rules, hosts>>

PolicyNext ==
    \/ \E o \in Origins, ps \in SUBSET CapPrefixes : Grant(o, ps)
    \/ \E p \in CapPrefixes, g \in Globs : AllowPath(p, g)
    \/ \E p \in CapPrefixes, g \in Globs : DenyPath(p, g)
    \/ \E o \in Origins, hs \in SUBSET HostPats : AllowHosts(o, hs)
    \/ \E k \in Kinds : Push(k)

PolicySpec == PolicyInit /\ [][PolicyNext]_policyVars

-----------------------------------------------------------------------------
(* Properties.                                                             *)

\* The tables of the three governors and the chain keep their types.
PolicyTypeOK ==
    /\ grants \in [Origins -> SUBSET CapPrefixes]
    /\ rules \in Seq(Rule) /\ Len(rules) <= MaxRules
    /\ hosts \in [Origins -> (SUBSET HostPats) \cup {NoArg}]
    /\ chain \in Seq(Kinds) /\ Len(chain) <= MaxLinks

\* "An origin with no grant entry is denied everything" (pipeline.rs:168-169):
\* in a chain that contains a ScopedGovernor, alone or wrapped, whatever else
\* is in it, only what the origin was granted, or a dotted descendant of it,
\* is allowed.  And once any origin has a host list, an http request goes
\* through a HostAllowlistGovernor only to a host on its own origin's list
\* (pipeline.rs:548-563): an origin that was forgotten gets nothing.
OnlyGranted ==
    \A r \in Asked : Verdict(r) = "Allow" =>
        /\ (\E i \in 1 .. Len(chain) : chain[i] \in {"scoped", "hostPathScoped"})
           => \E p \in grants[r.origin], n \in 0 .. Len(r.cap) : p = SubSeq(r.cap, 1, n)
        /\ IsHttp(r.cap) /\ HostsConfigured /\ "hostPathScoped" \in Range(chain)
           => /\ hosts[r.origin] # NoArg /\ r.url # NoArg
              /\ \E p \in hosts[r.origin] : IsSuffix(p.labels, ExtractHost(r.url))

\* "Earlier governors have first chance to deny" (pipeline.rs:409-410), and a
\* wrapper is no way round what it wraps: another link, and another path rule
\* of either sort, never turn a refusal into an Allow.
RulesAndLinksNarrow ==
    [][grants' = grants /\ hosts' = hosts
         => \A r \in Asked : Verdict(r)' = "Allow" => Verdict(r) = "Allow"]_policyVars

\* The paths made of a path of xs and a path of ys.
Concats(xs, ys) == {x \o y : x \in xs, y \in ys} \cap Paths

Star(pat, i) == i \in DOMAIN pat /\ pat[i] = "*"

\* What a glob denotes from its position n on, given what it denotes from the
\* later ones, as the comment on glob_match_simple has it: "`*' (any chars
\* except `/') and `**' (any chars including `/')" (pipeline.rs:333-334), and
\* every other character itself.  Of `?' it says nothing; it is taken for one
\* character but a slash.
Meaning(pat, denoted, n) ==
    LET any == Paths
        segment == {x \in Paths : \A i \in 1 .. Len(x) : x[i] # "/"}
        then(xs, k) == Concats(xs, denoted[n + k])
    IN  IF n > Len(pat) THEN {<< >>}
        ELSE IF Star(pat, n) /\ Star(pat, n + 1) THEN then(any, 2)
        ELSE IF Star(pat, n) THEN then(segment, 1)
        ELSE IF pat[n] = "?" THEN then({x \in segment : Len(x) = 1}, 1)
        ELSE then({<<pat[n]>>}, 1)

\* The meanings of a glob and of each of its ends.
Meanings(pat) ==
    LET denoted[n \in 1 .. Len(pat) + 1] == Meaning(pat, denoted, n)
    IN  denoted

\* The paths a glob denotes.
Denotes(pat) == Meanings(pat)[1]

\* A `*' that is not part of a `**', and any `*' with a slash behind it.
Single(pat, i) == Star(pat, i) /\ ~Star(pat, i - 1) /\ ~Star(pat, i + 1)
BeforeSlash(pat, i) == Star(pat, i) /\ i + 1 \in DOMAIN pat /\ pat[i + 1] = "/"

\* Three stars in a row are left out: nothing says what they mean.
Legible(pat) == ~\E i \in DOMAIN pat : Star(pat, i) /\ Star(pat, i + 1) /\ Star(pat, i + 2)

\* A rule speaks of every path that its glob denotes by that comment, unless
\* a single `*' is followed by a slash; and of no other path, unless the glob
\* has a single `*', which runs on past slashes, or a slash behind a `**',
\* which need not be there.  What is left out is where code and comment part.
GlobsAsDocumented ==
    \A i \in 1 .. Len(rules) :
        LET g == rules[i].glob
            matched == {x \in Paths : GlobMatch(g, x)}
        IN  Legible(g) =>
              /\ (\A k \in DOMAIN g : ~(Single(g, k) /\ BeforeSlash(g, k)))
                 => Denotes(g) \subseteq matched
              /\ (\A k \in DOMAIN g : ~Single(g, k) /\ ~BeforeSlash(g, k))
                 => matched \subseteq Denotes(g)

=============================================================================
