------------------------------- MODULE MCScans -------------------------------
(* Instances of directories and limits for TLC. *)
EXTENDS ScansProperties

\* full pages; an empty one in the middle; short ones; larger ones than were asked for, or
\* than one call inspects; more pages than one call reads
MCDirectories == {<<2, 4, 5>>, <<1, 3, 3, 4>>, <<4, 6>>, <<7>>, <<0, 7>>, <<2, 4, 6, 7>>, <<0>>}
\* all of them, none, the first two, or all but these
MCDisabled(S) == UNION {{FirstOf(n, S), S \ FirstOf(n, S)} : n \in {0, 2}}
MCLimits == {0, 9}
=============================================================================
