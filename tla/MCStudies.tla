----------------------------- MODULE MCStudies -----------------------------
(* A finite instance of Studies.                                            *)
EXTENDS Studies, TLC

CONSTANTS u1, u1b, u2, u3, ux, a, b, c1, c2, i1, i2, i3, i4, n1, n2, n3, k1, k2

\* Two hosts, four pages and one spelled in two ways, one of them disallowed.
TwoHosts == <<a, b>>
Collapse == u1 :> u1 @@ u1b :> u1 @@ u2 :> u2 @@ u3 :> u3 @@ ux :> ux
FiveUrls == DOMAIN Collapse
OnHost == u1 :> a @@ u2 :> a @@ u3 :> b @@ ux :> b
OneDisallowed == {ux}

\* Files that share chunks, one of them with a chunk twice.
SharedChunks == {<<c1>>, <<c1, c2>>, <<c2, c2>>}

\* Clicks of three windows.
ClickTimes == i1 :> 0 @@ i2 :> 1 @@ i3 :> 2 @@ i4 :> 5
FourClicks == DOMAIN ClickTimes

\* Two nodes at two positions and one at one.
OnRing == n1 :> {1, 7} @@ n2 :> {3, 9} @@ n3 :> {5}
KeyHash == k1 :> 4 @@ k2 :> 9

Symm == Permutations(Handlers) \cup Permutations(Servers) \cup Permutations(Urls)
=============================================================================
