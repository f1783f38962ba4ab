----------------------------- MODULE MCHostFiles -----------------------------
(* Three paths, two of them in the default include list and the third a      *)
(* directory outside of it; what the server writes has the size of what it   *)
(* replaces or another one; releases that are ordered by their second        *)
(* number, and a later one whose executable reports another version.         *)
EXTENDS HostJobs, TLC

CONSTANTS c1, c2, c3, pkg, other

MCSize == (c1 :> 1) @@ (c2 :> 1) @@ (c3 :> 2) @@ (pkg :> 2) @@ (other :> 1)
MCRunning == (1 :> c1) @@ (2 :> c1) @@ (3 :> c1)
MCReleases == {<<1, 9>>, <<1, 10>>, <<2>>}
MCMispacked == {<<2>>}
MCVersion == <<1, 9>>

(* The order of the releases, from the first to the last.                    *)
Later == {<<<<0, 12>>, v>> : v \in {<<1, 9>>, <<1, 10>>, <<2>>}}
         \cup {<<<<1, 9>>, <<1, 10>>>>, <<<<1, 9>>, <<2>>>>, <<<<1, 10>>, <<2>>>>}
ASSUME ReleasesInOrder == \A v, w \in MCReleases \cup {<<0, 12>>} : IsNewer(w, v) <=> <<v, w>> \in Later
=============================================================================
