----------------------------- MODULE MCWordPress -----------------------------
(* Two agents, one user, two identities; the plugin starts on a new site, on *)
(* settings of the version before the list, with one and with two paired     *)
(* nodes, on the options of the plugin's former name, and with added nodes   *)
(* none of which was ever made active.                                       *)
EXTENDS IdentityBinding

CONSTANTS a1, a2, u1, x1, x2

First(a) == <<a, 1>>
Options0(nodes, active, settings) ==
    [nodes |-> nodes, active |-> active, settings |-> settings, audit |-> <<>>,
     old |-> [nodes |-> <<>>, active |-> None]]
Paired(a) == Node(a, a, First(a))

Legacy   == Options0(<<>>, None, Settings(a1, First(a1), None))
OnePair  == Options0(<<Paired(a1)>>, a1, Settings(a1, First(a1), a1))
TwoPairs == Options0(<<Paired(a1), Paired(a2)>>, a2, Settings(a2, First(a2), a2))
New      == Options0(<<>>, None, Settings(None, None, None))
Renamed  == [New EXCEPT !.old = [nodes |-> <<Paired(a1), Paired(a2)>>, active |-> a2]]
RenamedPair == [OnePair EXCEPT !.old = [nodes |-> <<Paired(a2)>>, active |-> a2]]

MCSites == {New, Legacy, OnePair, TwoPairs, Renamed, RenamedPair}

(* Two nodes whose credentials were entered by hand and no active one.       *)
MCAdded == {Options0(<<Paired(a1), Paired(a2)>>, None, Settings(None, None, None))}
=============================================================================
