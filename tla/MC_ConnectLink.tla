--------------------------- MODULE MC_ConnectLink ---------------------------
(* Two links for one provider and a URL of another one, two consents that   *)
(* may both be for one link, and two visits of the callback at a time.      *)
EXTENDS ConnectLink, TLC

CONSTANTS l1, l2, gmail, calendar, a1, a2, v1, v2

MCLinks == {l1, l2}
MCProviders == {gmail, calendar}
MCProviderOf == [l \in {l1, l2} |-> gmail]
MCConsents == {a1, a2}
MCVisits == {v1, v2}
MCSymmetry == Permutations({l1, l2}) \cup Permutations({a1, a2}) \cup Permutations({v1, v2})
=============================================================================
