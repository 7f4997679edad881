---------------------------- MODULE MCGuildRosters ----------------------------
(* Values of GuildRosters' constants for TLC.                              *)
EXTENDS GuildRosters

CONSTANTS ga, gb, c1, c2

OwnId == [g \in Guild |-> g]

Founded == {s \in Sites : s[ga] # Nobody}

\* gb is founded later
FoundedFirst == {s \in Founded : \A g \in Guild \ {ga} : s[g] = Nobody}
=============================================================================
