------------------------ MODULE MCAutonomySuggestions ------------------------
(* Three follow-ups of one user, of a type that starts as medium, and two  *)
(* cycles side by side.                                                    *)
EXTENDS AutonomySuggestions, TLC

CONSTANTS s1, s2, s3, c1, c2

MCType == [s \in {s1, s2, s3} |-> "follow_up"]
MCUser == [s \in {s1, s2, s3} |-> "ann"]
MCDefaultLevel == "follow_up" :> "medium"
Symmetry == Permutations({c1, c2}) \cup Permutations({s1, s2, s3})
=============================================================================
