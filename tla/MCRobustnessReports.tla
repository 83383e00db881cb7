------------------------ MODULE MCRobustnessReports ------------------------
(* Two specifications, three result files and the scores of four samples for TLC. *)
EXTENDS RobustnessReports, TLC

\* The length is listed twice, and the run has the same configuration and length.
MCCliSpec ==
    [detector |-> "kgw-reference", config |-> 1, lengths |-> <<1, 1>>, samples |-> 2,
     seed |-> 0, transforms |-> <<"identity", "lowercase">>, profile |-> None]
\* --profile casing, as README.md:508 has a profile: identity is in none of them.
MCCliProfileSpec == [MCCliSpec EXCEPT !.transforms = <<>>, !.profile = "casing"]
MCRunSpec ==
    [detector |-> "kgw-reference", config |-> 1, lengths |-> <<1>>, samples |-> 1,
     seed |-> 0, transforms |-> <<>>, profile |-> "casing"]

MCProfiles == [casing |-> <<"lowercase", "uppercase">>]
MCBaseline == <<"identity", "lowercase", "uppercase">>
MCCategoryOf == [identity |-> "baseline", lowercase |-> "casing", uppercase |-> "casing"]
MCStatLengths == <<1, 2>>
MCThresholds == <<1, 0, 2>>
MCCliVerdicts == {TRUE, FALSE}
MCRunVerdicts == {TRUE, FALSE, None}
MCScores == {None, 1, 2}
=============================================================================
