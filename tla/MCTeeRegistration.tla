-------------------------- MODULE MCTeeRegistration --------------------------
(* The command post-build.sh gives, and single steps of it (deployment-steps.md). *)
EXTENDS TeeRegistration

rRap == {"r", "R", "a", "p"}

SomeCommands == {rRap, {"R"}, {"a", "p"}}
OnlyRRap == {rRap}

ASSUME DocumentedCommands == PreRegistersFirst
=============================================================================
