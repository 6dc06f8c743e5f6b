------------------------------ MODULE MCSetup ------------------------------
(* Instances of Setup for TLC.                                             *)
EXTENDS Readiness

(* A development setup with a sandbox repository.                          *)
DevelopmentOnly == {[profile |-> "development", desired |-> {"github_repository"}]}

(* Development, and a production setup that prepares release and cutover.  *)
AllProfiles == DevelopmentOnly \cup {[profile |-> "production", desired |-> Inputs]}
=============================================================================
