---------------------------- MODULE MCDeployLog ----------------------------
(* Instances of DeployLog for TLC.                                          *)
EXTENDS DeployLog
CONSTANTS c1, c2

OneClient == {c1}
TwoClients == {c1, c2}
NoClient == {}
SecondClient == {c2}
TwoSizes == {1, 3}
OneSize == {1}

=============================================================================
