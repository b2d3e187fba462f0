--------------------------- MODULE MCRegistration ---------------------------
(* An instance of Registration for TLC. *)
EXTENDS Registration

\* Every combination of use_fixed, use_quatro, a configured pose and its
\* preference.
AllModes == Mode

\* default.yaml with the poses of main_config.yaml.
DeployedMode == [fixed : {TRUE}, quatro : {TRUE}, config : {TRUE}, prefer : {TRUE}]
=============================================================================
