---------------------------- MODULE MCDeployment ----------------------------
(***************************************************************************)
(* An instance of Deployment for TLC: the app and the worker of                *)
(* docker-compose.yml and a second worker.                                  *)
(***************************************************************************)
EXTENDS Deployment

CONSTANTS app, worker, second

MCServices == {app, worker, second}
MCWeb == {app}

=============================================================================
