-------------------------------- MODULE MCCli --------------------------------
(***************************************************************************)
(* A small instance of Cli for TLC.                                        *)
(***************************************************************************)
EXTENDS Cli

\* Every subcommand, with what each may call; cost-center calls what employee
\* does, and is left out.
MCCommands == {"server-info", "employee", "manager", "group", "describe",
               "resolve-dn", NoCommand}

\* The required settings in every combination, with and without a password.
MCEnvs == {e \in Env : e["bind_password"] # "empty"}
=============================================================================
