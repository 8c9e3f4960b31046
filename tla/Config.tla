-------------------------------- MODULE Config -------------------------------
(***************************************************************************)
(* LDAPConfig (src/adsearch/config.py) as far as a run of the script       *)
(* depends on it: what from_env makes of the environment, what             *)
(* __post_init__ refuses and warns of, and what the --insecure override    *)
(* changes.                                                                *)
(* A setting is "absent", "empty" or "set".                                *)
(***************************************************************************)

Setting == {"absent", "empty", "set"}
Env == [{"server", "base_dn", "bind_password"} -> Setting]

\* The fields that a check or a decision depends on.  from_env has no variable
\* for the last two, so they keep their defaults.
from_env(env) == [server        |-> env["server"],
                  base_dn       |-> env["base_dn"],
                  bind_password |-> env["bind_password"],
                  use_ssl       |-> TRUE,
                  validate_cert |-> TRUE]

\* What __post_init__ accepts.  An empty password counts as one.
Valid(config) ==
    /\ config.server = "set"
    /\ config.base_dn = "set"
    /\ config.bind_password = "absent" \/ config.use_ssl

\* What __post_init__ then warns of.
Warns(config) == ~ config.validate_cert

\* Mutant: an empty variable counts as a setting.
FromEnvUnchecked(env) == env["server"] # "absent" /\ env["base_dn"] # "absent"
\* from_env returns: the two required variables are there, and __post_init__
\* accepts the result.
FromEnvSucceeds(env) ==
    /\ env["server"] # "absent" /\ env["base_dn"] # "absent"
    /\ Valid(from_env(env))

\* build_config's override: dataclasses.replace with validate_cert=False.
Overridden(config, insecure) ==
    IF insecure THEN [config EXCEPT !.validate_cert = FALSE] ELSE config

\* search.py's build_server, as far as the settings above decide it.
build_server(config) ==
    [validate |-> IF config.validate_cert THEN "CERT_REQUIRED" ELSE "CERT_NONE",
     use_ssl  |-> config.use_ssl]

\* The connection that open_connection makes of a configuration; the schema
\* connection differs only in what it asks the server about itself.
open_connection(config) ==
    [server |-> build_server(config), password |-> config.bind_password]
=============================================================================
