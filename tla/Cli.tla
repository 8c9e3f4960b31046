--------------------------------- MODULE Cli ---------------------------------
(***************************************************************************)
(* One run of the console script (src/adsearch/cli.py): parse the command  *)
(* line, read the configuration, do one operation of an LDAPSearch inside  *)
(* a with block, render the result and exit with a code; or report the one *)
(* exception that ended it.  The operation is Session's, step by step.     *)
(*                                                                         *)
(* argparse and the interpreter are external.  A KeyboardInterrupt may     *)
(* arrive between any two steps before the output, except while a session  *)
(* is being unbound.  The interpreter's filters for warnings are those it  *)
(* starts with, which show a UserWarning.                                  *)
(***************************************************************************)
EXTENDS Session, Config

CONSTANTS Commands,  \* the commands a user may type; NoCommand is none
          NoCommand,
          Envs       \* the environments the script may run in

ASSUME CliAssumption ==
    /\ Commands \subseteq {"server-info", "employee", "manager", "cost-center",
                           "group", "describe", "resolve-dn", NoCommand}
    /\ Envs \subseteq Env

VARIABLES phase,   \* where the run is
          argv,    \* what was typed: a command, and flags on either side of it
          env,     \* the environment
          args,    \* the namespace parse_args returned
          config,  \* the configuration, once built
          raised,  \* the exception propagating out of dispatch, or "none"
          out,     \* what stdout got
          err,     \* what stderr got: any of Written
          code     \* the exit code, or NoCode

cliVars == <<phase, argv, env, args, config, raised, out, err, code>>
allVars == <<vars, cliVars>>

Flag == {"debug", "insecure"}
NoCode == 256
NoConfig == [server |-> "empty"]

\* The flags are accepted on either side of the subcommand; a subcommand that
\* is not there has no side after it.
Argv == {a \in [command : Commands, before : SUBSET Flag, after : SUBSET Flag] :
           a.command = NoCommand => a.after = {}}

\* The operations each subcommand may call, as its options select.
OperationsOf(command) ==
    CASE command = "server-info"                -> {"server_info"}
      [] command \in {"employee", "cost-center"} -> {"find_users"}
      [] command = "manager"    -> {"direct_reports", "reporting_tree"}
      [] command = "group"      -> {"by_group", "by_group_dn"}
      [] command = "describe"   -> {"describe_user"}
      [] command = "resolve-dn" -> {"resolve_user_dn", "resolve_group_dn",
                                    "resolve_group_dn_by_dn"}

\* The subcommands that take attribute names, and so may get a malformed one.
TakesAttributes == {"employee", "manager", "cost-center", "group"}

\* What may be written to stderr: argparse's usage or the help, the warning of
\* an LDAPConfig, a traceback, and the message of report_failure, which names
\* the exception.
Messages == Raisable \ {"none"}
Written == {"usage", "help", "warning", "traceback"} \cup Messages

CliTypeOK ==
    /\ TypeOK
    /\ phase \in {"parsing", "configuring", "opening", "entered", "working",
                  "leaving", "rendering", "failed", "exited"}
    /\ argv \in Argv
    /\ env \in Envs
    /\ args \in [Flag -> BOOLEAN]
    /\ config = NoConfig \/ Valid(config)
    /\ raised \in Raisable
    /\ out \in {"nothing", "results", "help"}
    /\ err \subseteq Written
    /\ code \in {0, 1, 2, 3, 4, 5, 6, 7, 130, NoCode}

CliInit ==
    /\ Init
    /\ phase = "parsing"
    /\ argv \in Argv
    /\ env \in Envs
    /\ args = [f \in Flag |-> FALSE]
    /\ config = NoConfig
    /\ raised = "none"
    /\ out = "nothing"
    /\ err = {}
    /\ code = NoCode

-----------------------------------------------------------------------------
(* The command line *)

Exits(c) == phase' = "exited" /\ code' = c
Writes(w) == err' = err \cup w

\* argparse refuses the command line, or prints the help that was asked for:
\* it leaves by SystemExit, outside the handler of main.
ParseExits ==
    /\ phase = "parsing"
    /\ \/ Exits(2) /\ Writes({"usage"}) /\ UNCHANGED out
       \/ Exits(0) /\ out' = "help" /\ UNCHANGED err
    /\ UNCHANGED <<vars, argv, env, args, config, raised>>

\* Mutant: the subcommand's own --debug and --insecure default to False.
SubNamespaceFalse(flags) == [f \in Flag |-> f \in flags]
\* What the subparser sets: with default=SUPPRESS, only the flags it met.
SubNamespace(flags) == [f \in flags |-> TRUE]

\* parse_args: the subparser's namespace overwrites the root parser's.
Parse ==
    /\ phase = "parsing"
    /\ args' = LET given == SubNamespace(argv.after)
               IN [f \in Flag |-> IF f \in DOMAIN given THEN given[f]
                                 ELSE f \in argv.before]
    /\ phase' = "configuring"
    /\ UNCHANGED <<vars, argv, env, config, raised, out, err, code>>

\* dispatch without a subcommand: the help goes to stderr.
NoSubcommand ==
    /\ phase = "configuring"
    /\ argv.command = NoCommand
    /\ Exits(2)
    /\ Writes({"help"})
    /\ UNCHANGED <<vars, argv, env, args, config, raised, out>>

-----------------------------------------------------------------------------
(* The configuration *)

\* build_config succeeds; the override makes a second LDAPConfig, which warns.
Configure ==
    /\ phase = "configuring"
    /\ argv.command # NoCommand
    /\ FromEnvSucceeds(env)
    /\ config' = Overridden(from_env(env), args["insecure"])
    /\ Writes(IF Warns(config') THEN {"warning"} ELSE {})
    /\ phase' = "opening"
    /\ UNCHANGED <<vars, argv, env, args, raised, out, code>>

\* build_config raises.
ConfigureFails ==
    /\ phase = "configuring"
    /\ argv.command # NoCommand
    /\ ~ FromEnvSucceeds(env)
    /\ raised' = "LDAPConfigError"
    /\ phase' = "failed"
    /\ UNCHANGED <<vars, argv, env, args, config, out, err, code>>

-----------------------------------------------------------------------------
(* The with block *)

EnterBlock ==
    /\ phase = "opening"
    /\ Enter
    /\ phase' = "entered"
    /\ UNCHANGED <<argv, env, args, config, raised, out, err, code>>

\* The one operation of the subcommand begins.
Begin ==
    /\ phase = "entered"
    /\ raised = "none"
    /\ \E op \in OperationsOf(argv.command) : Call(op)
    /\ bad' => argv.command \in TakesAttributes
    /\ phase' = "working"
    /\ UNCHANGED <<argv, env, args, config, raised, out, err, code>>

\* A step of the operation, of an unbind, or of the server.
Work ==
    /\ phase \in {"working", "leaving"}
    /\ CallStep \/ UnbindStep \/ SessionDrops
    /\ UNCHANGED cliVars

\* An exception e that is no ldap3 exception unwinds the body of the block:
\* past the finally clause of server_info, if its connection is open ...
Unwinds(e) ==
    /\ raised = "none"
    /\ cleanup = "none"
    /\ todo' = <<>>
    /\ IF scratch # None
       THEN InfoCleanUp(e) /\ UNCHANGED <<call, raised>>
       ELSE call' = "none" /\ raised' = e /\ UNCHANGED <<scratch, cleanupVars>>
    /\ UNCHANGED <<conn, serverVars, bad, used, error, cause, blockVars,
                   phase, argv, env, args, config, out, err, code>>

\* ... which raises it again, or what the unbind raised.
Unwound ==
    /\ cleanup = "info"
    /\ saved # "none"
    /\ CleanUpEnds
    /\ call' = "none"
    /\ raised' = Surfaces
    /\ UNCHANGED <<conn, scratch, serverVars, bad, todo, used, error, cause, blockVars,
                   phase, argv, env, args, config, out, err, code>>

\* The operation meets a defect of its own: an entry it cannot map, say.
Crash == phase = "working" /\ call # "none" /\ Unwinds("other")

\* The body of the block ends, by the result or by an exception of its
\* operation.
LeaveBlock ==
    /\ phase = "working" \/ (phase = "entered" /\ raised # "none")
    /\ Exit(IF raised = "none" THEN error ELSE raised)
    /\ phase' = "leaving"
    /\ UNCHANGED <<argv, env, args, config, raised, out, err, code>>

\* The with statement is left.
BlockLeft ==
    /\ phase = "leaving"
    /\ ExitEnds
    /\ raised' = escaped'
    /\ phase' = IF raised' = "none" THEN "rendering" ELSE "failed"
    /\ UNCHANGED <<argv, env, args, config, out, err, code>>

-----------------------------------------------------------------------------
(* The output *)

\* Mutant: the result is printed as it is rendered, and then rendering fails.
PartlyWritten == "results"
\* What a rendering that raises leaves on stdout.
WrittenByFailure == "nothing"

\* The result is rendered, then printed, and the script succeeds.
PrintResults ==
    /\ phase = "rendering"
    /\ out' = "results"
    /\ Exits(0)
    /\ UNCHANGED <<vars, argv, env, args, config, raised, err>>

\* Rendering raises: a value no encoder or no output encoding takes.
RenderFails ==
    /\ phase = "rendering"
    /\ raised' = "other"
    /\ out' = WrittenByFailure
    /\ phase' = "failed"
    /\ UNCHANGED <<vars, argv, env, args, config, err, code>>

\* Mutant: the base class has a code, and it is looked up first.
exit_code_for_base(e) == 1
\* The exit code of an exception.
exit_code_for(e) ==
    CASE e = "LDAPConfigError"     -> 3
      [] e = "LDAPAuthError"       -> 4
      [] e = "LDAPConnectionError" -> 5
      [] e = "LDAPQueryError"      -> 6
      [] e = "NotFoundError"       -> 7
      [] OTHER                     -> 1

\* Mutant: the handler of main catches BaseException.
HandlesAnything(e) == TRUE
\* What the handler of main catches: a KeyboardInterrupt is no Exception.
Handles(e) == e # "interrupt"

\* report_failure: a traceback for who asked, and one message on stderr.
ReportFailure ==
    /\ phase = "failed"
    /\ Handles(raised)
    /\ Writes({raised} \cup IF args["debug"] THEN {"traceback"} ELSE {})
    /\ Exits(exit_code_for(raised))
    /\ UNCHANGED <<vars, argv, env, args, config, raised, out>>

\* The interpreter prints the traceback of an interrupt that nobody caught, and
\* ends the process.
DieInterrupted ==
    /\ phase = "failed"
    /\ ~ Handles(raised)
    /\ Writes({"traceback"})
    /\ Exits(130)
    /\ UNCHANGED <<vars, argv, env, args, config, raised, out>>

\* Ctrl-C, outside the with block or inside it.
Interrupt ==
    \/ /\ phase \in {"configuring", "opening", "rendering"}
       /\ raised' = "interrupt"
       /\ phase' = "failed"
       /\ UNCHANGED <<vars, argv, env, args, config, out, err, code>>
    \/ phase = "entered" /\ Unwinds("interrupt")
    \/ phase = "working" /\ call # "none" /\ Unwinds("interrupt")

CliStep == \/ ParseExits \/ Parse \/ NoSubcommand
           \/ Configure \/ ConfigureFails
           \/ EnterBlock \/ Begin \/ Work \/ Crash \/ Unwound \/ LeaveBlock \/ BlockLeft
           \/ PrintResults \/ RenderFails \/ ReportFailure \/ DieInterrupted

CliNext == CliStep \/ Interrupt

CliSpec == CliInit /\ [][CliNext]_allVars

-----------------------------------------------------------------------------
Asked(flag) == flag \in argv.before \cup argv.after

\* Results or nothing: a run that exits 0 has written its output and nothing on
\* stderr but the warning that --insecure asks for; a run that failed has left
\* stdout clean and said on stderr what happened, once.
ResultsOrNothing ==
    /\ code = 0 => out # "nothing" /\ err \subseteq {"warning"}
    /\ code \in 1..7 =>
         out = "nothing" /\ Cardinality(err \ {"warning", "traceback"}) = 1

\* The connection is released before anything is written: once the block is
\* behind, whatever ended it, no session of the run is left with the server.
ReleasedBeforeOutput ==
    phase \in {"rendering", "failed", "exited"} => Sessions = released

\* The exit code names the fault (DESIGN.md 6.4): a rejected bind, a network
\* failure, a refused query, a name that resolves to nothing and a
\* configuration error are told apart by the code alone; and a run that was
\* misused or misconfigured has bound nothing.
CodeTellsFault ==
    phase = "exited" =>
        /\ code = 4 <=> cause \in {"rejected", "password"}
        /\ cause \in {"socket", "timeout", "tls"} => code = 5
        /\ cause \in {"filter", "sizelimit"} => code = 6
        /\ code \in {5, 6} /\ cause = "none" => bad
        /\ code = 7 => cause = "none" /\ opened > 0
        /\ code \in {2, 3} => opened = 0 /\ config = NoConfig

\* Ctrl-C is not reported as a failure of the tool (DESIGN.md 10): no message
\* of report_failure, and none of the tool's codes.  What stderr has is the
\* interpreter's traceback, after the warning of --insecure if it was reached.
InterruptIsNoFailure ==
    raised = "interrupt" /\ phase = "exited" =>
        /\ code \notin 0..7
        /\ out = "nothing"
        /\ "traceback" \in err /\ err \subseteq {"traceback", "warning"}

\* --debug and --insecure mean the same on either side of the subcommand: a
\* failure shows its traceback exactly to who asked for it, and a session is
\* opened without validating the certificate only for who asked for that, and
\* was warned; no override and no flag lets a password onto a session without
\* SSL.
FlagsHonoured ==
    /\ code \in {1} \cup 3..7 => ("traceback" \in err <=> Asked("debug"))
    /\ opened > 0 =>
         LET connection == open_connection(config)
         IN /\ connection.server.validate =
                 IF Asked("insecure") THEN "CERT_NONE" ELSE "CERT_REQUIRED"
            /\ connection.server.validate = "CERT_NONE" <=> "warning" \in err
            /\ connection.password # "absent" => connection.server.use_ssl
=============================================================================
