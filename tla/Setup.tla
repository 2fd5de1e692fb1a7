------------------------------- MODULE Setup --------------------------------
(***************************************************************************)
(* From the command line and the TOML file to the executor and the number  *)
(* of iterations of a campaign: config.rs with the first part of main.rs.  *)
(*                                                                         *)
(* A setting passes through four hands, each with defaults of its own: the *)
(* derived deserialisation, the Default implementations, the overrides of  *)
(* the command line and the code that builds the executor.  A table or a   *)
(* field that may be left out is a set of at most one value.               *)
(*                                                                         *)
(* Faulty... definitions are mistakes the properties must notice.          *)
(***************************************************************************)
EXTENDS Naturals, Sequences

CONSTANTS
  Programs,              \* words of a command
  Arguments,             \* bound: argument lists of a command
  Timeouts,              \* bound: timeouts written in a file, milliseconds
  Iterations,            \* bound: iteration counts written in a file or given
  Keys                   \* harness keys written in a file

ASSUME ConstantsAssumption ==
  /\ Programs \subseteq STRING
  /\ Arguments \subseteq Seq(STRING)
  /\ Timeouts \subseteq Nat
  /\ Iterations \subseteq Nat

VARIABLES
  pc,                    \* the step main is at
  cli,                   \* command line: iterations and target command
  file,                  \* the TOML file, if there is one
  config,                \* drifter_config
  campaign               \* the executor and the iterations that came of it

vars == <<pc, cli, file, config, campaign>>

Optional(S) == {{}} \cup {{x} : x \in S}
Or(option, default) == IF option = {} THEN default ELSE CHOOSE x \in option : TRUE
The(option) == CHOOSE x \in option : TRUE

\* What a file may say of the delivery; kebab-case renames the variants of
\* ConfigInputDelivery, so the parser takes two of the three.
Deliveries == {"std-in", "file", "StdIn"}
Parseable  == {"std-in", "file"}

Commands == {<<>>} \cup {<<p>> \o args : p \in Programs, args \in Arguments}
Tables ==
  [fuzzer   : Optional([max_iterations : Optional(Iterations)]),
   type     : Optional({"InProcess", "Command"}),
   command  : Optional([command        : Commands,
                        input_delivery : Optional(Deliveries),
                        timeout_ms     : Optional(Timeouts)]),
   harness  : Optional(Optional(Keys))]

default_iterations == 1000000
default_timeout_ms == 2000
KnownKeys == {"", "default_dummy", "rohcstar_decompressor"}

Init ==
  /\ pc = "load"
  /\ cli \in [iterations : Optional(Iterations), command : Optional(Programs)]
  /\ file \in Optional(Tables)
  /\ config = {}
  /\ campaign = {}

\* toml::from_str: a table that is there has its missing fields filled in, a
\* table that is not there stays away.
Parsed(t) ==
  [fuzzer  |-> {Or(f.max_iterations, default_iterations) : f \in t.fuzzer},
   type    |-> Or(t.type, "Command"),
   command |-> {[command        |-> c.command,
                 input_delivery |-> Or(c.input_delivery, "std-in"),
                 timeout_ms     |-> Or(c.timeout_ms, default_timeout_ms)]
                  : c \in t.command},
   harness |-> {Or(h, "") : h \in t.harness}]

\* DrifterConfig::default
BuiltIn ==
  [fuzzer |-> {default_iterations}, type |-> "Command", command |-> {},
   harness |-> {""}]

\* Some table of the file has a value the parser does not know.
Unknown == \E t \in file : \E c \in t.command : c.input_delivery \ Parseable # {}

Load ==
  /\ pc = "load"
  /\ ~Unknown
  /\ config' = {IF file = {} THEN BuiltIn ELSE Parsed(The(file))}
  /\ pc' = "iterations"
  /\ UNCHANGED <<cli, file, campaign>>

\* main returns the error.
LoadFails ==
  /\ pc = "load"
  /\ Unknown
  /\ pc' = "rejected"
  /\ UNCHANGED <<cli, file, config, campaign>>

FaultyOverrideIterations ==   \* only a [fuzzer] table is overridden
  /\ pc = "iterations"
  /\ config' = {[c EXCEPT !.fuzzer = IF @ = {} THEN @ ELSE
                   {Or(cli.iterations, The(@))}] : c \in config}
  /\ pc' = "command"
  /\ UNCHANGED <<cli, file, campaign>>

OverrideIterations ==
  /\ pc = "iterations"
  /\ config' = {[c EXCEPT !.fuzzer = IF cli.iterations = {} THEN @
                                                 ELSE cli.iterations] : c \in config}
  /\ pc' = "command"
  /\ UNCHANGED <<cli, file, campaign>>

\* CommandExecutorSettings::default, which is derived: no call of
\* default_timeout_ms.
DerivedSettings == [command |-> <<>>, input_delivery |-> "std-in", timeout_ms |-> 0]

FaultyWithProgram(settings, program) ==   \* the arguments go too
  [settings EXCEPT !.command = <<program>>]

WithProgram(settings, program) ==
  [settings EXCEPT !.command = <<program>> \o (IF @ = <<>> THEN @ ELSE Tail(@))]

\* The override is ignored unless the executor runs commands.
OverrideCommand ==
  /\ pc = "command"
  /\ config' = {[c EXCEPT !.command =
                   IF cli.command = {} \/ c.type = "InProcess" THEN @
                   ELSE {WithProgram(Or(@, DerivedSettings), The(cli.command))}]
                  : c \in config}
  /\ pc' = "build"
  /\ UNCHANGED <<cli, file, campaign>>

Iters(c) == Or(c.fuzzer, default_iterations)

\* Missing harness settings are filled in first, an unknown key is an error.
BuildInProcess ==
  /\ pc = "build"
  /\ \E c \in config :
       /\ c.type = "InProcess"
       /\ Or(c.harness, "") \in KnownKeys
       /\ campaign' = {[executor |-> "InProcess", harness |-> Or(c.harness, ""),
                        max_iterations |-> Iters(c)]}
  /\ pc' = "running"
  /\ UNCHANGED <<cli, file, config>>

BuildCommand ==
  /\ pc = "build"
  /\ \E c \in config : \E s \in c.command :
       /\ c.type = "Command"
       /\ campaign' = {[executor |-> "Command", command |-> s.command,
                        input_delivery |-> s.input_delivery,
                        timeout_ms |-> s.timeout_ms,
                        max_iterations |-> Iters(c)]}
  /\ pc' = "running"
  /\ UNCHANGED <<cli, file, config>>

\* main returns an error.
BuildFails ==
  /\ pc = "build"
  /\ \E c \in config :
       \/ c.type = "InProcess" /\ Or(c.harness, "") \notin KnownKeys
       \/ c.type = "Command" /\ c.command = {}
  /\ pc' = "failed"
  /\ UNCHANGED <<cli, file, config, campaign>>

Next ==
  \/ Load \/ LoadFails
  \/ OverrideIterations \/ OverrideCommand
  \/ BuildInProcess \/ BuildCommand \/ BuildFails

Spec == Init /\ [][Next]_vars

-----------------------------------------------------------------------------
(* Properties                                                              *)

\* The campaign runs for the iterations of the command line, else of the file,
\* else for the documented default, whichever tables the file has.
IterationsByPrecedence ==
  LET inFile == UNION {UNION {f.max_iterations : f \in t.fuzzer} : t \in file}
  IN  \A r \in campaign :
        r.max_iterations = Or(cli.iterations, Or(inFile, default_iterations))

\* The program is the command line's, else the file's, and the arguments are
\* the file's: "arguments are preserved from config" (main.rs:33).
CommandAsAsked ==
  LET inFile == {c.command : c \in UNION {t.command : t \in file}}
  IN  \A r \in campaign : r.executor = "Command" =>
        LET asked == Or(inFile, <<>>) IN
          /\ cli.command = {} => r.command = asked
          /\ cli.command # {} =>
               /\ Head(r.command) \in cli.command
               /\ Tail(r.command) = IF asked = <<>> THEN <<>> ELSE Tail(asked)

-----------------------------------------------------------------------------
(* Statements of the documentation that the code does not keep             *)

\* "Defaults to `2000` (2 seconds) if not specified" (config.rs:43).
TimeoutByPrecedence ==
  LET inFile == UNION {c.timeout_ms : c \in UNION {t.command : t \in file}}
  IN  \A r \in campaign : r.executor = "Command" =>
        r.timeout_ms = Or(inFile, default_timeout_ms)
=============================================================================
