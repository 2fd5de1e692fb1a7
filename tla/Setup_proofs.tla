---------------------------- MODULE Setup_proofs ----------------------------
(***************************************************************************)
(* What becomes of the iterations and of the command, for every file and   *)
(* command line, and all programs, arguments and numbers.                  *)
(***************************************************************************)
EXTENDS Setup, TLAPS

-----------------------------------------------------------------------------
(* Settings that may be left out                                           *)

LEMMA Option ==
  \A S : \A o \in Optional(S) : o = {} \/ \E x \in S : o = {x}
BY DEF Optional

LEMMA OrValue ==
  /\ \A d : Or({}, d) = d
  /\ \A x, d : Or({x}, d) = x
<1>1. \A x : (CHOOSE y \in {x} : TRUE) = x
  OBVIOUS
<1> QED
  BY <1>1, \A x : {x} # {} DEF Or

LEMMA OrType ==
  \A S : \A d : \A o \in Optional(S) : Or(o, d) \in S \cup {d}
<1> SUFFICES ASSUME NEW S, NEW o \in Optional(S), NEW d
             PROVE  Or(o, d) \in S \cup {d}
  OBVIOUS
<1>1. CASE o = {}
  BY <1>1, OrValue
<1>2. ASSUME NEW x \in S, o = {x} PROVE Or(o, d) \in S
  BY <1>2, OrValue
<1> QED
  BY <1>1, <1>2, Option

-----------------------------------------------------------------------------
(* The invariant                                                           *)

Settings == [command        : Seq(STRING),
             input_delivery : Deliveries,
             timeout_ms     : Nat]

Configs == [fuzzer  : Optional(Nat),
            type    : {"InProcess", "Command"},
            command : Optional(Settings),
            harness : Optional(Keys \cup {""})]

\* What the file says.
FileIterations == UNION {UNION {f.max_iterations : f \in t.fuzzer} : t \in file}
FileCommands   == {c.command : c \in UNION {t.command : t \in file}}

\* What the campaign shall have.
AskedIterations == Or(cli.iterations, Or(FileIterations, default_iterations))
AskedCommand(command) ==
  LET asked == Or(FileCommands, <<>>) IN
    /\ cli.command = {} => command = asked
    /\ cli.command # {} =>
         /\ Head(command) \in cli.command
         /\ Tail(command) = IF asked = <<>> THEN <<>> ELSE Tail(asked)

Types ==
  /\ cli \in [iterations : Optional(Iterations), command : Optional(Programs)]
  /\ file \in Optional(Tables)
  /\ config \subseteq Configs
  /\ pc \in {"load", "iterations", "command", "build", "running", "rejected",
             "failed"}

\* Both settings, from one hand to the next.
Passed ==
  /\ pc \notin {"running"} => campaign = {}
  /\ \A c \in config :
       /\ pc = "iterations" => Iters(c) = Or(FileIterations, default_iterations)
       /\ pc \in {"command", "build"} => Iters(c) = AskedIterations
       /\ pc \in {"iterations", "command"} =>
            {s.command : s \in c.command} = FileCommands
       /\ pc = "build" /\ c.type = "Command" =>
            \A s \in c.command : AskedCommand(s.command)

Inv == Types /\ Passed /\ IterationsByPrecedence /\ CommandAsAsked

-----------------------------------------------------------------------------

LEMMA Defaults == default_iterations \in Nat /\ default_timeout_ms \in Nat
BY SMT DEF default_iterations, default_timeout_ms

LEMMA Numbers ==
  /\ Iterations \cup {default_iterations} \subseteq Nat
  /\ Timeouts \cup {default_timeout_ms} \subseteq Nat
BY Defaults, ConstantsAssumption

\* Sequences with another head, and without theirs.
LEMMA Rebuilt ==
  ASSUME NEW S, NEW x \in S, NEW q \in Seq(S)
  PROVE  /\ <<x>> \o q \in Seq(S) /\ Head(<<x>> \o q) = x /\ Tail(<<x>> \o q) = q
         /\ q # <<>> => Tail(q) \in Seq(S)
OBVIOUS

LEMMA CommandType == Commands \subseteq Seq(STRING)
<1>1. \A p \in Programs, args \in Arguments : <<p>> \o args \in Seq(STRING)
  BY Rebuilt, ConstantsAssumption
<1>2. <<>> \in Seq(STRING)
  OBVIOUS
<1> DEFINE Line(p, args) == <<p>> \o args
           lines == {Line(p, args) : p \in Programs, args \in Arguments}
<1>3. Commands = {<<>>} \cup lines
  BY DEF Commands
<1>4. \A p \in Programs, args \in Arguments : Line(p, args) \in Seq(STRING)
  BY <1>1
<1> HIDE DEF Line
<1>5. lines \subseteq Seq(STRING)
  BY <1>4
<1> HIDE DEF lines
<1> QED
  BY <1>2, <1>3, <1>5

\* The two parts of a command that gets another program.
LEMMA ProgramReplaced ==
  ASSUME NEW s \in Settings, NEW p \in STRING
  PROVE  /\ WithProgram(s, p) \in Settings
         /\ Head(WithProgram(s, p).command) = p
         /\ Tail(WithProgram(s, p).command) =
              IF s.command = <<>> THEN <<>> ELSE Tail(s.command)
<1> DEFINE rest == IF s.command = <<>> THEN s.command ELSE Tail(s.command)
<1>1. s.command \in Seq(STRING)
  BY DEF Settings
<1>2. rest \in Seq(STRING)
  BY <1>1, Rebuilt
<1>3. WithProgram(s, p) = [s EXCEPT !.command = <<p>> \o rest]
  BY Zenon DEF WithProgram
<1> HIDE DEF rest
<1>4. /\ <<p>> \o rest \in Seq(STRING)
      /\ Head(<<p>> \o rest) = p
      /\ Tail(<<p>> \o rest) = rest
  BY <1>2, Rebuilt
<1> QED
  BY <1>3, <1>4 DEF Settings, rest

LEMMA ConfigType ==
  ASSUME NEW f \in Optional(Nat), NEW t \in {"InProcess", "Command"},
         NEW c \in Optional(Settings), NEW h \in Optional(Keys \cup {""})
  PROVE  [fuzzer |-> f, type |-> t, command |-> c, harness |-> h] \in Configs
BY DEF Configs

LEMMA InitInv == Init => Inv
BY DEF Init, Inv, Types, Passed, IterationsByPrecedence, CommandAsAsked

\* What the file says reaches the configuration.
LEMMA LoadKeeps == Inv /\ Load => Inv'
<1> SUFFICES ASSUME Inv, Load PROVE Inv'
  OBVIOUS
<1> USE ConstantsAssumption DEF Inv, Types, Load
<1>1. CASE file = {}
  <2>1. config' = {BuiltIn}
    BY <1>1
  <2>2. BuiltIn \in Configs
    BY Defaults DEF BuiltIn, Configs, Optional
  <2>3. FileIterations = {} /\ FileCommands = {}
    BY <1>1 DEF FileIterations, FileCommands
  <2>4. Iters(BuiltIn) = Or(FileIterations, default_iterations)
    BY <2>3, OrValue DEF Iters, BuiltIn
  <2>5. {s.command : s \in BuiltIn.command} = {}
    BY DEF BuiltIn
  <2> QED
    BY <2>1, <2>2, <2>3, <2>4, <2>5
       DEF Passed, IterationsByPrecedence, CommandAsAsked, FileIterations,
           FileCommands
<1>2. CASE file # {}
  <2>1. PICK t \in Tables : file = {t}
    BY <1>2, Option
  <2>2. The(file) = t
    BY <2>1 DEF The
  <2>3. config' = {Parsed(t)}
    BY <1>2, <2>2
  <2>4. FileIterations = UNION {f.max_iterations : f \in t.fuzzer}
    BY <2>1 DEF FileIterations
  <2>5. FileCommands = {c.command : c \in t.command}
    BY <2>1 DEF FileCommands
  <2> DEFINE fuzzer == {Or(f.max_iterations, default_iterations) : f \in t.fuzzer}
             command == {[command        |-> c.command,
                          input_delivery |-> Or(c.input_delivery, "std-in"),
                          timeout_ms     |-> Or(c.timeout_ms, default_timeout_ms)]
                           : c \in t.command}
             harness == {Or(h, "") : h \in t.harness}
  <2>6. /\ fuzzer \in Optional(Nat)
        /\ Or(fuzzer, default_iterations) = Or(FileIterations, default_iterations)
    <3> DEFINE F == [max_iterations : Optional(Iterations)]
    <3>1. t.fuzzer \in Optional(F)
      BY DEF Tables
    <3>2. CASE t.fuzzer = {}
      BY <2>4, <3>2 DEF Optional
    <3>3. CASE t.fuzzer # {}
      <4>1. PICK f \in F : t.fuzzer = {f}
        <5> HIDE DEF F
        <5> QED
          BY <3>1, <3>3, Option
      <4>2. f.max_iterations \in Optional(Iterations)
        OBVIOUS
      <4>3. fuzzer = {Or(f.max_iterations, default_iterations)}
        BY <4>1
      <4>4. FileIterations = f.max_iterations
        BY <2>4, <4>1
      <4>5. Or(f.max_iterations, default_iterations) \in Nat
        BY <4>2, OrType, Numbers
      <4> HIDE DEF fuzzer
      <4> QED
        BY <4>3, <4>4, <4>5, OrValue DEF Optional
    <3> QED
      BY <3>2, <3>3
  <2>7. command \in Optional(Settings) /\ {s.command : s \in command} = FileCommands
    <3> DEFINE C == [command        : Commands,
                     input_delivery : Optional(Deliveries),
                     timeout_ms     : Optional(Timeouts)]
    <3>1. t.command \in Optional(C)
      BY DEF Tables
    <3>2. CASE t.command = {}
      BY <2>5, <3>2 DEF Optional
    <3>3. CASE t.command # {}
      <4>1. PICK c \in C : t.command = {c}
        <5> HIDE DEF C
        <5> QED
          BY <3>1, <3>3, Option
      <4>2. /\ c.command \in Seq(STRING)
            /\ Or(c.input_delivery, "std-in") \in Deliveries
            /\ Or(c.timeout_ms, default_timeout_ms) \in Nat
        <5>1. /\ c.command \in Commands
              /\ c.input_delivery \in Optional(Deliveries)
              /\ c.timeout_ms \in Optional(Timeouts)
          OBVIOUS
        <5>2. /\ Or(c.input_delivery, "std-in") \in Deliveries \cup {"std-in"}
              /\ Or(c.timeout_ms, default_timeout_ms)
                   \in Timeouts \cup {default_timeout_ms}
          BY <5>1, OrType
        <5>3. "std-in" \in Deliveries
          BY DEF Deliveries
        <5> QED
          BY <5>1, <5>2, <5>3, CommandType, Numbers
      <4> DEFINE s == [command        |-> c.command,
                       input_delivery |-> Or(c.input_delivery, "std-in"),
                       timeout_ms     |-> Or(c.timeout_ms, default_timeout_ms)]
      <4>3. command = {s} /\ FileCommands = {c.command}
        BY <2>5, <4>1
      <4>4. s \in Settings /\ s.command = c.command
        BY <4>2 DEF Settings
      <4> HIDE DEF s, command
      <4> QED
        BY <4>3, <4>4 DEF Optional
    <3> QED
      BY <3>2, <3>3
  <2>8. harness \in Optional(Keys \cup {""})
    <3>1. t.harness \in Optional(Optional(Keys))
      BY DEF Tables
    <3>2. CASE t.harness = {}
      BY <3>2 DEF Optional
    <3>3. CASE t.harness # {}
      <4>1. PICK h \in Optional(Keys) : t.harness = {h}
        BY <3>1, <3>3, Option
      <4>2. Or(h, "") \in Keys \cup {""}
        BY OrType
      <4>3. harness = {Or(h, "")}
        BY <4>1
      <4> QED
        BY <4>2, <4>3 DEF Optional
    <3> QED
      BY <3>2, <3>3
  <2>9. Or(t.type, "Command") \in {"InProcess", "Command"}
    BY OrType DEF Tables
  <2>10. Parsed(t) = [fuzzer |-> fuzzer, type |-> Or(t.type, "Command"),
                      command |-> command, harness |-> harness]
    BY DEF Parsed
  <2> HIDE DEF fuzzer, command, harness
  <2>11. Parsed(t) \in Configs
    BY <2>6, <2>7, <2>8, <2>9, <2>10, ConfigType
  <2>12. /\ Iters(Parsed(t)) = Or(FileIterations, default_iterations)
         /\ {s.command : s \in Parsed(t).command} = FileCommands
    BY <2>6, <2>7, <2>10 DEF Iters
  <2> QED
    BY <2>3, <2>11, <2>12
       DEF Passed, IterationsByPrecedence, CommandAsAsked, FileIterations,
           FileCommands
<1> QED
  BY <1>1, <1>2

\* One setting of the one configuration is replaced.
LEMMA OverrideIterationsKeeps == Inv /\ OverrideIterations => Inv'
<1> SUFFICES ASSUME Inv, OverrideIterations PROVE Inv'
  OBVIOUS
<1> USE DEF Inv, Types, OverrideIterations
<1> DEFINE New(c) == [c EXCEPT !.fuzzer = IF cli.iterations = {} THEN @
                                                    ELSE cli.iterations]
<1>1. ASSUME NEW c \in config
      PROVE  /\ New(c) \in Configs
             /\ Iters(New(c)) = AskedIterations
             /\ New(c).command = c.command
  <2>1. c \in Configs /\ Iters(c) = Or(FileIterations, default_iterations)
    BY <1>1 DEF Passed
  <2>2. CASE cli.iterations = {}
    <3>1. New(c) = c
      BY <2>1, <2>2 DEF Configs
    <3>2. AskedIterations = Or(FileIterations, default_iterations)
      BY <2>2, OrValue DEF AskedIterations
    <3> QED
      BY <2>1, <3>1, <3>2
  <2>3. CASE cli.iterations # {}
    <3>1. PICK n \in Iterations : cli.iterations = {n}
      BY <2>3, Option
    <3>2. New(c) = [c EXCEPT !.fuzzer = {n}]
      BY <2>3, <3>1
    <3>3. {n} \in Optional(Nat)
      BY ConstantsAssumption DEF Optional
    <3>4. New(c) \in Configs /\ New(c).fuzzer = {n} /\ New(c).command = c.command
      BY <2>1, <3>2, <3>3 DEF Configs
    <3>5. AskedIterations = n
      BY <3>1, OrValue DEF AskedIterations
    <3> HIDE DEF New
    <3> QED
      BY <3>4, <3>5, OrValue DEF Iters
  <2> QED
    BY <2>2, <2>3
<1>2. config' = {New(c) : c \in config}
  OBVIOUS
<1> HIDE DEF New
<1>3. config' \subseteq Configs
  BY <1>1, <1>2
<1>4. FileIterations' = FileIterations /\ FileCommands' = FileCommands
  BY DEF FileIterations, FileCommands
<1>5. AskedIterations' = AskedIterations
  BY <1>4 DEF AskedIterations
<1>6. campaign' = {} /\ pc = "iterations" /\ pc' = "command"
  BY DEF Passed
<1>7. \A d \in config' : /\ Iters(d) = AskedIterations
                         /\ {s.command : s \in d.command} = FileCommands
  <2> SUFFICES ASSUME NEW c \in config
               PROVE  /\ Iters(New(c)) = AskedIterations
                      /\ {s.command : s \in New(c).command} = FileCommands
    BY <1>2, Zenon
  <2>1. {s.command : s \in c.command} = FileCommands
    BY <1>6 DEF Passed
  <2> QED
    BY <1>1, <2>1
<1>8. Passed'
  BY <1>4, <1>5, <1>6, <1>7 DEF Passed
<1> QED
  BY <1>3, <1>6, <1>8 DEF IterationsByPrecedence, CommandAsAsked

LEMMA OverrideCommandKeeps == Inv /\ OverrideCommand => Inv'
<1> SUFFICES ASSUME Inv, OverrideCommand PROVE Inv'
  OBVIOUS
<1> USE DEF Inv, Types, OverrideCommand
<1> DEFINE New(c) ==
      [c EXCEPT !.command =
         IF cli.command = {} \/ c.type = "InProcess" THEN @
         ELSE {WithProgram(Or(@, DerivedSettings), The(cli.command))}]
<1>1. ASSUME NEW c \in config
      PROVE  /\ New(c) \in Configs
             /\ Iters(New(c)) = AskedIterations
             /\ New(c).type = "Command" =>
                  \A s \in New(c).command : AskedCommand(s.command)
  <2>1. /\ c \in Configs
        /\ Iters(c) = AskedIterations
        /\ {s.command : s \in c.command} = FileCommands
    BY <1>1 DEF Passed
  <2>2. /\ c.type \in {"InProcess", "Command"}
        /\ c.command \in Optional(Settings)
    BY <2>1 DEF Configs
  <2>3. CASE cli.command = {} \/ c.type = "InProcess"
    <3>1. New(c) = c
      BY <2>1, <2>3 DEF Configs
    <3>2. ASSUME cli.command = {}, NEW s \in c.command
          PROVE  AskedCommand(s.command)
      <4>1. c.command = {s}
        BY <2>2, <3>2, Option
      <4>2. FileCommands = {s.command}
        BY <2>1, <4>1
      <4> QED
        BY <3>2, <4>2, OrValue DEF AskedCommand
    <3> QED
      BY <2>1, <2>3, <3>1, <3>2
  <2>4. CASE cli.command # {} /\ c.type = "Command"
    <3>1. PICK p \in Programs : cli.command = {p}
      BY <2>4, Option
    <3>2. The(cli.command) = p
      BY <3>1 DEF The
    <3> DEFINE old == Or(c.command, DerivedSettings)
               new == WithProgram(old, p)
    <3>3. New(c) = [c EXCEPT !.command = {new}]
      BY <2>4, <3>2
    <3>4. /\ old \in Settings
          /\ old.command = Or(FileCommands, <<>>)
      <4>1. CASE c.command = {}
        <5>1. FileCommands = {} /\ old = DerivedSettings
          BY <2>1, <4>1, OrValue
        <5>2. <<>> \in Seq(STRING) /\ 0 \in Nat /\ "std-in" \in Deliveries
          BY DEF Deliveries
        <5>3. DerivedSettings \in Settings /\ DerivedSettings.command = <<>>
          BY <5>2, Zenon DEF DerivedSettings, Settings
        <5> QED
          BY <5>1, <5>3, OrValue
      <4>2. CASE c.command # {}
        <5>1. PICK s \in Settings : c.command = {s}
          BY <2>2, <4>2, Option
        <5>2. FileCommands = {s.command} /\ old = s
          BY <2>1, <5>1, OrValue
        <5> QED
          BY <5>2, OrValue
      <4> QED
        BY <4>1, <4>2
    <3> HIDE DEF old
    <3>5. /\ new \in Settings
          /\ Head(new.command) = p
          /\ Tail(new.command) =
               IF old.command = <<>> THEN <<>> ELSE Tail(old.command)
      BY <3>4, ProgramReplaced, ConstantsAssumption
    <3> HIDE DEF new
    <3>6. AskedCommand(new.command)
      BY <3>1, <3>4, <3>5 DEF AskedCommand
    <3>7. {new} \in Optional(Settings)
      BY <3>5 DEF Optional
    <3>8. New(c) \in Configs /\ New(c).fuzzer = c.fuzzer /\ New(c).command = {new}
      BY <2>1, <3>3, <3>7 DEF Configs
    <3> HIDE DEF New
    <3> QED
      BY <2>1, <3>6, <3>8 DEF Iters
  <2> QED
    BY <2>2, <2>3, <2>4
<1>2. config' = {New(c) : c \in config}
  OBVIOUS
<1> HIDE DEF New
<1>3. config' \subseteq Configs
  BY <1>1, <1>2
<1>4. /\ AskedIterations' = AskedIterations
      /\ \A command : AskedCommand(command)' <=> AskedCommand(command)
  BY DEF AskedIterations, AskedCommand, FileIterations, FileCommands
<1>5. campaign' = {} /\ pc' = "build"
  BY DEF Passed
<1>6. \A d \in config' : /\ Iters(d) = AskedIterations
                         /\ d.type = "Command" =>
                              \A s \in d.command : AskedCommand(s.command)
  BY <1>1, <1>2, Zenon
<1>7. Passed'
  BY <1>4, <1>5, <1>6 DEF Passed
<1> QED
  BY <1>3, <1>5, <1>7 DEF IterationsByPrecedence, CommandAsAsked

\* The executor is built of what has arrived.
LEMMA BuildKeeps == Inv /\ (BuildInProcess \/ BuildCommand) => Inv'
<1> SUFFICES ASSUME Inv, BuildInProcess \/ BuildCommand PROVE Inv'
  OBVIOUS
<1> USE DEF Inv, Types, BuildInProcess, BuildCommand
<1>1. /\ pc = "build" /\ pc' = "running"
      /\ UNCHANGED <<cli, file, config>>
  OBVIOUS
<1>2. \A r \in campaign' :
        /\ r.max_iterations = AskedIterations
        /\ r.executor = "Command" => AskedCommand(r.command)
  <2>1. CASE BuildInProcess
    <3>1. PICK c \in config :
            campaign' = {[executor |-> "InProcess", harness |-> Or(c.harness, ""),
                          max_iterations |-> Iters(c)]}
      BY <2>1
    <3>2. Iters(c) = AskedIterations
      BY <1>1 DEF Passed
    <3> HIDE DEF Inv, Types, BuildInProcess, BuildCommand
    <3> DEFINE new == [executor |-> "InProcess", harness |-> Or(c.harness, ""),
                       max_iterations |-> Iters(c)]
    <3>3. new.executor = "InProcess" /\ new.max_iterations = Iters(c)
      OBVIOUS
    <3>4. campaign' = {new}
      BY <3>1
    <3> HIDE DEF new
    <3> QED
      BY <3>2, <3>3, <3>4
  <2>2. CASE BuildCommand
    <3>1. PICK c \in config : \E s \in c.command :
            /\ c.type = "Command"
            /\ campaign' = {[executor |-> "Command", command |-> s.command,
                             input_delivery |-> s.input_delivery,
                             timeout_ms |-> s.timeout_ms,
                             max_iterations |-> Iters(c)]}
      BY <2>2
    <3>2. /\ Iters(c) = AskedIterations
          /\ c.type = "Command" => \A s \in c.command : AskedCommand(s.command)
      BY <1>1 DEF Passed
    <3> HIDE DEF Inv, Types, BuildInProcess, BuildCommand
    <3> QED
      BY <3>1, <3>2
  <2> QED
    BY <2>1, <2>2
<1>3. /\ AskedIterations' = AskedIterations
      /\ \A command : AskedCommand(command)' <=> AskedCommand(command)
  BY <1>1 DEF AskedIterations, AskedCommand, FileIterations, FileCommands
<1>4. Passed'
  BY <1>1 DEF Passed
<1>5. IterationsByPrecedence'
  BY <1>1, <1>2 DEF IterationsByPrecedence, AskedIterations, FileIterations
<1>6. CommandAsAsked'
  BY <1>1, <1>2 DEF CommandAsAsked, AskedCommand, FileCommands
<1> QED
  BY <1>1, <1>4, <1>5, <1>6

\* The two ways out, and no step at all.
LEMMA OthersKeep == Inv /\ (LoadFails \/ BuildFails \/ UNCHANGED vars) => Inv'
BY DEF Inv, Types, Passed, IterationsByPrecedence, CommandAsAsked, LoadFails,
       BuildFails, vars, AskedIterations, AskedCommand, FileIterations,
       FileCommands

LEMMA InvHolds == Spec => []Inv
<1>1. Inv /\ [Next]_vars => Inv'
  BY LoadKeeps, OverrideIterationsKeeps, OverrideCommandKeeps, BuildKeeps,
     OthersKeep DEF Next
<1> QED
  BY InitInv, <1>1, PTL DEF Spec

\* main runs for the iterations of the command line, else of the file, else for
\* the default, for every file and every command line.
THEOREM IterationsAsAsked == Spec => []IterationsByPrecedence
BY InvHolds, PTL DEF Inv

\* The command that is executed has the program of the command line, else of the
\* file, and the arguments of the file, for every file and every command line.
THEOREM CommandIsAsAsked == Spec => []CommandAsAsked
BY InvHolds, PTL DEF Inv
=============================================================================
