------------------------------- MODULE Config -------------------------------
(***************************************************************************)
(* readConfig (lib/config.c): the command line is scanned one argument at  *)
(* a time, one configuration file is chosen and loaded, and what the       *)
(* command line said is put over it.                                       *)
(***************************************************************************)
EXTENDS Integers, Sequences, FiniteSets

CONSTANT MaxArgs   (* Bound: the arguments after the program's name.     *)

ASSUME ConfigAssumption == MaxArgs \in Nat

VARIABLES
  typed,       (* the command line as it was typed                       *)
  files,       (* the configuration files that exist                     *)
  valid,       (* those cyaml_load_file accepts                          *)
  roots,       (* the site roots that exist                              *)
  argv,        (* the command line; NULL where an option was taken out   *)
  i,           (* the loop of parseCmdArgs                               *)
  args,        (* struct cmdArgs                                         *)
  pc,
  cfg          (* what readConfig returns                                *)

vars  == <<typed, files, valid, roots, argv, i, args, pc, cfg>>
world == <<typed, files, valid, roots>>

(* An argument is an option, a path or a number.                           *)
Flags  == {"-c", "-p", "-x"}
Paths  == {"mine.yml", "site"}
Number == [t \in {"80", "65536", "65617"} |->
             CASE t = "80" -> 80 [] t = "65536" -> 65536 [] OTHER -> 65617]
Tokens == Flags \cup Paths \cup DOMAIN Number

NULL       == "NULL"
Searched   == <<"./config.yml", "/etc/webserver67/config.yml">>
FilePort   == 6741                 (* the port and the site root every   *)
FileRoot   == "root of the file"   (* configuration file gives           *)

NoConfig == [file |-> NULL, port |-> 0, root |-> NULL]

IsFlag(t)  == t \in Flags
Takes(t)   == t \in {"-c", "-p"}

(* A variant with a bug: the number is kept as it is.                      *)
ToPortWide(t) == Number[t]

(* (unsigned short int)atoi(t)                                             *)
UShorts    == 65536
ToPort(t)  == Number[t] % UShorts

Init ==
  /\ files \in SUBSET {"mine.yml", Searched[1], Searched[2]}
  /\ valid \in SUBSET files
  /\ roots \in SUBSET {"site", FileRoot}
  /\ typed \in UNION {[1 .. k -> Tokens] : k \in 0 .. MaxArgs}
  /\ argv = typed
  /\ i = 1
  /\ args = [config |-> NULL, port |-> 0, root |-> NULL]
  /\ pc = "scan"
  /\ cfg = NoConfig

(* readConfig returns NULL.                                                *)
GiveUp ==
  /\ pc' = "done"
  /\ UNCHANGED <<world, argv, i, args, cfg>>

Argc == Len(argv)

(* An option with its value: both are taken out of argv.  A value that is  *)
(* not a number is reported and leaves the port as it was.                 *)
ScanOption ==
  /\ pc = "scan" /\ i < Argc
  /\ Takes(argv[i])
  /\ IF IsFlag(argv[i + 1])
     THEN GiveUp
     ELSE /\ args' = CASE argv[i] = "-c" -> [args EXCEPT !.config = argv[i + 1]]
                       [] argv[i] = "-p" /\ argv[i + 1] \in DOMAIN Number ->
                            [args EXCEPT !.port = ToPort(argv[i + 1])]
                       [] OTHER -> args
          /\ argv' = [argv EXCEPT ![i] = NULL, ![i + 1] = NULL]
          /\ i' = i + 2
          /\ UNCHANGED <<world, pc, cfg>>

(* Anything else is passed over, an unknown option with a message.         *)
ScanOther ==
  /\ pc = "scan" /\ i <= Argc
  /\ ~(Takes(argv[i]) /\ i < Argc)
  /\ i' = i + 1
  /\ UNCHANGED <<world, argv, args, pc, cfg>>

(* The last argument is the site root if no option took it.                *)
TakeRoot ==
  /\ pc = "scan" /\ i > Argc
  /\ IF Argc > 0 /\ argv[Argc] # NULL /\ ~IsFlag(argv[Argc])
     THEN /\ args' = [args EXCEPT !.root = argv[Argc]]
          /\ argv' = [argv EXCEPT ![Argc] = NULL]
     ELSE UNCHANGED <<args, argv>>
  /\ pc' = "search"
  /\ UNCHANGED <<world, i, cfg>>

(* A variant with a bug: the last of the files that exist is taken.        *)
SearchForLastConfigFile ==
  /\ pc = "search"
  /\ IF args.config # NULL THEN pc' = "load" /\ UNCHANGED <<world, argv, i, args, cfg>>
     ELSE IF \A k \in DOMAIN Searched : Searched[k] \notin files THEN GiveUp
     ELSE /\ args' = [args EXCEPT !.config =
                        IF Searched[2] \in files THEN Searched[2] ELSE Searched[1]]
          /\ pc' = "load"
          /\ UNCHANGED <<world, argv, i, cfg>>

(* searchForConfigFile: the first that exists.                             *)
SearchForConfigFile ==
  /\ pc = "search"
  /\ IF args.config # NULL THEN pc' = "load" /\ UNCHANGED <<world, argv, i, args, cfg>>
     ELSE IF \A k \in DOMAIN Searched : Searched[k] \notin files THEN GiveUp
     ELSE /\ args' = [args EXCEPT !.config =
                        IF Searched[1] \in files THEN Searched[1] ELSE Searched[2]]
          /\ pc' = "load"
          /\ UNCHANGED <<world, argv, i, cfg>>

(* readConfigFile, then the overrides; the site root has to exist.         *)
LoadConfig ==
  /\ pc = "load"
  /\ LET root == IF args.root # NULL THEN args.root ELSE FileRoot IN
     IF args.config \notin valid \/ root \notin roots
     THEN GiveUp
     ELSE /\ cfg' = [file |-> args.config,
                     port |-> IF args.port # 0 THEN args.port ELSE FilePort,
                     root |-> root]
          /\ pc' = "done"
          /\ UNCHANGED <<world, argv, i, args>>

Next == ScanOption \/ ScanOther \/ TakeRoot \/ SearchForConfigFile \/ LoadConfig

Spec == Init /\ [][Next]_vars

----------------------------------------------------------------------------

TypeOK ==
  /\ argv \in Seq(Tokens \cup {NULL}) /\ Argc = Len(typed)
  /\ i \in 1 .. Argc + 1
  /\ args \in [config : Tokens \cup {NULL, Searched[1], Searched[2]},
              port   : 0 .. UShorts - 1,
              root   : Tokens \cup {NULL}]
  /\ pc \in {"scan", "search", "load", "done"}

(* What readConfig is to return, read off the command line: an option is a *)
(* flag that is not the last argument, the last one of a kind counts, and  *)
(* the last argument is the site root unless an option took it.            *)
Options == {k \in 1 .. Len(typed) - 1 : Takes(typed[k])}

Last(S) == CHOOSE k \in S : \A j \in S : j <= k

ConfigGiven(options) ==
  LET given == {k \in options : typed[k] = "-c"} IN
  IF given = {} THEN NULL ELSE typed[Last(given) + 1]

ConfigFile ==
  LET exists == {k \in DOMAIN Searched : Searched[k] \in files} IN
  IF ConfigGiven(Options) # NULL THEN ConfigGiven(Options)
  ELSE IF exists # {} THEN Searched[IF 1 \in exists THEN 1 ELSE 2] ELSE NULL

PortGiven(options) ==
  LET given == {k \in options : typed[k] = "-p" /\ typed[k + 1] \in DOMAIN Number} IN
  IF given = {} THEN 0 ELSE ToPort(typed[Last(given) + 1])

Port == IF PortGiven(Options) = 0 THEN FilePort ELSE PortGiven(Options)

Root ==
  LET k == Len(typed) IN
  IF k > 0 /\ ~IsFlag(typed[k]) /\ k - 1 \notin Options THEN typed[k] ELSE FileRoot

Complete(options) == \A k \in options : ~IsFlag(typed[k + 1])

(* NoConfig stands for NULL, with which main() ends the process: an option *)
(* is followed by another, no configuration file is named or exists, or the*)
(* file or the site root is not there to be used.                          *)
Expected ==
  IF \/ ~Complete(Options)
     \/ ConfigFile \notin valid
     \/ Root \notin roots
  THEN NoConfig
  ELSE [file |-> ConfigFile, port |-> Port, root |-> Root]

(* When a file is named or exists, one is used, the one --config names,    *)
(* else ./config.yml, else the one in /etc, even when a later one would be *)
(* valid and it is not; the command line overrides it; a port is taken     *)
(* modulo 2^16 and 0 means none given (config.c:98-133, 180-214).          *)
ConfigAsExpected == pc = "done" /\ ConfigFile # NULL => cfg = Expected

(* What makes it inductive: the scan has taken out of argv just the options*)
(* before i with their values, never one as the value of another, and args *)
(* holds the last of each kind; from there on args holds all that was      *)
(* typed, and the file once it is found.                                   *)
Seen == {k \in Options : k < i}

ScanInv ==
  pc = "scan" =>
    /\ Complete(Seen)
    /\ \A k \in Seen : k + 1 < i
    /\ \A j \in 1 .. Argc :
         argv[j] = IF j < i /\ (j \in Options \/ j - 1 \in Options) THEN NULL ELSE typed[j]
    /\ args = [config |-> ConfigGiven(Seen), port |-> PortGiven(Seen), root |-> NULL]

ArgsInv ==
  pc \in {"search", "load"} =>
    /\ Complete(Options)
    /\ args = [config |-> IF pc = "search" THEN ConfigGiven(Options) ELSE ConfigFile,
               port   |-> PortGiven(Options),
               root   |-> IF Root = FileRoot THEN NULL ELSE Root]
    /\ pc = "load" => args.config # NULL

ConfigInv ==
  /\ TypeOK
  /\ typed \in Seq(Tokens)
  /\ valid \subseteq files /\ NULL \notin files
  /\ ScanInv /\ ArgsInv
  /\ cfg = IF pc = "done" THEN Expected ELSE NoConfig

=============================================================================
