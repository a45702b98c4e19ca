---------------------------- MODULE ConfigProofs ----------------------------
(***************************************************************************)
(* readConfig returns the configuration that can be read off the command   *)
(* line as it was typed, for command lines of any length.                  *)
(***************************************************************************)
EXTENDS Config, SequenceTheorems, TLAPS

USE ConfigAssumption
USE DEF ConfigAssumption

(* The last of a set of options is the one no other comes after.           *)
LEMMA LastIs ==
  ASSUME NEW S \in SUBSET Int, NEW k \in S, \A j \in S : j <= k
  PROVE  Last(S) = k
<1>1. \A m \in S : (\A j \in S : j <= m) => m = k
  OBVIOUS
<1> QED BY <1>1 DEF Last

(* An option that comes after those seen replaces what one of its kind had *)
(* given, and no other.                                                    *)
LEMMA ConfigGivenByNext ==
  ASSUME NEW S \in SUBSET Int, NEW k \in Int, \A j \in S : j < k
  PROVE  ConfigGiven(S \cup {k}) = IF typed[k] = "-c" THEN typed[k + 1] ELSE ConfigGiven(S)
<1> DEFINE T == {j \in S \cup {k} : typed[j] = "-c"}
<1>1. ConfigGiven(S \cup {k}) = IF T = {} THEN NULL ELSE typed[Last(T) + 1]
  BY DEF ConfigGiven
<1>2. CASE typed[k] = "-c"
  <2>1. k \in T /\ T \subseteq S \cup {k}
    BY <1>2
  <2> HIDE DEF T
  <2>2. T \in SUBSET Int /\ \A j \in T : j <= k
    BY <2>1
  <2>3. Last(T) = k /\ T # {}
    BY <2>1, <2>2, LastIs
  <2> QED BY <1>1, <1>2, <2>3
<1>3. CASE typed[k] # "-c"
  <2>1. T = {j \in S : typed[j] = "-c"}
    BY <1>3
  <2> QED BY <1>1, <1>3, <2>1 DEF ConfigGiven
<1> QED BY <1>2, <1>3

LEMMA PortGivenByNext ==
  ASSUME NEW S \in SUBSET Int, NEW k \in Int, \A j \in S : j < k
  PROVE  PortGiven(S \cup {k}) = IF typed[k] = "-p" /\ typed[k + 1] \in DOMAIN Number
                                 THEN ToPort(typed[k + 1]) ELSE PortGiven(S)
<1> DEFINE Gives(j) == typed[j] = "-p" /\ typed[j + 1] \in DOMAIN Number
           T == {j \in S \cup {k} : Gives(j)}
<1>1. PortGiven(S \cup {k}) = IF T = {} THEN 0 ELSE ToPort(typed[Last(T) + 1])
  BY DEF PortGiven
<1>2. CASE Gives(k)
  <2>1. k \in T /\ T \subseteq S \cup {k}
    BY <1>2
  <2> HIDE DEF T
  <2>2. T \in SUBSET Int /\ \A j \in T : j <= k
    BY <2>1
  <2>3. Last(T) = k /\ T # {}
    BY <2>1, <2>2, LastIs
  <2> QED BY <1>1, <1>2, <2>3
<1>3. CASE ~Gives(k)
  <2>1. T = {j \in S : Gives(j)}
    BY <1>3
  <2> QED BY <1>1, <1>3, <2>1 DEF PortGiven
<1> QED BY <1>2, <1>3

(* What is read off the command line does not change with argv.            *)
LEMMA TypedStays ==
  ASSUME UNCHANGED world
  PROVE  /\ Options' = Options /\ Root' = Root /\ ConfigFile' = ConfigFile
         /\ Port' = Port /\ Expected' = Expected
         /\ PortGiven(Options)' = PortGiven(Options)
         /\ ConfigGiven(Options)' = ConfigGiven(Options)
  BY DEF world, Options, Root, ConfigFile, ConfigGiven, PortGiven, Port, Expected, Complete

LEMMA SeenStays ==
  ASSUME UNCHANGED world, NEW S, Seen' = S
  PROVE  /\ PortGiven(Seen)' = PortGiven(S)
         /\ ConfigGiven(Seen)' = ConfigGiven(S)
  BY DEF world, ConfigGiven, PortGiven

LEMMA UShortsType == UShorts \in Nat \ {0}
  BY DEF UShorts

(* A site root typed is not taken for the file's, nor for none.            *)
LEMMA NoTokens == NULL \notin Tokens /\ FileRoot \notin Tokens
<1>1. DOMAIN Number = {"80", "65536", "65617"}
  BY DEF Number
<1> QED BY <1>1 DEF Tokens, Flags, Paths, NULL, FileRoot

----------------------------------------------------------------------------

LEMMA InitConfigInv == Init => ConfigInv
<1> SUFFICES ASSUME Init PROVE ConfigInv
  OBVIOUS
<1>1. typed \in Seq(Tokens)
  BY DEF Init
<1>2. argv \in Seq(Tokens \cup {NULL}) /\ Argc = Len(typed) /\ Argc \in Nat
  BY <1>1, SeqMonotonic DEF Init, Argc
<1>3. TypeOK
  <2>1. 0 \in 0 .. UShorts - 1
    BY UShortsType
  <2> QED BY <1>2, <2>1 DEF Init, TypeOK
<1>4. valid \subseteq files /\ NULL \notin files
  BY DEF Init, NULL, Searched
<1>5. Seen = {}
  BY DEF Init, Seen, Options
<1>6. ScanInv
  <2>1. Complete({}) /\ ConfigGiven({}) = NULL /\ PortGiven({}) = 0
    BY DEF Complete, ConfigGiven, PortGiven
  <2> QED BY <1>2, <1>5, <2>1 DEF Init, ScanInv
<1>7. ArgsInv /\ cfg = NoConfig
  BY DEF Init, ArgsInv
<1> QED BY <1>1, <1>3, <1>4, <1>6, <1>7 DEF Init, ConfigInv

(* What every proof below uses of the command line and of the scan.        *)
LEMMA CommandLine ==
  ASSUME ConfigInv
  PROVE  /\ typed \in Seq(Tokens) /\ Len(typed) \in Nat
         /\ \A j \in 1 .. Len(typed) : typed[j] \in Tokens
         /\ argv \in Seq(Tokens \cup {NULL}) /\ Len(argv) = Len(typed) /\ Argc = Len(typed)
         /\ i \in Nat /\ 1 <= i /\ i <= Len(typed) + 1
<1>1. typed \in Seq(Tokens) /\ argv \in Seq(Tokens \cup {NULL})
  BY DEF ConfigInv, TypeOK
<1>2. Len(typed) \in Nat /\ \A j \in 1 .. Len(typed) : typed[j] \in Tokens
  BY <1>1, LenProperties, ElementOfSeq
<1>3. Argc = Len(typed) /\ i \in 1 .. Argc + 1
  BY DEF ConfigInv, TypeOK
<1>4. i \in Nat /\ 1 <= i /\ i <= Len(typed) + 1
  BY <1>2, <1>3
<1> QED BY <1>1, <1>2, <1>3, <1>4 DEF Argc

(* The cast keeps every number within 16 bits.                             *)
LEMMA ToPortType ==
  ASSUME NEW t \in DOMAIN Number
  PROVE  ToPort(t) \in 0 .. UShorts - 1
<1>1. Number[t] \in Nat
  BY DEF Number
<1> QED BY <1>1, UShortsType DEF ToPort

LEMMA SeenOptions ==
  Options \in SUBSET Int /\ Seen \in SUBSET Int /\ \A k \in Seen : k < i
  BY DEF Options, Seen

(* The scan has come to an argument that is still there.                   *)
LEMMA AtArgument ==
  ASSUME ConfigInv, pc = "scan", i <= Argc
  PROVE  /\ argv[i] = typed[i] /\ typed[i] \in Tokens
         /\ i \in Options <=> Takes(argv[i]) /\ i < Argc
         /\ i - 1 \notin Options
<1>1. /\ i \in 1 .. Len(typed) /\ Argc = Len(typed) /\ Len(typed) \in Nat
      /\ typed[i] \in Tokens
  BY CommandLine
<1>2. i - 1 \notin Options
  BY <1>1 DEF ConfigInv, ScanInv, Seen, Options
<1>3. argv[i] = typed[i]
  BY <1>1, <1>2 DEF ConfigInv, ScanInv
<1> QED BY <1>1, <1>2, <1>3 DEF Options

(* The scan gives up at an option whose value looks like a flag.           *)
LEMMA GiveUpInv ==
  ASSUME ConfigInv, GiveUp, pc # "done", Expected = NoConfig
  PROVE  ConfigInv'
<1>1. /\ UNCHANGED <<typed, files, valid, roots, argv, i, args, cfg>>
      /\ UNCHANGED world /\ pc' = "done"
  BY DEF GiveUp, world
<1>2. TypeOK'
  BY <1>1 DEF ConfigInv, TypeOK, Argc
<1>3. Expected' = NoConfig
  BY <1>1, TypedStays
<1>4. cfg' = NoConfig
  BY <1>1 DEF ConfigInv
<1> QED BY <1>1, <1>2, <1>3, <1>4 DEF ConfigInv, ScanInv, ArgsInv

LEMMA ScanOptionInv ==
  ASSUME ConfigInv, ScanOption
  PROVE  ConfigInv'
<1>1. i \in Options /\ argv[i] = typed[i] /\ i < Argc /\ pc = "scan" /\ i - 1 \notin Options
  <2>1. pc = "scan" /\ i < Argc /\ Takes(argv[i])
    BY DEF ScanOption
  <2> QED BY <2>1, AtArgument, CommandLine
<1>2. /\ Argc = Len(typed) /\ Len(argv) = Len(typed) /\ Len(typed) \in Nat /\ i \in Nat /\ i >= 1
      /\ argv \in Seq(Tokens \cup {NULL})
      /\ i + 1 \in 1 .. Len(typed) /\ typed[i + 1] \in Tokens /\ typed[i] \in Tokens
  BY <1>1, CommandLine
<1>3. argv[i + 1] = typed[i + 1]
  BY <1>1, <1>2 DEF ConfigInv, ScanInv
<1>4. CASE IsFlag(argv[i + 1])
  <2>1. Expected = NoConfig
    BY <1>1, <1>3, <1>4 DEF Expected, Complete
  <2>2. GiveUp
    BY <1>4 DEF ScanOption
  <2> QED BY <1>1, <2>1, <2>2, GiveUpInv
<1>5. CASE ~IsFlag(argv[i + 1])
  <2>1. /\ args' = CASE argv[i] = "-c" -> [args EXCEPT !.config = argv[i + 1]]
                      [] argv[i] = "-p" /\ argv[i + 1] \in DOMAIN Number ->
                           [args EXCEPT !.port = ToPort(argv[i + 1])]
                      [] OTHER -> args
        /\ argv' = [argv EXCEPT ![i] = NULL, ![i + 1] = NULL]
        /\ i' = i + 2 /\ pc' = "scan" /\ cfg' = cfg
        /\ UNCHANGED <<typed, files, valid, roots>> /\ UNCHANGED world
    BY <1>1, <1>5 DEF ScanOption, world
  <2>2. i + 1 \notin Options
    BY <1>3, <1>5 DEF Options, Takes, IsFlag, Flags
  <2>3. Options' = Options
    BY <2>1, TypedStays
  <2>4. Seen' = Seen \cup {i}
    <3>1. Options \in SUBSET Int
      BY SeenOptions
    <3> QED BY <1>1, <1>2, <2>1, <2>2, <2>3, <3>1 DEF Seen
  <2>5. ConfigGiven(Seen)' = IF typed[i] = "-c" THEN typed[i + 1] ELSE ConfigGiven(Seen)
    <3>1. ConfigGiven(Seen)' = ConfigGiven(Seen \cup {i})
      BY <2>1, <2>4, SeenStays
    <3>2. ConfigGiven(Seen \cup {i}) = IF typed[i] = "-c" THEN typed[i + 1] ELSE ConfigGiven(Seen)
      BY <1>2, SeenOptions, ConfigGivenByNext
    <3> QED BY <3>1, <3>2
  <2>6. PortGiven(Seen)' = IF typed[i] = "-p" /\ typed[i + 1] \in DOMAIN Number
                           THEN ToPort(typed[i + 1]) ELSE PortGiven(Seen)
    <3>1. PortGiven(Seen)' = PortGiven(Seen \cup {i})
      BY <2>1, <2>4, SeenStays
    <3>2. i \in Int /\ Seen \in SUBSET Int /\ \A j \in Seen : j < i
      BY <1>2, SeenOptions
    <3>3. PortGiven(Seen \cup {i}) = IF typed[i] = "-p" /\ typed[i + 1] \in DOMAIN Number
                                     THEN ToPort(typed[i + 1]) ELSE PortGiven(Seen)
      BY <3>2, PortGivenByNext, Zenon
    <3> QED BY <3>1, <3>3
  <2>7. args = [config |-> ConfigGiven(Seen), port |-> PortGiven(Seen), root |-> NULL]
    BY <1>1 DEF ConfigInv, ScanInv
  <2>8. args' = [config |-> ConfigGiven(Seen)', port |-> PortGiven(Seen)', root |-> NULL]
    <3>1. typed[i] = "-c" \/ typed[i] = "-p"
      BY <1>1 DEF Options, Takes
    <3>2. CASE typed[i] = "-c"
      <4>1. args' = [args EXCEPT !.config = typed[i + 1]]
        BY <1>1, <1>3, <2>1, <3>2
      <4>2. ConfigGiven(Seen)' = typed[i + 1] /\ PortGiven(Seen)' = PortGiven(Seen)
        BY <2>5, <2>6, <3>2
      <4> QED BY <2>7, <4>1, <4>2
    <3>3. CASE typed[i] = "-p" /\ typed[i + 1] \in DOMAIN Number
      <4>1. args' = [args EXCEPT !.port = ToPort(typed[i + 1])]
        BY <1>1, <1>3, <2>1, <3>3
      <4>2. ConfigGiven(Seen)' = ConfigGiven(Seen) /\ PortGiven(Seen)' = ToPort(typed[i + 1])
        BY <2>5, <2>6, <3>3
      <4> QED BY <2>7, <4>1, <4>2
    <3>4. CASE typed[i] = "-p" /\ typed[i + 1] \notin DOMAIN Number
      <4>1. args' = args
        BY <1>1, <1>3, <2>1, <3>4
      <4>2. ConfigGiven(Seen)' = ConfigGiven(Seen) /\ PortGiven(Seen)' = PortGiven(Seen)
        BY <2>5, <2>6, <3>4
      <4> QED BY <2>7, <4>1, <4>2
    <3> QED BY <3>1, <3>2, <3>3, <3>4
  <2>9. argv' \in Seq(Tokens \cup {NULL}) /\ Len(argv') = Len(typed)
    <3>1. [argv EXCEPT ![i] = NULL] \in Seq(Tokens \cup {NULL}) /\ Len([argv EXCEPT ![i] = NULL]) = Len(argv)
      BY <1>2, ExceptSeq
    <3>2. /\ [[argv EXCEPT ![i] = NULL] EXCEPT ![i + 1] = NULL] \in Seq(Tokens \cup {NULL})
          /\ Len([[argv EXCEPT ![i] = NULL] EXCEPT ![i + 1] = NULL]) = Len(argv)
      BY <1>2, <3>1, ExceptSeq
    <3> QED BY <1>2, <2>1, <3>2
  <2>10. TypeOK'
    <3>1. typed[i + 1] \in DOMAIN Number => ToPort(typed[i + 1]) \in 0 .. UShorts - 1
      BY ToPortType
    <3>2. args' \in [config : Tokens \cup {NULL, Searched[1], Searched[2]},
                    port : 0 .. UShorts - 1, root : Tokens \cup {NULL}]
      BY <1>2, <1>3, <2>1, <3>1 DEF ConfigInv, TypeOK
    <3> QED BY <1>1, <1>2, <2>1, <2>9, <3>2 DEF TypeOK, Argc
  <2>11. Complete(Seen)'
    BY <1>1, <1>3, <1>5, <2>1, <2>4 DEF ConfigInv, ScanInv, Complete
  <2>12. \A k \in Seen' : k + 1 < i'
    BY <1>1, <1>2, <2>1, <2>4, SeenOptions DEF ConfigInv, ScanInv
  <2>13. \A j \in 1 .. Len(typed) :
           argv'[j] = IF j < i + 2 /\ (j \in Options \/ j - 1 \in Options) THEN NULL ELSE typed[j]
    <3> SUFFICES ASSUME NEW j \in 1 .. Len(typed)
                 PROVE  argv'[j] = IF j < i + 2 /\ (j \in Options \/ j - 1 \in Options)
                                   THEN NULL ELSE typed[j]
      OBVIOUS
    <3>1. argv[j] = IF j < i /\ (j \in Options \/ j - 1 \in Options) THEN NULL ELSE typed[j]
      BY <1>1, <1>2 DEF ConfigInv, ScanInv
    <3>2. argv'[j] = IF j = i \/ j = i + 1 THEN NULL ELSE argv[j]
      BY <1>2, <2>1
    <3> QED BY <1>1, <1>2, <3>1, <3>2
  <2>14. ScanInv'
    BY <1>2, <2>1, <2>3, <2>8, <2>9, <2>11, <2>12, <2>13 DEF ScanInv, Argc
  <2> QED BY <1>1, <2>1, <2>10, <2>14 DEF ConfigInv, ArgsInv
<1> QED BY <1>4, <1>5

LEMMA ScanOtherInv ==
  ASSUME ConfigInv, ScanOther
  PROVE  ConfigInv'
<1>1. /\ pc = "scan" /\ i <= Argc /\ ~(Takes(argv[i]) /\ i < Argc) /\ i' = i + 1
      /\ UNCHANGED <<typed, files, valid, roots, argv, args, pc, cfg>> /\ UNCHANGED world
  BY DEF ScanOther, world
<1>2. i \notin Options /\ i - 1 \notin Options /\ argv[i] = typed[i]
  BY <1>1, AtArgument
<1>3. Argc = Len(typed) /\ Len(typed) \in Nat /\ i \in Nat /\ i >= 1 /\ Argc' = Argc
  BY <1>1, CommandLine DEF Argc
<1>4. Options' = Options
  BY <1>1, TypedStays
<1>5. Seen' = Seen
  <2>1. \A k \in Options : k < i + 1 <=> k < i
    <3> SUFFICES ASSUME NEW k \in Options PROVE k < i + 1 <=> k < i
      OBVIOUS
    <3>1. k \in Int /\ k # i
      BY <1>2, SeenOptions
    <3> QED BY <1>3, <3>1
  <2> QED BY <1>1, <1>4, <2>1 DEF Seen
<1>6. ConfigGiven(Seen)' = ConfigGiven(Seen) /\ PortGiven(Seen)' = PortGiven(Seen)
  BY <1>1, <1>5, SeenStays
<1>7. TypeOK'
  BY <1>1, <1>3 DEF ConfigInv, TypeOK
<1>8. Complete(Seen)'
  BY <1>1, <1>5 DEF ConfigInv, ScanInv, Complete
<1>9. \A k \in Seen' : k + 1 < i'
  BY <1>1, <1>3, <1>5, SeenOptions DEF ConfigInv, ScanInv
<1>10. \A j \in 1 .. Argc :
         argv[j] = IF j < i + 1 /\ (j \in Options \/ j - 1 \in Options) THEN NULL ELSE typed[j]
  BY <1>1, <1>2, <1>3 DEF ConfigInv, ScanInv
<1>11. ScanInv'
  BY <1>1, <1>3, <1>4, <1>6, <1>8, <1>9, <1>10 DEF ConfigInv, ScanInv
<1> QED BY <1>1, <1>7, <1>11 DEF ConfigInv, ArgsInv

LEMMA TakeRootInv ==
  ASSUME ConfigInv, TakeRoot
  PROVE  ConfigInv'
<1>1. /\ pc = "scan" /\ i > Argc /\ pc' = "search" /\ i' = i /\ cfg' = cfg
      /\ UNCHANGED <<typed, files, valid, roots>> /\ UNCHANGED world
  BY DEF TakeRoot, world
<1>2. Argc = Len(typed) /\ Len(argv) = Len(typed) /\ Len(typed) \in Nat /\ i = Len(typed) + 1
  BY <1>1, CommandLine
<1>3. Seen = Options
  BY <1>2 DEF Seen, Options
<1>4. /\ Complete(Options)
      /\ args = [config |-> ConfigGiven(Options), port |-> PortGiven(Options), root |-> NULL]
  BY <1>1, <1>3 DEF ConfigInv, ScanInv
<1>5. CASE Argc > 0 /\ argv[Argc] # NULL /\ ~IsFlag(argv[Argc])
  <2>1. /\ args' = [args EXCEPT !.root = argv[Argc]]
        /\ argv' = [argv EXCEPT ![Argc] = NULL]
    BY <1>5 DEF TakeRoot
  <2>2. argv[Argc] = typed[Argc] /\ typed[Argc] \in Tokens /\ Argc - 1 \notin Options
    <3>1. argv[Argc] = IF Argc < i /\ (Argc \in Options \/ Argc - 1 \in Options)
                       THEN NULL ELSE typed[Argc]
      BY <1>1, <1>2, <1>5 DEF ConfigInv, ScanInv
    <3> QED BY <1>2, <1>5, <3>1, CommandLine
  <2>3. Root = typed[Argc] /\ Root # FileRoot
    BY <1>2, <1>5, <2>2, NoTokens DEF Root
  <2>4. argv' \in Seq(Tokens \cup {NULL}) /\ Len(argv') = Len(argv)
    BY <1>2, <1>5, <2>1, CommandLine, ExceptSeq
  <2>5. TypeOK'
    BY <1>1, <1>2, <2>1, <2>2, <2>4, CommandLine DEF ConfigInv, TypeOK, Argc
  <2>6. ArgsInv'
    BY <1>1, <1>4, <2>1, <2>2, <2>3, TypedStays DEF ArgsInv, Complete
  <2> QED BY <1>1, <2>5, <2>6 DEF ConfigInv, ScanInv
<1>6. CASE ~(Argc > 0 /\ argv[Argc] # NULL /\ ~IsFlag(argv[Argc]))
  <2>1. args' = args /\ argv' = argv
    BY <1>6 DEF TakeRoot
  <2>2. Root = FileRoot
    <3> SUFFICES ASSUME Argc > 0, Argc - 1 \notin Options, ~IsFlag(typed[Argc]) PROVE FALSE
      BY <1>2 DEF Root
    <3>1. Argc \notin Options
      BY <1>2 DEF Options
    <3>2. argv[Argc] = typed[Argc] /\ typed[Argc] \in Tokens
      BY <1>1, <1>2, <3>1, CommandLine DEF ConfigInv, ScanInv
    <3> QED BY <1>6, <3>2, NoTokens
  <2>3. TypeOK'
    BY <1>1, <2>1 DEF ConfigInv, TypeOK, Argc
  <2>4. ArgsInv'
    BY <1>1, <1>4, <2>1, <2>2, TypedStays DEF ArgsInv, Complete
  <2> QED BY <1>1, <2>1, <2>3, <2>4 DEF ConfigInv, ScanInv
<1> QED BY <1>5, <1>6

LEMMA SearchForConfigFileInv ==
  ASSUME ConfigInv, SearchForConfigFile
  PROVE  ConfigInv'
<1>1. /\ pc = "search"
      /\ Complete(Options)
      /\ args = [config |-> ConfigGiven(Options), port |-> PortGiven(Options),
                 root |-> IF Root = FileRoot THEN NULL ELSE Root]
  BY DEF SearchForConfigFile, ConfigInv, ArgsInv
<1>2. DOMAIN Searched = {1, 2}
  BY DEF Searched
<1>3. CASE args.config # NULL
  <2>1. pc' = "load" /\ UNCHANGED <<typed, files, valid, roots, argv, i, args, cfg>> /\ UNCHANGED world
    BY <1>3 DEF SearchForConfigFile, world
  <2>2. ConfigFile = ConfigGiven(Options)
    BY <1>1, <1>3 DEF ConfigFile
  <2>3. TypeOK'
    BY <2>1 DEF ConfigInv, TypeOK, Argc
  <2>4. ArgsInv'
    BY <1>1, <1>3, <2>1, <2>2, TypedStays DEF ArgsInv, Complete
  <2> QED BY <1>1, <2>1, <2>3, <2>4 DEF ConfigInv, ScanInv
<1>4. CASE args.config = NULL /\ \A k \in DOMAIN Searched : Searched[k] \notin files
  <2>1. ConfigFile = NULL
    BY <1>1, <1>4 DEF ConfigFile
  <2>2. Expected = NoConfig
    BY <2>1 DEF Expected, ConfigInv
  <2>3. GiveUp
    BY <1>4 DEF SearchForConfigFile
  <2> QED BY <1>1, <2>2, <2>3, GiveUpInv
<1>5. CASE args.config = NULL /\ ~\A k \in DOMAIN Searched : Searched[k] \notin files
  <2>1. /\ args' = [args EXCEPT !.config = IF Searched[1] \in files THEN Searched[1] ELSE Searched[2]]
        /\ pc' = "load" /\ UNCHANGED <<typed, files, valid, roots, argv, i, cfg>> /\ UNCHANGED world
    BY <1>5 DEF SearchForConfigFile, world
  <2>2. ConfigFile = IF Searched[1] \in files THEN Searched[1] ELSE Searched[2]
    BY <1>1, <1>2, <1>5 DEF ConfigFile
  <2>3. TypeOK'
    BY <2>1 DEF ConfigInv, TypeOK, Argc
  <2>4. ArgsInv'
    BY <1>1, <2>1, <2>2, TypedStays DEF ArgsInv, Complete, Searched, NULL
  <2> QED BY <1>1, <2>1, <2>3, <2>4 DEF ConfigInv, ScanInv
<1> QED BY <1>3, <1>4, <1>5

LEMMA LoadConfigInv ==
  ASSUME ConfigInv, LoadConfig
  PROVE  ConfigInv'
<1> DEFINE root == IF args.root # NULL THEN args.root ELSE FileRoot
<1>1. /\ pc = "load"
      /\ Complete(Options)
      /\ args = [config |-> ConfigFile, port |-> PortGiven(Options),
                 root |-> IF Root = FileRoot THEN NULL ELSE Root]
  BY DEF LoadConfig, ConfigInv, ArgsInv
<1>2. root = Root
  <2>1. Root # NULL
    <3>1. Len(typed) > 0 => typed[Len(typed)] \in Tokens
      BY CommandLine
    <3> QED BY <3>1, CommandLine, NoTokens DEF Root, FileRoot, NULL
  <2> QED BY <1>1, <2>1
<1>3. CASE args.config \notin valid \/ root \notin roots
  <2>1. GiveUp
    BY <1>3 DEF LoadConfig
  <2>2. Expected = NoConfig
    BY <1>1, <1>2, <1>3 DEF Expected
  <2> QED BY <1>1, <2>1, <2>2, GiveUpInv
<1>4. CASE ~(args.config \notin valid \/ root \notin roots)
  <2>1. /\ cfg' = [file |-> args.config, port |-> IF args.port # 0 THEN args.port ELSE FilePort,
                   root |-> root]
        /\ pc' = "done" /\ UNCHANGED <<typed, files, valid, roots, argv, i, args>> /\ UNCHANGED world
    BY <1>4 DEF LoadConfig, world
  <2>2. cfg' = Expected
    BY <1>1, <1>2, <1>4, <2>1 DEF Expected, Port
  <2>3. Expected' = Expected
    BY <2>1, TypedStays
  <2>4. TypeOK'
    BY <2>1 DEF ConfigInv, TypeOK, Argc
  <2> QED BY <2>1, <2>2, <2>3, <2>4 DEF ConfigInv, ScanInv, ArgsInv
<1> QED BY <1>3, <1>4

LEMMA StutterInv ==
  ASSUME ConfigInv, UNCHANGED vars
  PROVE  ConfigInv'
<1>1. UNCHANGED <<typed, files, valid, roots, argv, i, args, pc, cfg>> /\ UNCHANGED world
  BY DEF vars, world
<1>2. TypeOK'
  BY <1>1 DEF ConfigInv, TypeOK, Argc
<1>3. Options' = Options /\ Seen' = Seen
  BY <1>1, TypedStays DEF Seen
<1>4. ScanInv'
  BY <1>1, <1>3, SeenStays DEF ConfigInv, ScanInv, Argc, Complete
<1>5. ArgsInv' /\ Expected' = Expected
  BY <1>1, TypedStays DEF ConfigInv, ArgsInv, Complete
<1> QED BY <1>1, <1>2, <1>4, <1>5 DEF ConfigInv

----------------------------------------------------------------------------

(* The scan, the search and the load keep what they have found in step with*)
(* the command line as typed (config.c:15-214).                            *)
THEOREM ConfigInvariant == Spec => []ConfigInv
<1>1. ConfigInv /\ [Next]_vars => ConfigInv'
  BY ScanOptionInv, ScanOtherInv, TakeRootInv, SearchForConfigFileInv, LoadConfigInv, StutterInv
     DEF Next
<1> QED BY InitConfigInv, <1>1, PTL DEF Spec

(* The loop of parseCmdArgs never passes the end of argv, and the port fits*)
(* its 16 bits (config.c:15-94).                                           *)
THEOREM ConfigTypeCorrect == Spec => []TypeOK
<1>1. ConfigInv => TypeOK
  BY DEF ConfigInv
<1> QED BY ConfigInvariant, <1>1, PTL

(* readConfig returns what the command line, read as a whole, asks for     *)
(* (config.c:98-133, 180-214).                                             *)
THEOREM ConfigCorrect == Spec => []ConfigAsExpected
<1>1. ConfigInv => ConfigAsExpected
  BY DEF ConfigInv, ConfigAsExpected
<1> QED BY ConfigInvariant, <1>1, PTL

=============================================================================
