------------------------------- MODULE ConfigFile -------------------------------
(***************************************************************************)
(* The configuration of a start (config.py): what the file of KEY=VALUE    *)
(* lines says, how one line of it is replaced, and which of command line,  *)
(* environment, file and default wins.  A file is a sequence of <<key,     *)
(* value>> pairs; comments and lines without "=" have the key NoKey.       *)
(***************************************************************************)
EXTENDS Naturals, Sequences

CONSTANTS
  Key, NoKey,   \* the settings, by the names of their environment variables
  IntKey,       \* those that are read with _env_int
  Value, Unset,
  Numeral,      \* the values that int() accepts
  Strip,        \* value -> what is left without blanks and quotes around it
  Default       \* setting -> its default in Config

ASSUME ConfigAssumption ==
  /\ NoKey \notin Key /\ IntKey \subseteq Key
  /\ Unset \notin Value /\ Numeral \subseteq Value
  /\ Strip \in [Value -> Value] /\ Default \in [Key -> Value]

Lines    == Seq((Key \cup {NoKey}) \X Value)
Settings == [Key -> Value \cup {Unset}]

At(file, k)   == {i \in DOMAIN file : file[i][1] = k}
Once(file, k) == \A i, j \in At(file, k) : i = j

\* load_config_file: of repeated lines the last one counts.
Load(file) ==
  [k \in Key |->
     IF At(file, k) = {} THEN Unset
     ELSE Strip[file[CHOOSE i \in At(file, k) : \A j \in At(file, k) : j <= i][2]]]

\* Mutant of Written: the old lines are not read before the file is opened for writing.
WrittenAlone(file, k, v) == <<<<k, v>>>>

\* write_config_value: of repeated lines the first one is replaced.
Written(file, k, v) ==
  IF At(file, k) = {} THEN Append(file, <<k, v>>)
  ELSE [file EXCEPT ![CHOOSE i \in At(file, k) : \A j \in At(file, k) : i <= j] = <<k, v>>]

\* _env_int and _env_str, with the default: no number is no value.
Parse(k, v) ==
  IF v = Unset \/ (k \in IntKey /\ v \notin Numeral) THEN Default[k] ELSE v

First(s, t) == [k \in Key |-> IF s[k] # Unset THEN s[k] ELSE t[k]]

\* build_config: options given on the command line, then the environment, which the
\* file fills up, then the defaults.
Build(file, env, args) ==
  First(args, [k \in Key |-> Parse(k, First(env, Load(file))[k])])
===============================================================================
