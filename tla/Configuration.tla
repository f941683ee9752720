---------------------------- MODULE Configuration -----------------------------
(* How lgtsend comes by its options and its mode (cmd/lgtsend/main.go: run,     *)
(* loadDotEnv, findUp): the nearest .env file is read into the environment, one *)
(* line after the other, the flags take their defaults from the environment,    *)
(* and the flags decide what is run.                                            *)
(*                                                                              *)
(* A value is a word in a number of pairs of quotes.  What stands for .env in a *)
(* directory is NoFile (nothing, or a directory), Unreadable, or a sequence of  *)
(* lines; a line is [kind, key, value], its kind "pair" when it has an "=" and  *)
(* is no comment.                                                               *)
EXTENDS Integers, Sequences

CONSTANTS Keys,         \* the names a variable may have
          OptionKeys,   \* those that are the default of an option
          Endpoint,     \* the one of -endpoint
          Words,        \* what a value may be made of
          Nul,          \* a word no variable may hold: it has a NUL in it
          Empty,        \* the empty word
          Unset,        \* a variable that is not set, a flag that is not given
          NoFile, Unreadable,
          Trees,        \* directories: the working directory, then its parents
          Environments, \* what the environment may be at the start
          CommandLines, \* the command lines: [given : option -> value or Unset,
                        \* asked : the flags of ModeFlags that are not empty]
          Levels        \* how many directories are looked at (5 in the code)

Value == [word : Words, quotes : Nat]

plain(word) == [word |-> word, quotes |-> 0]

Kinds == {"pair", "blank", "comment", "word"}

Lines == Seq([kind : Kinds, key : Keys \cup {Empty}, value : Value])

(* The flags that run something instead of sending.                             *)
ModeFlags == {"status", "saml", "download", "attrs"}

ASSUME ConfigurationAssumption ==
  /\ Endpoint \in OptionKeys /\ OptionKeys \subseteq Keys
  /\ Empty \in Words /\ Empty \notin Keys /\ Nul \in Words
  /\ Unset \notin Value /\ Levels \in Nat
  /\ \A t \in Trees : \A i \in DOMAIN t :
       t[i] \in {NoFile, Unreadable} \/ t[i] \in Lines
  /\ NoFile # Unreadable /\ NoFile \notin Lines /\ Unreadable \notin Lines
  /\ \A t \in Trees : t \in Seq({NoFile, Unreadable} \cup Lines)
  /\ Environments \subseteq [Keys -> Value \cup {Unset}]
  /\ CommandLines \subseteq [given : [OptionKeys -> Value \cup {Unset}], asked : SUBSET ModeFlags]

VARIABLES
  tree,       \* the directories
  inherited,  \* history: the environment at the start
  env,        \* key -> its value, or Unset
  pc,         \* where run is
  at,         \* the directory findUp is at; the line loadDotEnv is at
  lines,      \* the lines it reads
  given,      \* the flags on the command line
  options,    \* option -> its value
  asked,      \* the mode flags that are not empty
  outcome     \* the mode it runs, or "usage"

vars == <<tree, inherited, env, pc, at, lines, given, options, asked, outcome>>

Init ==
  /\ tree \in Trees
  /\ inherited \in Environments /\ env = inherited
  /\ pc = "find" /\ at = 1 /\ lines = <<>>
  /\ given = [k \in OptionKeys |-> Unset]
  /\ options = [k \in OptionKeys |-> plain(Empty)]
  /\ asked = {} /\ outcome = "none"
-------------------------------------------------------------------------------
(* Mutant: of the files there are, the outermost one is taken.                  *)
findUp_Outermost ==
  /\ pc = "find"
  /\ LET found == {i \in DOMAIN tree : i <= Levels /\ tree[i] # NoFile}
     IN  IF found = {} THEN pc' = "flags" /\ UNCHANGED at
         ELSE pc' = "read" /\ at' = CHOOSE i \in found : \A j \in found : j <= i
  /\ UNCHANGED <<tree, inherited, env, lines, given, options, asked, outcome>>

(* findUp: the nearest .env that is no directory, Levels directories up at most.*)
findUp ==
  /\ pc = "find"
  /\ IF at > Levels \/ at > Len(tree) THEN pc' = "flags" /\ UNCHANGED at
     ELSE IF tree[at] = NoFile THEN at' = at + 1 /\ UNCHANGED pc
     ELSE pc' = "read" /\ UNCHANGED at
  /\ UNCHANGED <<tree, inherited, env, lines, given, options, asked, outcome>>

(* Mutant: the error of os.ReadFile is overlooked.                              *)
ReadFile_Anyway ==
  /\ pc = "read"
  /\ pc' = "lines" /\ lines' = tree[at] /\ at' = 1
  /\ UNCHANGED <<tree, inherited, env, given, options, asked, outcome>>

(* A file that cannot be read is no file, and nothing is said of it.            *)
ReadFile ==
  /\ pc = "read"
  /\ IF tree[at] = Unreadable THEN pc' = "flags" /\ UNCHANGED <<lines, at>>
     ELSE pc' = "lines" /\ lines' = tree[at] /\ at' = 1
  /\ UNCHANGED <<tree, inherited, env, given, options, asked, outcome>>

unquote(value) == [value EXCEPT !.quotes = IF @ = 0 THEN 0 ELSE @ - 1]

ignored(line) == line.kind # "pair" \/ line.key = Empty

(* Mutant: a variable that is set but empty is taken to be unset.               *)
taken_Getenv(line) == env[line.key] \notin {Unset, plain(Empty)}

(* A variable that is set already is left alone.                                *)
taken(line) == env[line.key] # Unset

setenvFails(line) == line.value.word = Nul

(* loadDotEnv: the next line.  If it cannot be set, those after it are not read.*)
ReadLine ==
  /\ pc = "lines" /\ at <= Len(lines)
  /\ LET line == lines[at]
     IN  IF ignored(line) \/ taken(line) THEN at' = at + 1 /\ UNCHANGED <<env, pc>>
         ELSE IF setenvFails(line) THEN pc' = "flags" /\ UNCHANGED <<env, at>>
         ELSE /\ env' = [env EXCEPT ![line.key] = unquote(line.value)]
              /\ at' = at + 1 /\ UNCHANGED pc
  /\ UNCHANGED <<tree, inherited, lines, given, options, asked, outcome>>

EndOfFile ==
  /\ pc = "lines" /\ at > Len(lines)
  /\ pc' = "flags"
  /\ UNCHANGED <<tree, inherited, env, at, lines, given, options, asked, outcome>>

(* os.Getenv, the default of an option: an unset variable is empty.             *)
getenv(k) == IF env[k] = Unset THEN plain(Empty) ELSE env[k]

(* flag.Parse.                                                                  *)
ParseFlags ==
  /\ pc = "flags"
  /\ \E line \in CommandLines :
       /\ given' = line.given /\ asked' = line.asked
       /\ options' = [k \in OptionKeys |-> IF line.given[k] = Unset THEN getenv(k) ELSE line.given[k]]
  /\ pc' = "run"
  /\ UNCHANGED <<tree, inherited, env, at, lines, outcome>>

(* The rest of run: without an endpoint it is refused; otherwise the mode flags *)
(* are looked at in this order, and none of them means send.                    *)
RunMode ==
  /\ pc = "run"
  /\ outcome' = IF options[Endpoint] = plain(Empty) THEN "usage"
                ELSE IF "status" \in asked THEN "status"
                ELSE IF "saml" \in asked THEN "saml"
                ELSE IF "download" \in asked THEN "download"
                ELSE IF "attrs" \in asked THEN "attrs" ELSE "send"
  /\ pc' = "done"
  /\ UNCHANGED <<tree, inherited, env, at, lines, given, options, asked>>

Next == findUp \/ ReadFile \/ ReadLine \/ EndOfFile \/ ParseFlags \/ RunMode

Spec == Init /\ [][Next]_vars
-------------------------------------------------------------------------------
TypeOK ==
  /\ tree \in Trees
  /\ inherited \in Environments /\ env \in [Keys -> Value \cup {Unset}]
  /\ pc \in {"find", "read", "lines", "flags", "run", "done"}
  /\ at \in Nat \ {0} /\ (pc = "read" => at \in DOMAIN tree /\ tree[at] # NoFile)
  /\ lines \in Lines
  /\ given \in [OptionKeys -> Value \cup {Unset}]
  /\ options \in [OptionKeys -> Value]
  /\ asked \subseteq ModeFlags
  /\ outcome \in ModeFlags \cup {"none", "usage", "send"}

(* A variable that is in the environment, be it empty, keeps its value: "the    *)
(* real environment always beats the file" (main.go:376), and of a name that is *)
(* twice in the file the second has no effect.                                  *)
EnvironmentStands ==
  [][\A k \in Keys : env[k] # Unset => env'[k] = env[k]]_vars

(* Reference: which .env is meant, and which of its lines is the one for k.     *)
nearest(n) ==
  /\ n \in DOMAIN tree /\ n <= Levels /\ tree[n] # NoFile
  /\ \A m \in 1 .. n - 1 : tree[m] = NoFile

names(f, i, k) == f[i].kind = "pair" /\ f[i].key = k

first(f, i, k) == names(f, i, k) /\ \A j \in 1 .. i - 1 : ~names(f, j, k)

fatal(f, i) ==
  \E k \in Keys : first(f, i, k) /\ inherited[k] = Unset /\ f[i].value.word = Nul

sets(f, i, k) == first(f, i, k) /\ \A j \in 1 .. i : ~fatal(f, j)

file ==
  IF \E n \in DOMAIN tree : nearest(n) /\ tree[n] # Unreadable
    THEN tree[CHOOSE n \in DOMAIN tree : nearest(n)] ELSE <<>>

(* What every option is: its flag; else the environment's; else what the first  *)
(* line for it in the nearest .env says, unless a line before it could not be   *)
(* set, which ends the reading; else empty (main.go:381, 418).                  *)
OptionsAreSourced ==
  pc \in {"run", "done"} => \A k \in OptionKeys :
    IF given[k] # Unset THEN options[k] = given[k]
    ELSE IF inherited[k] # Unset THEN options[k] = inherited[k]
    ELSE IF \E i \in DOMAIN file : sets(file, i, k)
      THEN \E i \in DOMAIN file : sets(file, i, k) /\ options[k] = unquote(file[i].value)
    ELSE options[k] = plain(Empty)
===============================================================================
