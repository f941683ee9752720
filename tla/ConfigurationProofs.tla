-------------------------- MODULE ConfigurationProofs -------------------------
(* What TLAPS proves of Configuration, for any directories, files, environments *)
(* and command lines, and any number of levels.                                 *)
EXTENDS Configuration, TLAPS

Line == [kind : Kinds, key : Keys \cup {Empty}, value : Value]

(* What the first n lines have made of k.                                       *)
Settled(k, n) ==
  IF inherited[k] # Unset THEN env[k] = inherited[k]
  ELSE \/ \E i \in 1 .. n : first(lines, i, k) /\ env[k] = unquote(lines[i].value)
       \/ env[k] = Unset /\ \A i \in 1 .. n : ~names(lines, i, k)

(* Where k's value is from once the file is read.                               *)
Sourced(k) ==
  IF inherited[k] # Unset THEN env[k] = inherited[k]
  ELSE \/ \E i \in DOMAIN file : sets(file, i, k) /\ env[k] = unquote(file[i].value)
       \/ env[k] = Unset /\ \A i \in DOMAIN file : ~sets(file, i, k)

Finding ==
  pc = "find" => env = inherited /\ \A m \in 1 .. at - 1 : m \in DOMAIN tree => tree[m] = NoFile

Reading == pc = "read" => env = inherited /\ nearest(at)

InLines ==
  pc = "lines" =>
    /\ lines = file
    /\ at - 1 <= Len(lines)
    /\ \A k \in Keys : Settled(k, at - 1)
    /\ \A j \in 1 .. at - 1 : ~fatal(lines, j)

Read == pc \in {"flags", "run", "done"} => \A k \in Keys : Sourced(k)

Inv == TypeOK /\ Finding /\ Reading /\ InLines /\ Read /\ OptionsAreSourced
-------------------------------------------------------------------------------
LEMMA UnquoteType ==
  ASSUME NEW v \in Value
  PROVE  unquote(v) \in Value /\ unquote(v) # Unset
<1>1. unquote(v) \in Value
  BY DEF unquote, Value
<1> QED BY <1>1, ConfigurationAssumption

LEMMA PlainType == plain(Empty) \in Value
BY ConfigurationAssumption DEF plain, Value

LEMMA LinesAre == Lines = Seq(Line)
BY DEF Lines, Line

LEMMA TreeType ==
  ASSUME TypeOK
  PROVE  /\ tree \in Seq({NoFile, Unreadable} \cup Lines)
         /\ Levels \in Nat /\ at \in Nat \ {0}
         /\ lines \in Seq(Line)
BY ConfigurationAssumption, LinesAre DEF TypeOK

LEMMA UnquotedLines ==
  ASSUME NEW f \in Seq(Line), NEW i \in DOMAIN f
  PROVE  unquote(f[i].value) # Unset
<1>1. f[i] \in Line
  OBVIOUS
<1>2. f[i].value \in Value
  BY <1>1 DEF Line
<1> QED BY <1>2, UnquoteType

(* There is one nearest file, and it is the one file speaks of.                 *)
LEMMA FileIs ==
  ASSUME TypeOK, NEW n, nearest(n)
  PROVE  file = IF tree[n] = Unreadable THEN <<>> ELSE tree[n]
<1>1. tree \in Seq({NoFile, Unreadable} \cup Lines)
  BY TreeType
<1>2. ASSUME NEW m, nearest(m) PROVE m = n
  <2>1. m \in 1 .. Len(tree) /\ n \in 1 .. Len(tree) /\ tree[m] # NoFile /\ tree[n] # NoFile
    BY <1>1, <1>2 DEF nearest
  <2>2. ~(m < n) /\ ~(n < m)
    BY <2>1, <1>2 DEF nearest
  <2> QED BY <2>1, <2>2
<1>3. n \in DOMAIN tree /\ (CHOOSE m \in DOMAIN tree : nearest(m)) = n
  BY <1>2 DEF nearest
<1>4. (\E m \in DOMAIN tree : nearest(m) /\ tree[m] # Unreadable) <=> tree[n] # Unreadable
  BY <1>2, <1>3
<1> QED BY <1>3, <1>4 DEF file

LEMMA NoFileIs ==
  ASSUME \A n \in DOMAIN tree : ~nearest(n)
  PROVE  file = <<>>
BY DEF file

LEMMA FileType ==
  ASSUME TypeOK
  PROVE  file \in Seq(Line)
<1>1. <<>> \in Seq(Line)
  OBVIOUS
<1>2. CASE \A n \in DOMAIN tree : ~nearest(n)
  BY <1>1, <1>2, NoFileIs
<1>3. CASE \E n \in DOMAIN tree : nearest(n)
  <2>1. PICK n \in DOMAIN tree : nearest(n)
    BY <1>3
  <2>2. tree[n] \in {Unreadable} \cup Seq(Line)
    BY <2>1, TreeType, LinesAre DEF nearest
  <2> QED BY <1>1, <2>1, <2>2, FileIs
<1> QED BY <1>2, <1>3

LEMMA InitInv == Init => Inv
<1> SUFFICES ASSUME Init PROVE Inv
  OBVIOUS
<1>1. TypeOK
  <2>1. <<>> \in Lines
    BY LinesAre
  <2> QED BY <2>1, PlainType, ConfigurationAssumption DEF Init, TypeOK
<1>2. Finding /\ Reading /\ InLines /\ Read /\ OptionsAreSourced
  BY DEF Init, Finding, Reading, InLines, Read, OptionsAreSourced
<1> QED BY <1>1, <1>2 DEF Inv
-------------------------------------------------------------------------------
LEMMA NextType ==
  ASSUME TypeOK, [Next]_vars
  PROVE  TypeOK'
<1> USE DEF TypeOK
<1>0. tree \in Seq({NoFile, Unreadable} \cup Lines) /\ Levels \in Nat /\ at \in Nat \ {0}
  BY TreeType
<1>1. CASE findUp
  <2>1. CASE at > Levels \/ at > Len(tree)
    BY <1>1, <2>1 DEF findUp
  <2>2. CASE ~(at > Levels \/ at > Len(tree))
    <3>1. at \in DOMAIN tree /\ at + 1 \in Nat \ {0}
      BY <2>2, <1>0
    <3> QED BY <1>1, <2>2, <3>1 DEF findUp
  <2> QED BY <2>1, <2>2
<1>2. CASE ReadFile
  <2>1. at \in DOMAIN tree /\ tree[at] # NoFile
    BY <1>2 DEF ReadFile
  <2>2. tree[at] = Unreadable \/ tree[at] \in Lines
    BY <2>1, <1>0
  <2> QED BY <1>2, <2>2 DEF ReadFile
<1>3. CASE ReadLine
  <2> DEFINE line == lines[at]
  <2>1. line \in Line
    BY <1>3, <1>0, LinesAre DEF ReadLine
  <2>2. CASE ignored(line) \/ taken(line)
    BY <1>3, <2>2, <1>0 DEF ReadLine
  <2>3. CASE ~(ignored(line) \/ taken(line)) /\ setenvFails(line)
    BY <1>3, <2>3 DEF ReadLine
  <2>4. CASE ~(ignored(line) \/ taken(line)) /\ ~setenvFails(line)
    <3>1. unquote(line.value) \in Value /\ line.key \in Keys
      BY <2>1, <2>4, UnquoteType DEF Line, ignored
    <3>2. env' \in [Keys -> Value \cup {Unset}]
      BY <1>3, <2>4, <3>1 DEF ReadLine
    <3> QED BY <1>3, <2>4, <3>2, <1>0 DEF ReadLine
  <2> QED BY <2>2, <2>3, <2>4
<1>4. CASE EndOfFile
  BY <1>4 DEF EndOfFile
<1>5. CASE ParseFlags
  <2>1. PICK line \in CommandLines :
          /\ given' = line.given /\ asked' = line.asked
          /\ options' = [k \in OptionKeys |-> IF line.given[k] = Unset THEN getenv(k) ELSE line.given[k]]
    BY <1>5 DEF ParseFlags
  <2>2. line.given \in [OptionKeys -> Value \cup {Unset}] /\ line.asked \subseteq ModeFlags
    BY ConfigurationAssumption
  <2>3. \A k \in OptionKeys : getenv(k) \in Value
    BY PlainType, ConfigurationAssumption DEF getenv
  <2>4. options' \in [OptionKeys -> Value]
    BY <2>1, <2>2, <2>3
  <2> QED BY <1>5, <2>1, <2>2, <2>4 DEF ParseFlags
<1>6. CASE RunMode
  BY <1>6 DEF RunMode, ModeFlags
<1>7. CASE UNCHANGED vars
  BY <1>7 DEF vars
<1> QED BY <1>1, <1>2, <1>3, <1>4, <1>5, <1>6, <1>7 DEF Next

(* What the reading of the file left is not touched by the steps after it.      *)
LEMMA SourcedStays ==
  ASSUME UNCHANGED <<tree, inherited, env>>, NEW k, Sourced(k)
  PROVE  Sourced(k)'
<1>1. file' = file
  BY DEF file, nearest
<1> QED BY <1>1 DEF Sourced, sets, fatal, first, names

LEMMA FindUpInv ==
  ASSUME Inv, findUp
  PROVE  (Finding /\ Reading /\ InLines /\ Read)'
<1>0. /\ tree \in Seq({NoFile, Unreadable} \cup Lines) /\ Levels \in Nat /\ at \in Nat \ {0}
      /\ env = inherited /\ \A m \in 1 .. at - 1 : m \in DOMAIN tree => tree[m] = NoFile
  BY TreeType DEF Inv, findUp, Finding
<1>1. CASE at > Levels \/ at > Len(tree)
  <2>1. \A n \in DOMAIN tree : ~nearest(n)
    BY <1>0, <1>1 DEF nearest
  <2>2. \A k : Sourced(k)
    <3>1. file = <<>>
      BY <2>1, NoFileIs
    <3> QED BY <3>1, <1>0 DEF Sourced
  <2>3. \A k : Sourced(k)'
    BY <2>2, SourcedStays DEF findUp
  <2> QED BY <2>3, <1>1 DEF findUp, Finding, Reading, InLines, Read
<1>2. CASE ~(at > Levels \/ at > Len(tree)) /\ tree[at] = NoFile
  <2>1. at' = at + 1 /\ UNCHANGED <<pc, tree, env, inherited>> /\ pc = "find"
    BY <1>2 DEF findUp
  <2>2. \A m \in 1 .. at' - 1 : m \in 1 .. at - 1 \/ m = at
    BY <2>1, <1>0
  <2> QED BY <2>1, <2>2, <1>0, <1>2 DEF Finding, Reading, InLines, Read
<1>3. CASE ~(at > Levels \/ at > Len(tree)) /\ tree[at] # NoFile
  <2>1. pc' = "read" /\ UNCHANGED <<at, tree, env, inherited>>
    BY <1>3 DEF findUp
  <2>2. nearest(at)
    BY <1>0, <1>3 DEF nearest
  <2>3. nearest(at)'
    BY <2>1, <2>2 DEF nearest
  <2> QED BY <2>1, <2>3, <1>0 DEF Finding, Reading, InLines, Read
<1> QED BY <1>1, <1>2, <1>3

LEMMA ReadFileInv ==
  ASSUME Inv, ReadFile
  PROVE  (Finding /\ Reading /\ InLines /\ Read)'
<1>0. env = inherited /\ nearest(at) /\ TypeOK
  BY DEF Inv, ReadFile, Reading
<1>1. CASE tree[at] = Unreadable
  <2>1. file = <<>>
    BY <1>0, <1>1, FileIs
  <2>2. \A k : Sourced(k)
    BY <2>1, <1>0 DEF Sourced
  <2>3. \A k : Sourced(k)'
    BY <2>2, SourcedStays DEF ReadFile
  <2> QED BY <2>3, <1>1 DEF ReadFile, Finding, Reading, InLines, Read
<1>2. CASE tree[at] # Unreadable
  <2>1. /\ pc' = "lines" /\ at' = 1 /\ lines' = tree[at]
        /\ UNCHANGED <<tree, env, inherited>>
    BY <1>2 DEF ReadFile
  <2>2. file' = file /\ file = lines'
    <3>1. file' = file
      BY <2>1 DEF file, nearest
    <3> QED BY <2>1, <3>1, <1>0, <1>2, FileIs
  <2>3. lines' \in Seq(Line)
    BY <2>2, <1>0, FileType
  <2>4. \A k \in Keys : Settled(k, 0)'
    BY <2>1, <1>0 DEF Settled
  <2> QED BY <2>1, <2>2, <2>3, <2>4 DEF Finding, Reading, InLines, Read
<1> QED BY <1>1, <1>2
-------------------------------------------------------------------------------
(* A line about no variable, or about another one, leaves a variable settled.   *)
LEMMA OtherLine ==
  ASSUME NEW k, NEW n \in Nat, ~names(lines, n + 1, k), Settled(k, n)
  PROVE  Settled(k, n + 1)
BY DEF Settled

(* A line that finds its variable unset is the first one about it.              *)
LEMMA FirstLine ==
  ASSUME lines \in Seq(Line), NEW n \in Nat, n + 1 \in DOMAIN lines,
         NEW k \in Keys, Settled(k, n), env[k] = Unset, names(lines, n + 1, k)
  PROVE  inherited[k] = Unset /\ first(lines, n + 1, k)
<1>1. inherited[k] = Unset
  BY DEF Settled
<1>2. \A i \in 1 .. n : unquote(lines[i].value) # Unset
  <2>1. 1 .. n \subseteq DOMAIN lines
    OBVIOUS
  <2> QED BY <2>1, UnquotedLines
<1>3. \A i \in 1 .. n : ~names(lines, i, k)
  BY <1>1, <1>2 DEF Settled
<1> QED BY <1>1, <1>3 DEF first

(* Up to the first line that cannot be set, a first line about k sets it; and   *)
(* what is settled when the reading ends there is where k's value is from.      *)
LEMMA FirstsOf ==
  ASSUME lines \in Seq(Line), NEW n \in Nat, n <= Len(lines), \A j \in 1 .. n : ~fatal(lines, j),
         n = Len(lines) \/ fatal(lines, n + 1), NEW k \in Keys, NEW i \in DOMAIN lines
  PROVE  sets(lines, i, k) <=> i \in 1 .. n /\ first(lines, i, k)
<1>1. i \in 1 .. Len(lines)
  OBVIOUS
<1>2. CASE i \in 1 .. n
  <2>1. \A j \in 1 .. i : j \in 1 .. n
    BY <1>1, <1>2
  <2> QED BY <1>2, <2>1 DEF sets
<1>3. CASE i \notin 1 .. n
  <2>1. n + 1 \in 1 .. i /\ n # Len(lines)
    BY <1>1, <1>3
  <2> QED BY <1>3, <2>1 DEF sets
<1> QED BY <1>2, <1>3

LEMMA SettledIsSourced ==
  ASSUME lines \in Seq(Line), lines = file, NEW n \in Nat, n <= Len(lines), NEW k \in Keys, Settled(k, n),
         \A i \in DOMAIN lines : sets(lines, i, k) <=> i \in 1 .. n /\ first(lines, i, k)
  PROVE  Sourced(k)
<1>1. 1 .. n \subseteq DOMAIN lines
  OBVIOUS
<1>2. CASE inherited[k] # Unset
  BY <1>2 DEF Settled, Sourced
<1>3. CASE inherited[k] = Unset /\ \E i \in 1 .. n : first(lines, i, k) /\ env[k] = unquote(lines[i].value)
  BY <1>1, <1>3 DEF Sourced
<1>4. CASE inherited[k] = Unset /\ env[k] = Unset /\ \A i \in 1 .. n : ~names(lines, i, k)
  BY <1>4 DEF Sourced, first
<1> QED BY <1>2, <1>3, <1>4 DEF Settled

LEMMA ReadLineInv ==
  ASSUME Inv, ReadLine, NEW n \in Nat, at = n + 1, NEW line, line = lines[n + 1]
  PROVE  (Finding /\ Reading /\ InLines /\ Read)'
<1>0. /\ lines \in Seq(Line) /\ n + 1 \in DOMAIN lines /\ line \in Line
      /\ TypeOK /\ lines = file /\ pc = "lines"
      /\ \A k \in Keys : Settled(k, n)
      /\ \A j \in 1 .. n : ~fatal(lines, j)
  BY TreeType DEF Inv, ReadLine, InLines
<1>1. UNCHANGED <<tree, inherited, lines>> /\ file' = file
  BY DEF ReadLine, file, nearest
<1>2. ASSUME NEW k \in Keys, ignored(line) \/ k # line.key PROVE ~names(lines, n + 1, k)
  BY <1>2, ConfigurationAssumption DEF names, ignored
<1>3. ASSUME env' = env, at' = at + 1, pc' = pc,
             \A k \in Keys : Settled(k, n + 1), ~fatal(lines, n + 1)
      PROVE  (Finding /\ Reading /\ InLines /\ Read)'
  <2>1. at' - 1 = n + 1 /\ n + 1 <= Len(lines)
    BY <1>0, <1>3
  <2>2. \A k \in Keys : Settled(k, n + 1)'
    BY <1>1, <1>3 DEF Settled
  <2>3. \A j \in 1 .. n + 1 : ~fatal(lines, j)
    BY <1>0, <1>3
  <2>4. \A j \in 1 .. n + 1 : ~fatal(lines, j)'
    BY <2>3, <1>1 DEF fatal, first, names
  <2>5. InLines'
    BY <1>0, <1>1, <2>1, <2>2, <2>4 DEF InLines
  <2> QED BY <1>0, <1>3, <2>5 DEF Finding, Reading, Read
<1>4. CASE ignored(line)
  <2>1. \A k \in Keys : Settled(k, n + 1)
    BY <1>0, <1>2, <1>4, OtherLine
  <2>2. ~fatal(lines, n + 1)
    BY <1>2, <1>4 DEF fatal, first
  <2> QED BY <1>3, <1>4, <2>1, <2>2 DEF ReadLine
<1>5. CASE ~ignored(line) /\ taken(line)
  <2>1. line.key \in Keys /\ env[line.key] # Unset
    BY <1>0, <1>5 DEF Line, ignored, taken
  <2>2. \A k \in Keys \ {line.key} : Settled(k, n + 1)
    BY <1>0, <1>2, OtherLine
  <2>3. /\ Settled(line.key, n + 1)
        /\ inherited[line.key] = Unset => \E i \in 1 .. n : names(lines, i, line.key)
    BY <1>0, <2>1 DEF Settled, first
  <2>4. ~fatal(lines, n + 1)
    BY <1>0, <1>2, <2>3 DEF fatal, first
  <2> QED BY <1>3, <1>5, <2>2, <2>3, <2>4 DEF ReadLine
<1>6. CASE ~ignored(line) /\ ~taken(line)
  <2>1. /\ line.key \in Keys /\ env[line.key] = Unset
        /\ names(lines, n + 1, line.key)
    BY <1>0, <1>6 DEF Line, ignored, taken, names
  <2>2. inherited[line.key] = Unset /\ first(lines, n + 1, line.key)
    BY <1>0, <2>1, FirstLine
  <2>3. CASE setenvFails(line)
    <3>1. pc' = "flags" /\ UNCHANGED env
      BY <1>6, <2>3 DEF ReadLine
    <3>2. fatal(lines, n + 1)
      BY <2>1, <2>2, <2>3 DEF fatal, setenvFails
    <3>3. n <= Len(lines)
      BY <1>0
    <3>4. ASSUME NEW k \in Keys PROVE Sourced(k)
      <4>1. ASSUME NEW i \in DOMAIN lines
            PROVE  sets(lines, i, k) <=> i \in 1 .. n /\ first(lines, i, k)
        BY <3>2, <3>3, <1>0, FirstsOf
      <4> QED BY <4>1, <3>3, <1>0, SettledIsSourced
    <3>5. \A k \in Keys : Sourced(k)'
      BY <3>1, <3>4, <1>1, SourcedStays
    <3> QED BY <3>1, <3>5 DEF Finding, Reading, InLines, Read
  <2>4. CASE ~setenvFails(line)
    <3>1. /\ env' = [env EXCEPT ![line.key] = unquote(line.value)]
          /\ at' = at + 1 /\ pc' = pc /\ pc = "lines"
      BY <1>6, <2>4 DEF ReadLine
    <3>2. at' - 1 = n + 1 /\ n + 1 <= Len(lines)
      BY <3>1, <1>0
    <3>3. env'[line.key] = unquote(line.value) /\ \A k \in Keys \ {line.key} : env'[k] = env[k]
      BY <3>1, <2>1, <1>0 DEF TypeOK
    <3>4. ASSUME NEW k \in Keys PROVE Settled(k, n + 1)'
      <4>1. CASE k = line.key
        BY <4>1, <3>3, <2>2, <1>0, <1>1 DEF Settled, first, names
      <4>2. CASE k # line.key
        <5>1. Settled(k, n + 1)
          BY <4>2, <1>0, <1>2, OtherLine
        <5>2. env'[k] = env[k]
          BY <4>2, <3>3
        <5> QED BY <5>1, <5>2, <1>1, <3>1 DEF Settled
      <4> QED BY <4>1, <4>2
    <3>5. ~fatal(lines, n + 1)
      BY <2>4, <1>2 DEF fatal, first, setenvFails
    <3>6. \A j \in 1 .. n + 1 : ~fatal(lines, j)
      BY <3>5, <1>0
    <3>7. \A j \in 1 .. n + 1 : ~fatal(lines, j)'
      BY <3>6, <1>1 DEF fatal, first, names
    <3>8. InLines'
      BY <1>0, <1>1, <3>2, <3>4, <3>7 DEF InLines
    <3> QED BY <3>1, <3>8 DEF Finding, Reading, Read
  <2> QED BY <2>3, <2>4
<1> QED BY <1>4, <1>5, <1>6

LEMMA EndOfFileInv ==
  ASSUME Inv, EndOfFile
  PROVE  (Finding /\ Reading /\ InLines /\ Read)'
<1> DEFINE n == Len(lines)
<1>1. /\ lines \in Seq(Line) /\ n \in Nat /\ lines = file /\ at - 1 = n
      /\ \A k \in Keys : Settled(k, at - 1)
      /\ \A j \in 1 .. at - 1 : ~fatal(lines, j)
  BY TreeType DEF Inv, EndOfFile, InLines
<1>2. n <= Len(lines) /\ n = Len(lines) /\ (\A k \in Keys : Settled(k, n)) /\ \A j \in 1 .. n : ~fatal(lines, j)
  BY <1>1
<1> HIDE DEF n
<1>3. ASSUME NEW k \in Keys PROVE Sourced(k)
  <2>1. ASSUME NEW i \in DOMAIN lines
        PROVE  sets(lines, i, k) <=> i \in 1 .. n /\ first(lines, i, k)
    BY <1>1, <1>2, FirstsOf
  <2> QED BY <2>1, <1>1, <1>2, SettledIsSourced
<1>4. \A k \in Keys : Sourced(k)'
  BY <1>3, SourcedStays DEF EndOfFile
<1> QED BY <1>4 DEF EndOfFile, Finding, Reading, InLines, Read

LEMMA ParseFlagsSources ==
  ASSUME Inv, ParseFlags
  PROVE  (Read /\ OptionsAreSourced)'
<1>1. PICK line \in CommandLines :
        /\ given' = line.given
        /\ options' = [k \in OptionKeys |-> IF line.given[k] = Unset THEN getenv(k) ELSE line.given[k]]
  BY DEF ParseFlags
<1>2. UNCHANGED <<tree, inherited, env>> /\ TypeOK /\ \A k \in Keys : Sourced(k)
  BY DEF Inv, ParseFlags, Read
<1>3. \A k \in Keys : Sourced(k)'
  BY <1>2, SourcedStays
<1>4. file \in Seq(Line) /\ file' = file
  BY <1>2, FileType DEF file, nearest
<1>5. \A i \in DOMAIN file : unquote(file[i].value) # Unset
  BY <1>4, UnquotedLines
<1>6. ASSUME NEW k \in OptionKeys
      PROVE  IF given'[k] # Unset THEN options'[k] = given'[k]
             ELSE IF inherited'[k] # Unset THEN options'[k] = inherited'[k]
             ELSE IF \E i \in DOMAIN file' : sets(file, i, k)'
               THEN \E i \in DOMAIN file' : sets(file, i, k)' /\ options'[k] = unquote(file'[i].value)
             ELSE options'[k] = plain(Empty)
  <2>1. Sourced(k)' /\ env'[k] = env[k]
    BY <1>2, <1>3, ConfigurationAssumption
  <2>2. options'[k] = IF given'[k] = Unset THEN getenv(k) ELSE given'[k]
    BY <1>1
  <2> HIDE <1>1
  <2>3. CASE given'[k] = Unset
    <3>1. options'[k] = IF env'[k] = Unset THEN plain(Empty) ELSE env'[k]
      BY <2>1, <2>2, <2>3 DEF getenv
    <3> QED BY <2>1, <2>3, <3>1, <1>4, <1>5 DEF Sourced
  <2> QED BY <2>2, <2>3
<1> QED BY <1>3, <1>6 DEF Read, OptionsAreSourced

LEMMA NextInv ==
  ASSUME Inv, [Next]_vars
  PROVE  Inv'
<1>0. TypeOK'
  BY NextType DEF Inv
<1>1. ASSUME findUp \/ ReadFile \/ ReadLine \/ EndOfFile PROVE Inv'
  <2>1. (Finding /\ Reading /\ InLines /\ Read)'
    <3>1. at \in Nat \ {0} /\ at - 1 \in Nat /\ at = (at - 1) + 1
      BY TreeType DEF Inv
    <3>2. ReadLine => (Finding /\ Reading /\ InLines /\ Read)'
      BY <3>1, ReadLineInv
    <3> QED BY <1>1, <3>2, FindUpInv, ReadFileInv, EndOfFileInv
  <2>2. OptionsAreSourced'
    BY <1>1 DEF findUp, ReadFile, ReadLine, EndOfFile, OptionsAreSourced
  <2> QED BY <1>0, <2>1, <2>2 DEF Inv
<1>2. CASE ParseFlags
  <2>1. (Read /\ OptionsAreSourced)'
    BY <1>2, ParseFlagsSources
  <2> QED BY <1>0, <1>2, <2>1 DEF Inv, ParseFlags, Finding, Reading, InLines
<1>3. ASSUME pc \in {"run", "done"}, pc' = "done", UNCHANGED <<tree, inherited, env, given, options>>
      PROVE  Inv'
  <2>1. \A k \in Keys : Sourced(k)'
    BY <1>3, SourcedStays DEF Inv, Read
  <2>2. OptionsAreSourced'
    <3>1. file' = file
      BY <1>3 DEF file, nearest
    <3> QED BY <1>3, <3>1 DEF Inv, OptionsAreSourced, sets, fatal, first, names
  <2> QED BY <1>0, <1>3, <2>1, <2>2 DEF Inv, Finding, Reading, InLines, Read
<1>4. CASE RunMode
  BY <1>3, <1>4 DEF RunMode
<1>5. CASE UNCHANGED vars
  <2>1. file' = file
    BY <1>5 DEF vars, file, nearest
  <2> QED BY <1>0, <1>5, <2>1
       DEF vars, Inv, Finding, Reading, InLines, Read, OptionsAreSourced, Sourced, Settled,
           nearest, sets, fatal, first, names
<1> QED BY <1>1, <1>2, <1>4, <1>5 DEF Next

LEMMA Invariance == Spec => []Inv
<1>1. Init => Inv
  BY InitInv
<1>2. Inv /\ [Next]_vars => Inv'
  BY NextInv
<1> QED BY <1>1, <1>2, PTL DEF Spec
-------------------------------------------------------------------------------
(* The variables keep their types: no file that cannot be read is gone through, *)
(* and the line loadDotEnv is at is one of the file's (main.go:381).            *)
THEOREM TypeCorrect == Spec => []TypeOK
<1>1. Inv => TypeOK
  BY DEF Inv
<1> QED BY <1>1, Invariance, PTL

(* Whatever the directories and the flags are, every option comes from its      *)
(* flag, else the environment, else the nearest file (main.go:381, 418).        *)
THEOREM OptionsSourced == Spec => []OptionsAreSourced
<1>1. Inv => OptionsAreSourced
  BY DEF Inv
<1> QED BY <1>1, Invariance, PTL

(* "The real environment always beats the file" (main.go:376): no variable that *)
(* has a value is given another one.                                            *)
THEOREM EnvironmentBeatsFile == Spec => EnvironmentStands
<1>1. TypeOK /\ [Next]_vars => [\A k \in Keys : env[k] # Unset => env'[k] = env[k]]_vars
  <2> SUFFICES ASSUME TypeOK, [Next]_vars, NEW k \in Keys, env[k] # Unset
               PROVE  env'[k] = env[k]
    OBVIOUS
  <2>1. CASE ReadLine
    BY <2>1 DEF ReadLine, taken, TypeOK
  <2>2. CASE UNCHANGED env
    BY <2>2
  <2> QED BY <2>1, <2>2 DEF Next, vars, findUp, ReadFile, EndOfFile, ParseFlags, RunMode
<1> QED BY <1>1, TypeCorrect, PTL DEF Spec, EnvironmentStands
===============================================================================
