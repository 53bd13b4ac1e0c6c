------------------------- MODULE CommandLinesProofs -------------------------
(***************************************************************************)
(* load() of src/config.rs, for command lines of any length, any names of  *)
(* files and sockets, and files with any contents: the program that runs   *)
(* is the one that an edit of the default file would run.                  *)
(***************************************************************************)
EXTENDS CommandLines, WellFoundedInduction, SequenceTheorems, TLAPS

-----------------------------------------------------------------------------
(***************************************************************************)
(* Induction.                                                              *)
(***************************************************************************)

\* Every set of numbers has a least element, unless it is empty.
LEMMA LeastElement ==
  ASSUME NEW T, T \subseteq Nat, T # {}
  PROVE  \E n \in T : \A m \in T : n <= m
<1>1. PICK n \in T : \A m \in T : ~ (<<m, n>> \in OpToRel(<, Nat))
  BY NatLessThanWellFounded, WFMin, Zenon
<1>2. \A m \in T : ~(m < n)
  BY <1>1 DEF OpToRel
<1>3. n \in Nat /\ \A m \in T : m \in Nat /\ n <= m
  BY <1>2
<1>4. QED
  BY <1>3

\* A set that holds 0 and, with a number below n, the next one, holds all
\* numbers up to n.
LEMMA UpTo ==
  ASSUME NEW n \in Nat, NEW S, 0 \in S, \A k \in 0 .. n - 1 : k \in S => k + 1 \in S
  PROVE  \A k \in 0 .. n : k \in S
<1> DEFINE T == {k \in 0 .. n : k \notin S}
<1>1. SUFFICES ASSUME T # {} PROVE FALSE
  OBVIOUS
<1>2. T \subseteq Nat
  OBVIOUS
<1>3. PICK k \in T : \A m \in T : k <= m
  <2> HIDE DEF T
  <2>1. QED
    BY <1>1, <1>2, LeastElement
<1>4. k \in 0 .. n /\ k \notin S /\ k # 0
  OBVIOUS
<1>5. k - 1 \in 0 .. n - 1
  BY <1>4
<1>6. k - 1 \in S
  BY <1>3, <1>4, <1>5
<1>7. (k - 1) + 1 \in S
  BY <1>5, <1>6
<1>8. QED
  BY <1>4, <1>7

-----------------------------------------------------------------------------
(***************************************************************************)
(* The loop over the arguments.                                            *)
(***************************************************************************)

\* The right-hand side of the definition of ParsedTo.
Parsing(s, to, i) == IF i = 0 THEN Start ELSE Argument(to[i - 1], s[i])

\* The equation has a solution on the first k arguments, for every k.
LEMMA ParsingExists ==
  ASSUME NEW s, Len(s) \in Nat
  PROVE  \E f : f = [i \in 0 .. Len(s) |-> Parsing(s, f, i)]
<1> DEFINE n == Len(s)
           Solves(f, k) == f = [i \in 0 .. k |-> Parsing(s, f, i)]
           S == {k \in 0 .. n : \E f : Solves(f, k)}
<1>1. 0 \in S
  <2> DEFINE f == [i \in 0 .. 0 |-> Start]
  <2>1. \A i \in 0 .. 0 : Parsing(s, f, i) = Start
    BY DEF Parsing
  <2>2. Solves(f, 0)
    BY <2>1
  <2>3. QED
    BY <2>2
<1>2. ASSUME NEW k \in 0 .. n - 1, k \in S PROVE k + 1 \in S
  <2>1. PICK f : Solves(f, k)
    BY <1>2
  <2> DEFINE g == [i \in 0 .. k + 1 |-> IF i = k + 1 THEN Parsing(s, f, i) ELSE f[i]]
  <2>2. ASSUME NEW i \in 0 .. k + 1 PROVE g[i] = Parsing(s, g, i)
    <3>1. i = 0 \/ g[i - 1] = f[i - 1]
      OBVIOUS
    <3>2. Parsing(s, f, i) = Parsing(s, g, i)
      BY <3>1 DEF Parsing
    <3>3. i # k + 1 => f[i] = Parsing(s, f, i)
      BY <2>1
    <3>4. QED
      BY <3>2, <3>3
  <2>3. g = [i \in 0 .. k + 1 |-> g[i]]
    OBVIOUS
  <2> HIDE DEF g
  <2>4. g = [i \in 0 .. k + 1 |-> Parsing(s, g, i)]
    BY <2>2, <2>3
  <2>5. QED
    BY <2>4
<1>3. \A k \in 0 .. n : k \in S
  <2> HIDE DEF S
  <2>1. QED
    BY <1>1, <1>2, UpTo
<1>4. QED
  BY <1>3

\* Each argument takes the locals of the loop one step further.
LEMMA ParsingEquation ==
  ASSUME NEW s, Len(s) \in Nat
  PROVE  LET to == ParsedTo(s)
         IN to[0] = Start /\ \A i \in 1 .. Len(s) : to[i] = Argument(to[i - 1], s[i])
<1> DEFINE to == ParsedTo(s)
<1>1. to = CHOOSE f : f = [i \in 0 .. Len(s) |-> Parsing(s, f, i)]
  BY DEF ParsedTo, Parsing
<1>2. to = [i \in 0 .. Len(s) |-> Parsing(s, to, i)]
  BY <1>1, ParsingExists
<1> HIDE DEF to
<1>3. \A i \in 0 .. Len(s) : to[i] = Parsing(s, to, i)
  BY <1>2
<1>4. QED
  BY <1>3 DEF Parsing, to

\* The locals of the loop.
Locals(p) ==
  p = [result |-> p.result, option |-> p.option, config |-> p.config, socket |-> p.socket]

\* The ways in which the loop ends early.
Results == {"help", "version", "error"}

\* A loop that has ended stays ended, with its result.
LEMMA ArgumentEnded ==
  ASSUME NEW p, Locals(p), p.result \in Results, NEW arg
  PROVE  Argument(p, arg) = p
BY NoneAssumption DEF Argument, Results

\* Where an option may come, anything else ends the loop.
LEMMA ArgumentOption ==
  ASSUME NEW p, Locals(p), p.result = None, p.option = None, NEW arg
  PROVE  LET q == Argument(p, arg)
         IN /\ Locals(q)
            /\ IF arg \in Options
               THEN q.result = None /\ q.option = arg /\ q.config = p.config /\ q.socket = p.socket
               ELSE q.result \in Results
<1> DEFINE q == Argument(p, arg)
<1>1. q = IF arg \in {"--help", "-h"} THEN [p EXCEPT !.result = "help"]
          ELSE IF arg = "--version" THEN [p EXCEPT !.result = "version"]
          ELSE IF arg \in Options THEN [p EXCEPT !.option = arg]
          ELSE [p EXCEPT !.result = "error"]
  BY DEF Argument
<1> HIDE DEF q
<1>2. arg \in Options => arg \notin {"--help", "-h", "--version"}
  BY DEF Options
<1>3. QED
  BY <1>1, <1>2 DEF Locals, Results, q

\* Where a value must come, the option gets it, or the loop ends.
LEMMA ArgumentValue ==
  ASSUME NEW p, Locals(p), p.result = None, p.option \in Options, NEW arg
  PROVE  LET q == Argument(p, arg)
         IN /\ Locals(q)
            /\ IF IsPath(arg)
               THEN /\ q.result = None /\ q.option = None
                    /\ q.config = (IF p.option = "--config" THEN arg ELSE p.config)
                    /\ q.socket = (IF p.option = "--socket" THEN arg ELSE p.socket)
               ELSE q.result \in Results
<1> DEFINE q == Argument(p, arg)
<1>1. p.option # None
  BY NoneAssumption
<1>2. q = IF ~IsPath(arg) THEN [p EXCEPT !.result = "error"]
          ELSE IF p.option = "--config" THEN [p EXCEPT !.option = None, !.config = arg]
          ELSE [p EXCEPT !.option = None, !.socket = arg]
  BY <1>1 DEF Argument
<1> HIDE DEF q
<1>3. p.option = "--config" \/ p.option = "--socket"
  BY DEF Options
<1>4. QED
  BY <1>2, <1>3 DEF Locals, Results, q

-----------------------------------------------------------------------------
(***************************************************************************)
(* What the loop has made of the first i arguments.                        *)
(***************************************************************************)

\* Options and their values in turn, so far.
InTurn(s, i) == \A j \in 1 .. i : s[j] \in IF j % 2 = 1 THEN Options ELSE Paths

\* v is the value of the last occurrence of option among those that have one
\* in the first i arguments.
Holds(s, i, option, v) ==
  \/ v = None /\ \A j \in 1 .. i - 1 : s[j] # option
  \/ \E j \in 1 .. i - 1 :
       s[j] = option /\ v = s[j + 1] /\ \A k \in j + 1 .. i - 1 : s[k] # option

\* The invariant of the loop: it goes on exactly as long as options and values
\* come in turn, and then keeps the last value of each option.
Reads(s, p, i) ==
  /\ Locals(p)
  /\ IF InTurn(s, i)
     THEN /\ p.result = None
          /\ p.option = IF i % 2 = 1 THEN s[i] ELSE None
          /\ Holds(s, i, "--config", p.config)
          /\ Holds(s, i, "--socket", p.socket)
     ELSE p.result \in Results

\* No argument is both an option and a value.
LEMMA OptionsAndPaths ==
  /\ \A arg \in Options : arg \notin Paths /\ arg # None
  /\ \A arg \in Arguments : IsPath(arg) <=> arg \in Paths
  /\ Options = {"--config", "--socket"}
<1>1. \A arg \in Options : ~IsPath(arg)
  BY DEF IsPath
<1>2. \A arg \in {"--help", "--version", "--other", ""} : ~IsPath(arg)
  BY DEF IsPath
<1>3. QED
  BY <1>1, <1>2, PathsAssumption, NoneAssumption DEF Arguments, Options

\* A value after its option.
LEMMA HoldsValue ==
  ASSUME NEW s, NEW i \in Nat, i >= 1, NEW option, NEW v, Holds(s, i, option, v)
  PROVE  Holds(s, i + 1, option, IF s[i] = option THEN s[i + 1] ELSE v)
<1>1. (i + 1) - 1 = i /\ i \in 1 .. i /\ \A j \in 1 .. i : j = i \/ j \in 1 .. i - 1
  OBVIOUS
<1>2. CASE s[i] = option
  <2>1. \A k \in i + 1 .. i : s[k] # option
    OBVIOUS
  <2>2. QED
    BY <1>1, <1>2, <2>1 DEF Holds
<1>3. CASE s[i] # option
  <2>1. CASE v = None /\ \A j \in 1 .. i - 1 : s[j] # option
    BY <1>1, <1>3, <2>1 DEF Holds
  <2>2. CASE \E j \in 1 .. i - 1 :
               s[j] = option /\ v = s[j + 1] /\ \A k \in j + 1 .. i - 1 : s[k] # option
    <3>1. PICK j \in 1 .. i - 1 :
                 s[j] = option /\ v = s[j + 1] /\ \A k \in j + 1 .. i - 1 : s[k] # option
      BY <2>2
    <3>2. \A k \in j + 1 .. i : s[k] # option
      BY <1>3, <3>1
    <3>3. j \in 1 .. i
      OBVIOUS
    <3>4. QED
      BY <1>1, <1>3, <3>1, <3>2, <3>3 DEF Holds
  <2>3. QED
    BY <2>1, <2>2 DEF Holds
<1>4. QED
  BY <1>2, <1>3

\* One argument.
LEMMA ReadsStep ==
  ASSUME NEW s \in Seq(Arguments), NEW i \in Nat, i + 1 \in 1 .. Len(s),
         NEW p, Reads(s, p, i)
  PROVE  Reads(s, Argument(p, s[i + 1]), i + 1)
<1> DEFINE arg == s[i + 1]
           q == Argument(p, arg)
<1>1. arg \in Arguments /\ (i >= 1 => s[i] \in Arguments)
  OBVIOUS
<1>2. InTurn(s, i + 1) <=>
        InTurn(s, i) /\ arg \in IF (i + 1) % 2 = 1 THEN Options ELSE Paths
  <2>1. \A j \in 1 .. i + 1 : j = i + 1 \/ j \in 1 .. i
    OBVIOUS
  <2>2. \A j \in 1 .. i : j \in 1 .. i + 1
    OBVIOUS
  <2>3. i + 1 \in 1 .. i + 1
    OBVIOUS
  <2>4. QED
    BY <2>1, <2>2, <2>3 DEF InTurn
<1>3. i % 2 \in {0, 1} /\ ((i + 1) % 2 = 1 <=> i % 2 = 0) /\ (i % 2 = 1 => i >= 1)
  OBVIOUS
<1>4. Locals(p)
  BY DEF Reads
<1>5. CASE ~InTurn(s, i)
  <2>1. p.result \in Results
    BY <1>5 DEF Reads
  <2>2. q = p
    BY <1>4, <2>1, ArgumentEnded
  <2>3. QED
    BY <1>2, <1>4, <1>5, <2>1, <2>2 DEF Reads
<1>6. CASE InTurn(s, i) /\ i % 2 = 0
  <2>1. p.result = None /\ p.option = None
        /\ Holds(s, i, "--config", p.config) /\ Holds(s, i, "--socket", p.socket)
    BY <1>6 DEF Reads
  <2>2. /\ Locals(q)
        /\ IF arg \in Options
           THEN q.result = None /\ q.option = arg /\ q.config = p.config /\ q.socket = p.socket
           ELSE q.result \in Results
    BY <1>4, <2>1, ArgumentOption
  <2> HIDE DEF q
  <2>3. CASE arg \notin Options
    BY <1>2, <1>3, <1>6, <2>2, <2>3 DEF Reads, q
  <2>4. CASE arg \in Options
    <3>1. ASSUME NEW option \in Options, NEW v, Holds(s, i, option, v)
          PROVE  Holds(s, i + 1, option, v)
      <4>1. CASE i = 0
        <5>1. 1 .. i - 1 = {} /\ 1 .. (i + 1) - 1 = {}
          BY <4>1
        <5>2. QED
          BY <3>1, <5>1 DEF Holds
      <4>2. CASE i >= 1
        <5>1. s[i] \in Paths
          BY <1>6, <4>2 DEF InTurn
        <5>2. s[i] # option
          BY <5>1, OptionsAndPaths
        <5>3. QED
          BY <3>1, <4>2, <5>2, HoldsValue
      <4>3. QED
        BY <4>1, <4>2
    <3>2. Holds(s, i + 1, "--config", q.config) /\ Holds(s, i + 1, "--socket", q.socket)
      BY <2>1, <2>2, <2>4, <3>1 DEF Options
    <3>3. QED
      BY <1>2, <1>3, <1>6, <2>2, <2>4, <3>2 DEF Reads, q
  <2>5. QED
    BY <2>3, <2>4
<1>7. CASE InTurn(s, i) /\ i % 2 = 1
  <2>1. p.result = None /\ p.option = s[i] /\ i >= 1
        /\ Holds(s, i, "--config", p.config) /\ Holds(s, i, "--socket", p.socket)
    BY <1>3, <1>7 DEF Reads
  <2>2. s[i] \in Options
    BY <1>7, <2>1 DEF InTurn
  <2>3. /\ Locals(q)
        /\ IF IsPath(arg)
           THEN /\ q.result = None /\ q.option = None
                /\ q.config = (IF s[i] = "--config" THEN arg ELSE p.config)
                /\ q.socket = (IF s[i] = "--socket" THEN arg ELSE p.socket)
           ELSE q.result \in Results
    BY <1>4, <2>1, <2>2, ArgumentValue
  <2> HIDE DEF q
  <2>4. IsPath(arg) <=> arg \in Paths
    BY <1>1, OptionsAndPaths
  <2>5. CASE arg \notin Paths
    BY <1>2, <1>3, <1>7, <2>3, <2>4, <2>5 DEF Reads, q
  <2>6. CASE arg \in Paths
    <3>1. Holds(s, i + 1, "--config", q.config) /\ Holds(s, i + 1, "--socket", q.socket)
      BY <2>1, <2>3, <2>4, <2>6, HoldsValue
    <3>2. QED
      BY <1>2, <1>3, <1>7, <2>3, <2>4, <2>6, <3>1 DEF Reads, q
  <2>7. QED
    BY <2>5, <2>6
<1>8. QED
  BY <1>3, <1>5, <1>6, <1>7

\* The loop, to its end.
LEMMA ReadsAll ==
  ASSUME NEW s \in Seq(Arguments)
  PROVE  Reads(s, ParsedTo(s)[Len(s)], Len(s))
<1> DEFINE n == Len(s)
           to == ParsedTo(s)
           S == {i \in 0 .. n : Reads(s, to[i], i)}
<1>1. n \in Nat
  OBVIOUS
<1>2. to[0] = Start /\ \A i \in 1 .. n : to[i] = Argument(to[i - 1], s[i])
  BY <1>1, ParsingEquation
<1> HIDE DEF to
<1>3. 0 \in S
  <2>1. InTurn(s, 0)
    BY DEF InTurn
  <2>2. 1 .. 0 - 1 = {} /\ 0 % 2 = 0
    OBVIOUS
  <2>3. QED
    BY <1>1, <1>2, <2>1, <2>2 DEF Reads, Start, Locals, Holds
<1>4. ASSUME NEW k \in 0 .. n - 1, k \in S PROVE k + 1 \in S
  <2>1. k \in Nat /\ k + 1 \in 1 .. n /\ (k + 1) - 1 = k
    BY <1>1
  <2>2. to[k + 1] = Argument(to[k], s[k + 1])
    BY <1>2, <2>1
  <2>3. Reads(s, to[k + 1], k + 1)
    BY <1>4, <2>1, <2>2, ReadsStep
  <2>4. QED
    BY <2>1, <2>3
<1>5. \A k \in 0 .. n : k \in S
  <2> HIDE DEF S
  <2>1. QED
    BY <1>1, <1>3, <1>4, UpTo
<1>6. QED
  BY <1>1, <1>5 DEF to

-----------------------------------------------------------------------------
(***************************************************************************)
(* The whole command line.                                                 *)
(***************************************************************************)

\* The last value of an option, as the loop found it, is what LastOf defines,
\* and a name.
LEMMA LastOfFacts ==
  ASSUME args \in Seq(Arguments), WellFormed, NEW option \in Options, NEW v,
         Holds(args, Len(args), option, v)
  PROVE  LastOf(option) = v /\ v \in Paths \cup {None}
<1> DEFINE n == Len(args)
           at == {i \in DOMAIN args : args[i] = option}
<1>1. /\ n \in Nat /\ DOMAIN args = 1 .. n /\ n % 2 = 0
      /\ \A i \in 1 .. n : args[i] \in IF i % 2 = 1 THEN Options ELSE Paths
  BY DEF WellFormed
<1>2. \A i \in 1 .. n : args[i] = option => i % 2 = 1 /\ i \in 1 .. n - 1
  <2>1. \A i \in 1 .. n : args[i] = option => i % 2 = 1
    BY <1>1, OptionsAndPaths
  <2>2. QED
    BY <1>1, <2>1
<1>3. LastOf(option) = IF at = {} THEN None ELSE args[Max(at) + 1]
  BY DEF LastOf
<1>4. CASE v = None /\ \A j \in 1 .. n - 1 : args[j] # option
  <2>1. at = {}
    BY <1>1, <1>2, <1>4
  <2>2. QED
    BY <1>3, <1>4, <2>1
<1>5. CASE \E j \in 1 .. n - 1 :
             args[j] = option /\ v = args[j + 1] /\ \A k \in j + 1 .. n - 1 : args[k] # option
  <2>1. PICK j \in 1 .. n - 1 :
               args[j] = option /\ v = args[j + 1] /\ \A k \in j + 1 .. n - 1 : args[k] # option
    BY <1>5
  <2>2. j \in at /\ \A i \in at : i \in Int /\ i <= j
    <3>1. j \in 1 .. n
      BY <1>1
    <3>2. ASSUME NEW i \in at PROVE i \in Int /\ i <= j
      BY <1>1, <1>2, <2>1, <3>2
    <3>3. QED
      BY <1>1, <2>1, <3>1, <3>2
  <2> HIDE DEF at
  <2>3. Max(at) = j
    <3>1. \E x \in at : \A y \in at : x >= y
      BY <2>2
    <3>2. Max(at) \in at /\ \A y \in at : Max(at) >= y
      BY <3>1 DEF Max
    <3> DEFINE m == Max(at)
    <3> HIDE DEF m
    <3>3. m \in Int /\ m <= j /\ m >= j /\ j \in Int
      BY <2>2, <3>2 DEF m
    <3>4. m = j
      BY <3>3
    <3>5. QED
      BY <3>4 DEF m
  <2>4. j + 1 \in 1 .. n /\ (j + 1) % 2 # 1
    <3>1. j % 2 = 1 /\ j \in Nat
      BY <1>1, <1>2, <2>1
    <3>2. QED
      BY <1>1, <3>1
  <2>5. v \in Paths
    BY <1>1, <2>1, <2>4
  <2>6. at # {}
    BY <2>2
  <2>7. QED
    BY <1>3, <2>1, <2>3, <2>5, <2>6
<1>6. QED
  BY <1>4, <1>5 DEF Holds

\* load() goes on with the last value of each option exactly when options and
\* values come in turn.
LEMMA ParsedFacts ==
  ASSUME args \in Seq(Arguments)
  PROVE  IF WellFormed
         THEN /\ Parsed(args).result = None
              /\ Parsed(args).config = LastOf("--config")
              /\ Parsed(args).socket = LastOf("--socket")
              /\ LastOf("--config") \in Paths \cup {None}
         ELSE Parsed(args).result \in Results
<1> DEFINE n == Len(args)
           p == ParsedTo(args)[n]
<1>1. n \in Nat /\ DOMAIN args = 1 .. n
  OBVIOUS
<1>2. Reads(args, p, n)
  BY ReadsAll
<1>3. WellFormed <=> n % 2 = 0 /\ InTurn(args, n)
  BY <1>1 DEF WellFormed, InTurn
<1>4. Parsed(args) = IF p.result = None /\ p.option # None
                     THEN [p EXCEPT !.result = "error"] ELSE p
  BY DEF Parsed
<1> HIDE DEF p
<1>5. None \notin Results
  BY NoneAssumption DEF Results
<1>6. CASE WellFormed
  <2>1. /\ p.result = None /\ p.option = None
        /\ Holds(args, n, "--config", p.config) /\ Holds(args, n, "--socket", p.socket)
    BY <1>2, <1>3, <1>6 DEF Reads
  <2>2. "--config" \in Options /\ "--socket" \in Options
    BY DEF Options
  <2>3. LastOf("--config") = p.config /\ p.config \in Paths \cup {None}
    BY <1>6, <2>1, <2>2, LastOfFacts
  <2>4. LastOf("--socket") = p.socket
    BY <1>6, <2>1, <2>2, LastOfFacts
  <2>5. QED
    BY <1>4, <1>6, <2>1, <2>3, <2>4
<1>7. CASE ~WellFormed /\ ~InTurn(args, n)
  <2>1. p.result \in Results
    BY <1>2, <1>7 DEF Reads
  <2>2. QED
    BY <1>4, <1>5, <1>7, <2>1
<1>8. CASE ~WellFormed /\ InTurn(args, n)
  <2>1. n % 2 = 1
    BY <1>1, <1>3, <1>8
  <2>2. p.option = args[n] /\ p.result = None /\ Locals(p)
    BY <1>2, <1>8, <2>1 DEF Reads
  <2>3. n \in 1 .. n
    BY <1>1, <2>1
  <2>4. args[n] \in Options
    BY <1>8, <2>1, <2>3 DEF InTurn
  <2>5. Parsed(args) = [p EXCEPT !.result = "error"]
    BY <1>4, <2>2, <2>4, OptionsAndPaths
  <2>6. Parsed(args).result = "error"
    BY <2>2, <2>5 DEF Locals
  <2>7. QED
    BY <1>8, <2>6 DEF Results
<1>9. QED
  BY <1>6, <1>7, <1>8

\* Without arguments, the default file decides.
LEMMA NoArguments ==
  /\ Parsed(<< >>).result = None
  /\ Parsed(<< >>).config = None /\ Parsed(<< >>).socket = None
<1>1. Len(<< >>) = 0
  OBVIOUS
<1>2. ParsedTo(<< >>)[0] = Start
  BY <1>1, ParsingEquation
<1>3. QED
  BY <1>1, <1>2 DEF Parsed, Start

-----------------------------------------------------------------------------
(***************************************************************************)
(* The file and the socket.                                                *)
(***************************************************************************)

\* Overriding the socket of a configuration is giving the key in its file.
LEMMA OverrideIsAKey ==
  ASSUME NEW keys, NEW socket
  PROVE  LET given == IF socket = None THEN << >> ELSE [socket |-> socket]
         IN Override(Over(keys, Default), socket) = Over(Over(given, keys), Default)
<1> DEFINE given == IF socket = None THEN << >> ELSE [socket |-> socket]
           D == (DOMAIN keys) \cup (DOMAIN Default)
           left == Override(Over(keys, Default), socket)
           right == Over(Over(given, keys), Default)
<1>1. "socket" \in DOMAIN Default
  BY DEF Default
<1>2. Over(keys, Default) = [key \in D |-> IF key \in DOMAIN keys THEN keys[key] ELSE Default[key]]
  BY DEF Over
<1>3. CASE socket = None
  <2>1. given = << >> /\ DOMAIN << >> = {}
    BY <1>3
  <2>2. Over(<< >>, keys) = [key \in DOMAIN keys |-> keys[key]]
    BY <2>1 DEF Over
  <2>3. DOMAIN Over(<< >>, keys) = DOMAIN keys
        /\ \A key \in DOMAIN keys : Over(<< >>, keys)[key] = keys[key]
    BY <2>2
  <2>4. right = Over(keys, Default)
    BY <2>1, <2>3 DEF Over
  <2>5. QED
    BY <1>3, <2>4 DEF Override
<1>4. CASE socket # None
  <2>1. given = [socket |-> socket] /\ DOMAIN given = {"socket"} /\ given["socket"] = socket
    BY <1>4
  <2> HIDE DEF given
  <2> DEFINE both == Over(given, keys)
  <2>2. both = [key \in {"socket"} \cup DOMAIN keys |->
                  IF key \in {"socket"} THEN given[key] ELSE keys[key]]
    BY <2>1 DEF Over
  <2>3. /\ DOMAIN both = {"socket"} \cup DOMAIN keys
        /\ both["socket"] = socket
        /\ \A key \in DOMAIN keys : key # "socket" => both[key] = keys[key]
    BY <2>1, <2>2
  <2> HIDE DEF both
  <2>4. right = [key \in D |-> IF key \in DOMAIN both THEN both[key] ELSE Default[key]]
    <3>1. (DOMAIN both) \cup (DOMAIN Default) = D
      BY <1>1, <2>3
    <3>2. right = Over(both, Default)
      BY DEF both
    <3>3. QED
      BY <3>1, <3>2 DEF Over
  <2>5. left = [Over(keys, Default) EXCEPT !.socket = socket]
    BY <1>4 DEF Override
  <2> DEFINE value(key) == IF key = "socket" THEN socket
                           ELSE IF key \in DOMAIN keys THEN keys[key] ELSE Default[key]
  <2>6. left = [key \in D |-> value(key)]
    BY <1>1, <1>2, <2>5
  <2>7. right = [key \in D |-> value(key)]
    BY <1>1, <2>3, <2>4
  <2>8. QED
    BY <2>6, <2>7 DEF given
<1>5. QED
  BY <1>3, <1>4

\* The locals of load() are of these types.
ArgsOK == args \in Seq(Arguments) /\ files \in [Paths \cup {DEFAULT_PATH} -> Contents]

\* Every command line.
LEMMA EveryCommandLine == ArgsOK => CommandLineIsAnEdit
<1> SUFFICES ASSUME ArgsOK PROVE CommandLineIsAnEdit
  OBVIOUS
<1> DEFINE path   == LastOf("--config")
           socket == LastOf("--socket")
           file   == files[IF path = None THEN DEFAULT_PATH ELSE path]
           given  == IF socket = None THEN << >> ELSE [socket |-> socket]
           edit   == [state |-> "present", keys |-> Over(given, file.keys)]
           edited == [files EXCEPT ![DEFAULT_PATH] = edit]
           config == Override(Over(file.keys, Default), socket)
<1>1. CASE ~WellFormed
  <2>1. Parsed(args).result \in Results
    BY <1>1, ParsedFacts DEF ArgsOK
  <2>2. Parsed(args).result # None /\ Parsed(args).result # "run"
    BY <2>1, NoneAssumption DEF Results
  <2>3. Load(args, files) = [action |-> Parsed(args).result]
    BY <2>2 DEF Load
  <2>4. Load(args, files).action # "run"
    BY <2>2, <2>3
  <2>5. QED
    BY <1>1, <2>4 DEF CommandLineIsAnEdit
<1>2. CASE WellFormed
  <2>1. /\ Parsed(args).result = None /\ Parsed(args).config = path
        /\ Parsed(args).socket = socket /\ path \in Paths \cup {None}
    BY <1>2, ParsedFacts DEF ArgsOK
  <2>2. file \in Contents /\ file = files[Selected(path)]
    BY <2>1 DEF ArgsOK, Selected
  <2>3. Load(args, files) =
          IF ~Readable(path, files) \/ ~Valid(config) THEN Error
          ELSE [action |-> "run", config |-> config]
    BY <2>1, <2>2 DEF Load, ReadFile
  <2>4. Readable(path, files) <=>
          file.state = "present" \/ (file.state = "absent" /\ path = None)
    BY <2>2 DEF Readable
  <2>5. edited[DEFAULT_PATH] = edit
    BY DEF ArgsOK
  <2>6. Load(<< >>, edited) =
          IF ~Valid(Over(Over(given, file.keys), Default)) THEN Error
          ELSE [action |-> "run", config |-> Over(Over(given, file.keys), Default)]
    <3> HIDE DEF edited, given, file
    <3>1. Selected(None) = DEFAULT_PATH
      BY DEF Selected
    <3>2. edited[Selected(None)].state = "present"
          /\ edited[Selected(None)].keys = Over(given, file.keys)
      BY <2>5, <3>1
    <3>3. Readable(None, edited) /\ ReadFile(None, edited) = Over(Over(given, file.keys), Default)
      BY <3>2 DEF Readable, ReadFile
    <3>4. Override(ReadFile(None, edited), None) = Over(Over(given, file.keys), Default)
      BY <3>3 DEF Override
    <3>5. QED
      BY <3>3, <3>4, NoArguments DEF Load
  <2>7. config = Over(Over(given, file.keys), Default)
    BY OverrideIsAKey
  <2>8. file.state \in {"absent", "bad", "present"}
    BY <2>2, ContentsAssumption
  <2>9. CASE file.state = "bad" \/ (file.state = "absent" /\ path # None)
    <3>1. ~Readable(path, files)
      BY <2>4, <2>9
    <3>2. Load(args, files) = Error
      BY <2>3, <3>1
    <3>3. QED
      BY <1>2, <2>9, <3>2 DEF CommandLineIsAnEdit
  <2>10. CASE ~(file.state = "bad" \/ (file.state = "absent" /\ path # None))
    <3>1. Readable(path, files)
      BY <2>4, <2>8, <2>10
    <3>2. Load(args, files) = Load(<< >>, edited)
      BY <2>3, <2>6, <2>7, <3>1
    <3>3. QED
      BY <1>2, <2>10, <3>2 DEF CommandLineIsAnEdit
  <2>11. QED
    BY <2>9, <2>10
<1>3. QED
  BY <1>1, <1>2

-----------------------------------------------------------------------------

\* load() treats every command line as an edit of the default file: for
\* command lines of any length, with any names, and files of any contents.
THEOREM EditTheorem == Spec => []CommandLineIsAnEdit
<1>1. Init => ArgsOK
  BY DEF Init, ArgsOK
<1>2. ArgsOK /\ [Next]_<<args, files>> => ArgsOK'
  BY DEF ArgsOK, Next
<1>3. QED
  BY <1>1, <1>2, EveryCommandLine, PTL DEF Spec

=============================================================================
