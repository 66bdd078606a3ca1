-------------------------- MODULE CommandLineProofs --------------------------
(***************************************************************************)
(* CommandLine for lines of every length and letters of every kind: the    *)
(* variables have their types, the vector of arguments never overruns, and *)
(* the arguments a command is called with are the words of the line, by a  *)
(* reading of the line that the loop is shown to agree with.               *)
(***************************************************************************)
EXTENDS CommandLine, LeastNumbers, TLAPS

\* The line and its copy are texts, and where the loop is in them.
Shape ==
  /\ line \in Seq(Typed) /\ cmd \in Seq(Typed \cup {Nul}) /\ Len(cmd) = cmdLen
  /\ pc = "prompt" => line = <<>> /\ cmdv = <<>>
  /\ pc # "prompt" => cmdLen >= 1 /\ i >= 1 /\ Len(cmdv) >= 1

\* Two characters stand for every argument but the first: the space in front of
\* it and its own first one, which the loop has passed, or is in front of.
Passed ==
  /\ 2 * (Len(cmdv) - 1) <= cmdLen
  /\ pc = "scan" =>
       \/ 2 * (Len(cmdv) - 1) <= i - 1
       \/ 2 * (Len(cmdv) - 1) <= i /\ i <= cmdLen /\ cmd[i] # Space

\* The inductive invariant.
IInv == TypeOK /\ Shape /\ Passed

\* A line is a sequence with its own indices.
LEMMA LineIsSeq ==
  ASSUME NEW text \in Lines
  PROVE  text \in Seq(Typed) /\ Len(text) >= 1 /\ DOMAIN text = 1 .. Len(text)
<1>1. PICK n \in 1 .. MaxLine : text \in [1 .. n -> Typed]
  BY DEF Lines
<1>2. n \in Nat
  BY <1>1, CommandLineAssumption
<1>3. Len(text) = n
  BY <1>1, <1>2
<1> QED BY <1>1, <1>2, <1>3

\* The gap ends in the line, it is of spaces, and no space is behind it.
LEMMA GapEnds ==
  ASSUME cmd \in Seq(Typed \cup {Nul}), Len(cmd) = cmdLen, i \in 1 .. cmdLen
  PROVE  /\ GapEnd \in i .. cmdLen /\ \A k \in i + 1 .. GapEnd : cmd[k] = Space
         /\ GapEnd < cmdLen => cmd[GapEnd + 1] # Space
<1> DEFINE T == {k \in i + 1 .. cmdLen : cmd[k] # Space}
<1>1. cmdLen \in Nat
  BY DEF cmdLen
<1>2. \E j \in i .. cmdLen :
        (\A k \in i + 1 .. j : cmd[k] = Space) /\ (j < cmdLen => cmd[j + 1] # Space)
  <2>1. CASE T = {}
    <3>1. \A k \in i + 1 .. cmdLen : cmd[k] = Space
      BY <2>1
    <3> QED BY <1>1, <3>1
  <2>2. CASE T # {}
    <3>1. T \in SUBSET Nat
      BY <1>1
    <3>2. PICK m \in T : \A y \in T : m <= y
      BY <2>2, <3>1, LeastNat, Zenon
    <3>3. \A k \in i + 1 .. m - 1 : cmd[k] = Space
      BY <1>1, <3>2
    <3>4. m - 1 \in i .. cmdLen /\ cmd[(m - 1) + 1] # Space
      BY <1>1, <3>2
    <3> QED BY <3>3, <3>4
  <2> QED BY <2>1, <2>2
<1> QED BY <1>2 DEF GapEnd

\* It holds in front of the line.
LEMMA InitIInv == Init => IInv
<1> SUFFICES ASSUME Init PROVE IInv
  OBVIOUS
<1> QED BY DEF Init, IInv, TypeOK, Shape, Passed, cmdLen

\* Every step keeps the invariant.
LEMMA IInvStep == IInv /\ [Next]_vars => IInv'
<1> SUFFICES ASSUME IInv, [Next]_vars PROVE IInv'
  OBVIOUS
<1> USE DEF IInv
<1>t. /\ cmdLen \in Nat /\ i \in Nat /\ cmdv \in Seq(Nat) /\ Len(cmdv) \in Nat
      /\ DOMAIN cmd = 1 .. cmdLen /\ DOMAIN line = 1 .. cmdLen
  BY DEF TypeOK, Shape, cmdLen
<1>1. CASE ReadLine
  <2>1. PICK text \in Lines : line' = text /\ cmd' = text
    BY <1>1 DEF ReadLine
  <2>2. /\ text \in Seq(Typed) /\ Len(text) >= 1 /\ DOMAIN text = 1 .. Len(text)
        /\ i' = 1 /\ quote' = None /\ cmdv' = <<1>> /\ pc' = "scan"
    BY <1>1, <2>1, LineIsSeq DEF ReadLine
  <2>3. TypeOK'
    BY <2>1, <2>2 DEF TypeOK, cmdLen
  <2>4. Shape' /\ Passed'
    BY <2>1, <2>2 DEF Shape, Passed, cmdLen
  <2> QED BY <2>3, <2>4
<1>2. CASE Gap
  <2>1. /\ pc = "scan" /\ i \in 1 .. cmdLen /\ cmd[i] = Space /\ quote = None
        /\ cmd' = [cmd EXCEPT ![i] = Nul] /\ i' = GapEnd + 1
        /\ cmdv' = IF GapEnd < cmdLen THEN Append(cmdv, GapEnd + 1) ELSE cmdv
        /\ pc' = pc /\ line' = line /\ quote' = quote /\ cmdLen' = cmdLen
    BY <1>2, <1>t DEF Gap, At, Shape, cmdLen
  <2>2. GapEnd \in i .. cmdLen /\ (GapEnd < cmdLen => cmd[GapEnd + 1] # Space)
    BY <2>1, GapEnds DEF Shape
  <2>3. /\ cmd' \in Seq(Typed \cup {Nul}) /\ Len(cmd') = cmdLen /\ DOMAIN cmd' = DOMAIN cmd
        /\ \A k \in DOMAIN cmd : cmd'[k] = IF k = i THEN Nul ELSE cmd[k]
    BY <2>1, <1>t DEF Shape
  <2>4. cmdv' \in Seq(DOMAIN cmd) /\ Len(cmdv') \in Nat
        /\ Len(cmdv') = IF GapEnd < cmdLen THEN Len(cmdv) + 1 ELSE Len(cmdv)
    <3>1. cmdv \in Seq(DOMAIN cmd)
      BY DEF TypeOK
    <3>2. CASE GapEnd < cmdLen
      <4>1. cmdv' = Append(cmdv, GapEnd + 1) /\ GapEnd + 1 \in DOMAIN cmd
        BY <2>1, <2>2, <3>2, <1>t
      <4> QED BY <3>1, <3>2, <4>1
    <3>3. CASE ~(GapEnd < cmdLen)
      BY <2>1, <3>1, <3>3
    <3> QED BY <3>2, <3>3
  <2>5. TypeOK'
    <3>1. \A k \in DOMAIN cmd : cmd'[k] \in {line[k], Nul}
      BY <2>3 DEF TypeOK
    <3>2. i' \in 0 .. cmdLen + 2
      BY <2>1, <2>2, <1>t
    <3>3. cmdv' \in Seq(DOMAIN cmd') /\ DOMAIN cmd' = DOMAIN line'
      BY <2>1, <2>3, <2>4, <1>t
    <3>4. pc' = "scan" /\ line' \in Lines \cup {<<>>} /\ quote' = None
      BY <2>1 DEF TypeOK
    <3> QED BY <2>1, <2>3, <3>1, <3>2, <3>3, <3>4 DEF TypeOK
  <2>6. Shape'
    BY <2>1, <2>2, <2>3, <2>4, <1>t DEF Shape
  <2>7. 2 * (Len(cmdv) - 1) <= i - 1
    BY <2>1, <1>t DEF Passed
  <2>8. Passed'
    BY <2>1, <2>2, <2>3, <2>4, <2>7, <1>t DEF Passed
  <2> QED BY <2>5, <2>6, <2>8
<1>3. ASSUME /\ pc = "scan" /\ i <= cmdLen
             /\ i' \in {i + 1, i + 2} /\ quote' \in Quotes \cup {None}
             /\ UNCHANGED <<pc, line, cmd, cmdv>>
      PROVE  IInv'
  <2>1. TypeOK' /\ Shape'
    BY <1>3, <1>t DEF TypeOK, Shape, cmdLen
  <2>2. Passed'
    BY <1>3, <1>t DEF Passed, cmdLen
  <2> QED BY <2>1, <2>2
<1>4. CASE Escaped
  BY <1>3, <1>4 DEF Escaped, At, TypeOK
<1>5. CASE Quote
  BY <1>3, <1>5 DEF Quote, At
<1>6. CASE Other
  BY <1>3, <1>6 DEF Other, At, TypeOK
<1>7. CASE Dispatch
  BY <1>7, <1>t DEF Dispatch, TypeOK, Shape, Passed, cmdLen
<1>8. CASE Return
  BY <1>8 DEF Return, TypeOK, Shape, Passed, cmdLen
<1>9. CASE UNCHANGED vars
  BY <1>9 DEF vars, TypeOK, Shape, Passed, cmdLen
<1> QED BY <1>1, <1>2, <1>4, <1>5, <1>6, <1>7, <1>8, <1>9 DEF Next, Scan

\* The inductive invariant is one of the specification.
LEMMA Invariant == Spec => []IInv
BY InitIInv, IInvStep, PTL DEF Spec

\* Every variable has its type: in particular an argument begins in the line.
THEOREM TypeCorrect == Spec => []TypeOK
<1>1. IInv => TypeOK
  BY DEF IInv
<1> QED BY <1>1, Invariant, PTL

\* The vector of half the characters of the line and two has room for every
\* argument and for the null pointer behind the last (processcommand).
THEOREM VectorHasRoom == Spec => []VectorFits
<1>1. IInv => VectorFits
  <2> SUFFICES ASSUME IInv PROVE VectorFits
    OBVIOUS
  <2>1. cmdLen \in Nat /\ Len(cmdv) \in Nat /\ 2 * (Len(cmdv) - 1) <= cmdLen
    BY DEF IInv, TypeOK, Shape, Passed, cmdLen
  <2> QED BY <2>1 DEF VectorFits, Room
<1> QED BY <1>1, Invariant, PTL
-----------------------------------------------------------------------------
(* The arguments are the words of the line *)

\* What a reading of the line knows, and what a character makes of it.
Knows == [quote : Quotes \cup {None}, escaped : BOOLEAN]
Fresh == [quote |-> None, escaped |-> FALSE]
After(r, c) ==
  IF r.escaped THEN [r EXCEPT !.escaped = FALSE]
  ELSE IF c = Escape THEN [r EXCEPT !.escaped = TRUE]
  ELSE IF c \in Quotes /\ r.quote = None THEN [r EXCEPT !.quote = c]
  ELSE IF c = r.quote THEN [r EXCEPT !.quote = None]
  ELSE r

\* The line has a reading, character by character.
IsRead ==
  /\ Reading[0] = Fresh
  /\ \A k \in 0 .. cmdLen : Reading[k] \in Knows
  /\ \A k \in 1 .. cmdLen : Reading[k] = After(Reading[k - 1], line[k])

\* The first of the spaces that part two words: there a string of the line ends.
First(k) == Parts(k) /\ (k = 1 \/ ~ Parts(k - 1))

\* Where a word begins in the part of the line the loop has passed, or is in
\* front of; and the start of the line.
Starts == {1} \cup {a \in 2 .. cmdLen : a <= i /\ Parts(a - 1) /\ ~ Parts(a)}

\* The loop agrees with the reading as far as it is: on the quote that is open,
\* the ends of the strings and the beginnings of the arguments, and it has gone
\* through gaps to their ends.
Agrees ==
  pc # "prompt" =>
    /\ i <= cmdLen + 1 => Reading[i - 1] = [quote |-> quote, escaped |-> FALSE]
    /\ i = cmdLen + 2 => Reading[cmdLen] = [quote |-> quote, escaped |-> TRUE]
    /\ \A k \in 1 .. cmdLen : cmd[k] = IF k < i /\ First(k) THEN Nul ELSE line[k]
    /\ i \in 2 .. cmdLen /\ Parts(i - 1) => line[i] # Space
    /\ {cmdv[k] : k \in DOMAIN cmdv} = Starts
    /\ \A k \in 1 .. Len(cmdv) - 1 : cmdv[k] < cmdv[k + 1]
    /\ \A k \in 1 .. Len(cmdv) : cmdv[k] <= i
    /\ pc # "scan" => i > cmdLen /\ (pc = "dispatch" <=> quote = None)

\* A character after what is known makes something known.
LEMMA Known ==
  ASSUME NEW r \in Knows, NEW c
  PROVE  After(r, c) \in Knows
BY DEF Knows, After

\* Every line is read.
LEMMA LineIsRead == line \in Seq(Typed) => IsRead
<1> SUFFICES ASSUME line \in Seq(Typed) PROVE IsRead
  OBVIOUS
<1> DEFINE n == cmdLen
           S == Knows
           after(r, c) ==
             CASE r.escaped                          -> [r EXCEPT !.escaped = FALSE]
               [] ~r.escaped /\ c = Escape           -> [r EXCEPT !.escaped = TRUE]
               [] ~r.escaped /\ c \in Quotes /\ r.quote = None -> [r EXCEPT !.quote = c]
               [] ~r.escaped /\ c = r.quote          -> [r EXCEPT !.quote = None]
               [] OTHER                              -> r
           Is(f) == f = [k \in 0 .. n |-> IF k = 0 THEN [quote |-> None, escaped |-> FALSE]
                                          ELSE after(f[k - 1], line[k])]
           step == [r \in S |-> [k \in 1 .. n |-> After(r, line[k])]]
<1>1. n \in Nat /\ Fresh \in S
  BY DEF cmdLen, Fresh, Knows
<1>2. step \in [S -> [1 .. n -> S]]
  BY Known
<1>3. Computes(n, S, Fresh, step)
  <2> HIDE DEF step, n, S
  <2>1. QED BY ONLY <1>1, <1>2, Iteration
<1>4. PICK g : /\ g \in [0 .. n -> S] /\ g[0] = Fresh
               /\ \A k \in 1 .. n : g[k] = step[g[k - 1]][k]
  <2> HIDE DEF step, n, S
  <2>1. QED BY <1>3 DEF Computes
<1>5. \A k \in 1 .. n : k - 1 \in 0 .. n /\ g[k - 1] \in S /\ g[k] = After(g[k - 1], line[k])
  <2>1. ASSUME NEW k \in 1 .. n
        PROVE  k - 1 \in 0 .. n /\ g[k - 1] \in S /\ g[k] = After(g[k - 1], line[k])
    <3>1. k - 1 \in 0 .. n
      BY <1>1
    <3>2. g[k - 1] \in S /\ g[k] = step[g[k - 1]][k]
      <4> HIDE DEF step, n, S
      <4>1. QED BY <1>4, <3>1
    <3>3. QED BY <3>1, <3>2
  <2>2. QED BY <2>1
<1>6. ASSUME NEW r \in Knows, NEW c PROVE after(r, c) = After(r, c)
  <2>1. /\ r.quote \in Quotes \cup {None} /\ r.escaped \in BOOLEAN
        /\ r = [quote |-> r.quote, escaped |-> r.escaped]
    BY DEF Knows
  <2>2. CASE r.escaped
    <3>1. after(r, c) = [r EXCEPT !.escaped = FALSE]
      BY <2>2
    <3>2. QED BY <2>1, <2>2, <3>1 DEF After
  <2>3. CASE ~ r.escaped /\ c = Escape
    <3>0. c \notin Quotes /\ c # r.quote
      BY <2>1, <2>3 DEF Escape, Quotes, None
    <3>1. after(r, c) = [r EXCEPT !.escaped = TRUE]
      BY <2>3, <3>0
    <3>2. QED BY <2>3, <3>1 DEF After
  <2>4. CASE ~ r.escaped /\ c # Escape /\ c \in Quotes /\ r.quote = None
    <3>1. after(r, c) = [r EXCEPT !.quote = c]
      BY <2>4 DEF Quotes, None
    <3>2. QED BY <2>1, <2>4, <3>1 DEF After
  <2>5. CASE ~ r.escaped /\ c # Escape /\ ~(c \in Quotes /\ r.quote = None) /\ c = r.quote
    <3>1. after(r, c) = [r EXCEPT !.quote = None]
      BY <2>5
    <3>2. QED BY <2>1, <2>5, <3>1 DEF After
  <2>6. CASE ~ r.escaped /\ c # Escape /\ ~(c \in Quotes /\ r.quote = None) /\ c # r.quote
    <3>1. after(r, c) = r
      BY <2>6
    <3>2. QED BY <2>6, <3>1 DEF After
  <2>7. QED BY <2>1, <2>2, <2>3, <2>4, <2>5, <2>6
<1> HIDE DEF after
<1>7. Is(g)
  BY <1>1, <1>4, <1>5, <1>6 DEF Fresh
<1>8. Is(Reading)
  <2>1. PICK f : f = (CHOOSE h : Is(h))
    OBVIOUS
  <2>2. Is(f)
    <3> HIDE DEF Is
    <3>1. QED BY <1>7, <2>1
  <2>3. Reading = f
    BY <2>1 DEF Reading, after
  <2>4. QED BY <2>2, <2>3
<1>9. Agree(g, Reading, n)
  <2>1. g[0] = Reading[0]
    BY <1>1, <1>4, <1>8 DEF Fresh
  <2>2. ASSUME NEW k \in 1 .. n, g[k - 1] = Reading[k - 1] PROVE g[k] = Reading[k]
    <3>0. k \in 0 .. n /\ k # 0
      BY <1>1, <2>2
    <3>1. Reading[k] = after(Reading[k - 1], line[k])
      BY <1>8, <3>0
    <3>2. QED BY <1>5, <1>6, <2>2, <3>1
  <2> HIDE DEF n, step, S, Is
  <2>3. QED BY <1>1, <2>1, <2>2, SameIteration
<1>10. \A k \in 0 .. n : Reading[k] = g[k]
  BY <1>9 DEF Agree
<1>11. QED
  <2> HIDE DEF step, Is
  <2>1. Reading[0] = Fresh /\ \A k \in 0 .. n : Reading[k] \in Knows
    BY <1>1, <1>4, <1>10
  <2>2. ASSUME NEW k \in 1 .. n PROVE Reading[k] = After(Reading[k - 1], line[k])
    BY <1>1, <1>5, <1>10
  <2>3. QED BY <2>1, <2>2 DEF IsRead

\* What a character makes of a reading that is not in an escape.
LEMMA AfterPlain ==
  ASSUME NEW q \in Quotes \cup {None}, NEW c
  PROVE  /\ After([quote |-> q, escaped |-> TRUE], c) = [quote |-> q, escaped |-> FALSE]
         /\ c = Escape => After([quote |-> q, escaped |-> FALSE], c)
                            = [quote |-> q, escaped |-> TRUE]
         /\ c \in Quotes /\ q = None => After([quote |-> q, escaped |-> FALSE], c)
                                          = [quote |-> c, escaped |-> FALSE]
         /\ c \in Quotes /\ c = q => After([quote |-> q, escaped |-> FALSE], c)
                                       = [quote |-> None, escaped |-> FALSE]
         /\ c # Escape /\ c \notin Quotes => After([quote |-> q, escaped |-> FALSE], c)
                                               = [quote |-> q, escaped |-> FALSE]
         /\ c \in Quotes /\ q # None /\ c # q => After([quote |-> q, escaped |-> FALSE], c)
                                                   = [quote |-> q, escaped |-> FALSE]
BY DEF After, Escape, Quotes, None

\* Without a new end of a string the loop agrees with the reading further on,
\* when no space that parts words is where it went.
LEMMA Along ==
  ASSUME IInv, Agrees, pc = "scan", i \in 1 .. cmdLen, i' \in {i + 1, i + 2},
         UNCHANGED <<pc, line, cmd, cmdv>>,
         \A k \in i .. i' - 1 : k <= cmdLen => ~ Parts(k),
         i' <= cmdLen + 1 => Reading[i' - 1] = [quote |-> quote', escaped |-> FALSE],
         i' = cmdLen + 2 => Reading[cmdLen] = [quote |-> quote', escaped |-> TRUE]
  PROVE  Agrees'
<1>t. cmdLen \in Nat /\ cmdv \in Seq(Nat) /\ Len(cmdv) \in Nat
  BY DEF IInv, TypeOK, Shape, cmdLen
<1>1. cmdLen' = cmdLen /\ Reading' = Reading /\ pc' = "scan"
  BY DEF cmdLen, Reading
<1>2. \A k : Parts(k)' <=> Parts(k)
  BY <1>1 DEF Parts
<1>3. \A k : First(k)' <=> First(k)
  BY <1>2 DEF First
<1>4. \A k \in 1 .. cmdLen : cmd[k] = IF k < i' /\ First(k) THEN Nul ELSE line[k]
  <2>1. ASSUME NEW k \in 1 .. cmdLen
        PROVE  cmd[k] = IF k < i' /\ First(k) THEN Nul ELSE line[k]
    <3>1. CASE k < i
      BY <3>1, <2>1 DEF Agrees
    <3>2. CASE k >= i
      <4>1. cmd[k] = line[k]
        BY <3>2, <2>1 DEF Agrees
      <4>2. k < i' => ~ First(k)
        BY <3>2, <2>1, <1>t DEF First
      <4>3. QED BY <4>1, <4>2
    <3>3. QED BY <3>1, <3>2, <1>t
  <2>2. QED BY <2>1
<1>5. i' \in 2 .. cmdLen => ~ Parts(i' - 1)
  <2>0. i \in Int /\ i' \in Int /\ i' >= i + 1 /\ cmdLen \in Nat
    BY <1>t
  <2>1. \A x, y \in Int, z \in Nat :
          y >= x + 1 => y - 1 \in x .. y - 1 /\ (y \in 2 .. z => y - 1 <= z)
    OBVIOUS
  <2>2. i' - 1 \in i .. i' - 1 /\ (i' \in 2 .. cmdLen => i' - 1 <= cmdLen)
    BY <2>0, <2>1
  <2>3. QED BY <2>2
<1>6. Starts' = Starts
  <2>1. ASSUME NEW a \in 2 .. cmdLen, Parts(a - 1)
        PROVE  a <= i' <=> a <= i
    <3>1. a > i /\ a <= i' => a - 1 \in i .. i' - 1 /\ a - 1 <= cmdLen
      BY <2>1, <1>t
    <3>2. a <= i => a <= i'
      BY <2>1, <1>t
    <3>3. a <= i \/ a > i
      BY <2>1, <1>t
    <3>4. QED BY <2>1, <3>1, <3>2, <3>3
  <2>2. Starts' = {1} \cup {a \in 2 .. cmdLen : a <= i' /\ Parts(a - 1) /\ ~ Parts(a)}
    BY <1>1, <1>2 DEF Starts
  <2>3. QED BY <2>1, <2>2 DEF Starts
<1>7. \A k \in 1 .. Len(cmdv) : cmdv[k] <= i'
  BY <1>t DEF Agrees
<1>8. QED
  <2>1. /\ {cmdv[k] : k \in DOMAIN cmdv} = Starts
        /\ \A k \in 1 .. Len(cmdv) - 1 : cmdv[k] < cmdv[k + 1]
    BY DEF Agrees
  <2>2. \A k \in 1 .. cmdLen : cmd'[k] = IF k < i' /\ First(k)' THEN Nul ELSE line'[k]
    BY <1>3, <1>4
  <2>3. (i \in 2 .. cmdLen /\ Parts(i - 1) => line[i] # Space)'
    BY <1>1, <1>5 DEF Parts
  <2>4. /\ i' <= cmdLen + 1 => Reading[i' - 1] = [quote |-> quote', escaped |-> FALSE]
        /\ i' = cmdLen + 2 => Reading[cmdLen] = [quote |-> quote', escaped |-> TRUE]
    OBVIOUS
  <2>5. QED BY <1>1, <1>6, <1>7, <2>1, <2>2, <2>3, <2>4 DEF Agrees

\* The loop at a character that ends no argument.
LEMMA Inside ==
  ASSUME IInv, Agrees, IsRead, Escaped \/ Quote \/ Other
  PROVE  Agrees'
<1>t. cmdLen \in Nat /\ i \in Nat /\ quote \in Quotes \cup {None}
  BY DEF IInv, TypeOK, cmdLen
<1>1. pc = "scan" /\ i \in 1 .. cmdLen /\ UNCHANGED <<pc, line, cmd, cmdv>>
  <2>1. pc = "scan" /\ i <= cmdLen /\ UNCHANGED <<pc, line, cmd, cmdv>>
    BY DEF Escaped, Quote, Other, At
  <2>2. i >= 1
    BY <2>1 DEF IInv, Shape
  <2>3. QED BY <1>t, <2>1, <2>2
<1>2. cmd[i] = line[i] /\ Reading[i - 1] = [quote |-> quote, escaped |-> FALSE]
  BY <1>1, <1>t DEF Agrees
<1>3. Reading[i] = After([quote |-> quote, escaped |-> FALSE], line[i])
  BY <1>1, <1>2 DEF IsRead
<1>4. CASE Escaped
  <2>1. line[i] = Escape /\ i' = i + 2 /\ quote' = quote
    BY <1>2, <1>4 DEF Escaped, At
  <2>2. Reading[i] = [quote |-> quote, escaped |-> TRUE]
    BY <1>t, <1>3, <2>1, AfterPlain
  <2>3. i < cmdLen => Reading[i + 1] = [quote |-> quote, escaped |-> FALSE]
    <3>1. i < cmdLen => Reading[i + 1] = After(Reading[i], line[i + 1])
      <4>1. i < cmdLen => i + 1 \in 1 .. cmdLen /\ (i + 1) - 1 = i
        BY <1>t
      <4>2. QED BY <4>1 DEF IsRead
    <3>2. QED BY <1>t, <2>2, <3>1, AfterPlain
  <2>4. ~ Parts(i)
    BY <2>1 DEF Parts, Escape, Space
  <2>5. i < cmdLen => ~ Parts(i + 1)
    <3>1. (i + 1) - 1 = i
      BY <1>t
    <3>2. [quote |-> quote, escaped |-> TRUE].escaped # [quote |-> None, escaped |-> FALSE].escaped
      OBVIOUS
    <3>3. QED BY <2>2, <3>1, <3>2 DEF Parts
  <2>6. \A k \in i .. i' - 1 : k <= cmdLen => ~ Parts(k)
    <3>1. \A k \in i .. i' - 1 : k = i \/ k = i + 1
      BY <1>t, <2>1
    <3>2. QED BY <1>t, <2>4, <2>5, <3>1
  <2>7. i' <= cmdLen + 1 => Reading[i' - 1] = [quote |-> quote', escaped |-> FALSE]
    <3>1. i' - 1 = i + 1
      BY <1>t, <2>1
    <3>2. QED BY <1>t, <2>1, <2>3, <3>1
  <2>8. i' = cmdLen + 2 => Reading[cmdLen] = [quote |-> quote', escaped |-> TRUE]
    BY <1>t, <2>1, <2>2
  <2>9. QED BY <1>1, <2>1, <2>6, <2>7, <2>8, Along
<1>5. CASE Quote \/ Other
  <2>1. i' = i + 1 /\ i' - 1 = i
    BY <1>5, <1>t DEF Quote, Other
  <2>2. Reading[i] = [quote |-> quote', escaped |-> FALSE] /\ ~ Parts(i)
    <3>1. CASE Quote
      <4>1. PICK q \in Quotes : /\ line[i] = q /\ quote \in {None, q}
                                /\ quote' = IF quote = None THEN q ELSE None
        BY <1>2, <3>1 DEF Quote, At
      <4>2. Reading[i] = [quote |-> quote', escaped |-> FALSE]
        BY <1>t, <1>3, <4>1, AfterPlain
      <4>3. QED BY <4>1, <4>2 DEF Parts, Quotes, Space
    <3>2. CASE \E c \in Letters : At(c) /\ quote' = quote
      <4>1. PICK c \in Letters : line[i] = c /\ quote' = quote
        BY <1>2, <3>2 DEF At
      <4>2. c # Escape /\ c \notin Quotes /\ c # Space
        BY CommandLineAssumption
      <4>3. QED BY <1>t, <1>3, <4>1, <4>2, AfterPlain DEF Parts
    <3>3. CASE \E c \in {Space} \cup Quotes :
                 At(c) /\ quote \notin {None, c} /\ quote' = quote
      <4>1. PICK c \in {Space} \cup Quotes :
              line[i] = c /\ quote \notin {None, c} /\ quote' = quote
        BY <1>2, <3>3 DEF At
      <4>2. c # Escape /\ (c = Space => c \notin Quotes)
        BY DEF Space, Quotes, Escape
      <4>3. Reading[i] = [quote |-> quote', escaped |-> FALSE]
        BY <1>t, <1>3, <4>1, <4>2, AfterPlain
      <4>4. ~ Parts(i)
        <5>1. [quote |-> quote, escaped |-> FALSE].quote
                # [quote |-> None, escaped |-> FALSE].quote
          BY <4>1
        <5>2. QED BY <1>2, <5>1 DEF Parts
      <4>5. QED BY <4>3, <4>4
    <3>4. QED BY <1>5, <3>1, <3>2, <3>3 DEF Other
  <2>3. \A k \in i .. i' - 1 : k <= cmdLen => ~ Parts(k)
    <3>1. \A k \in i .. i' - 1 : k = i
      BY <1>t, <2>1
    <3>2. QED BY <2>2, <3>1
  <2>4. i' # cmdLen + 2
    BY <1>1, <1>t, <2>1
  <2>5. QED BY <1>1, <2>1, <2>2, <2>3, <2>4, Along
<1>6. QED BY <1>4, <1>5

\* A gap ends the string in front of it, and a word begins behind it.
LEMMA AtGap ==
  ASSUME IInv, Agrees, IsRead, Gap
  PROVE  Agrees'
<1> DEFINE j == GapEnd
<1>t. /\ cmdLen \in Nat /\ i \in Nat /\ quote = None /\ pc = "scan"
      /\ cmdv \in Seq(Nat) /\ Len(cmdv) \in Nat /\ DOMAIN cmd = 1 .. cmdLen
  BY DEF IInv, TypeOK, Shape, cmdLen, Gap, At
<1>0. i \in 1 .. cmdLen /\ cmdLen \in Nat
  <2>1. i >= 1 /\ i <= cmdLen
    BY <1>t DEF IInv, Shape, Gap, At
  <2>2. QED BY <1>t, <2>1
<1>1. /\ j \in i .. cmdLen /\ \A k \in i + 1 .. j : cmd[k] = Space
      /\ j < cmdLen => cmd[j + 1] # Space
  BY <1>0, GapEnds DEF IInv, Shape
<1>2. /\ cmd' = [cmd EXCEPT ![i] = Nul] /\ i' = j + 1 /\ pc' = pc /\ line' = line
      /\ quote' = quote
      /\ cmdv' = IF j < cmdLen THEN Append(cmdv, j + 1) ELSE cmdv
  BY DEF Gap
<1> HIDE DEF j
<1>3. cmdLen' = cmdLen /\ Reading' = Reading
  BY <1>2 DEF cmdLen, Reading
<1>4. \A k : Parts(k)' <=> Parts(k)
  BY <1>2, <1>3 DEF Parts
<1>5. \A k : First(k)' <=> First(k)
  BY <1>4 DEF First
<1>6. \A k \in i .. cmdLen : cmd[k] = line[k]
  BY <1>t, <1>0 DEF Agrees
<1>7. \A k \in i .. j : line[k] = Space
  <2>1. cmd[i] = Space
    BY DEF Gap, At
  <2>2. ASSUME NEW k \in i .. j PROVE line[k] = Space
    <3>1. k = i \/ k \in i + 1 .. j
      BY <1>0, <1>1
    <3>2. cmd[k] = Space
      <4>1. \A x \in i + 1 .. j : cmd[x] = Space
        BY <1>1
      <4>2. QED BY ONLY <2>1, <3>1, <4>1
    <3>3. QED BY <1>0, <1>1, <1>6, <3>2
  <2>3. QED BY <2>2
<1>8. Reading[i - 1] = Fresh
  BY <1>t, <1>0 DEF Agrees, Fresh
<1>9. \A k \in i - 1 .. j : Reading[k] = Fresh
  <2> DEFINE Bad == {k \in i - 1 .. j : Reading[k] # Fresh}
  <2>1. SUFFICES ASSUME Bad # {} PROVE FALSE
    BY <2>1
  <2>2. Bad \in SUBSET Nat
    BY <1>0, <1>1
  <2>3. PICK m \in Bad : \A y \in Bad : m <= y
    <3> HIDE DEF Bad
    <3>1. QED BY <2>1, <2>2, LeastNat
  <2>4. m \in i .. j /\ m \in 1 .. cmdLen /\ m - 1 \in i - 1 .. j /\ m - 1 \notin Bad
    BY <1>0, <1>1, <1>8, <2>3
  <2>5. Reading[m] = After(Fresh, Space)
    BY <1>7, <2>4 DEF IsRead
  <2>6. After(Fresh, Space) = Fresh
    <3>1. Space # Escape /\ Space \notin Quotes
      BY DEF Space, Escape, Quotes
    <3>2. QED BY <3>1, AfterPlain DEF Fresh
  <2>7. QED BY <2>3, <2>5, <2>6
<1>10. \A k \in i .. j : Parts(k)
  <2>1. ASSUME NEW k \in i .. j PROVE Parts(k)
    <3>1. k - 1 \in i - 1 .. j
      BY <1>0, <1>1
    <3>2. QED BY <1>7, <1>9, <3>1 DEF Parts, Fresh
  <2>2. QED BY <2>1
<1>11. First(i)
  <2>1. i \in i .. j
    BY <1>0, <1>1
  <2>2. i # 1 => ~ Parts(i - 1)
    <3>1. i # 1 => i \in 2 .. cmdLen
      BY <1>0, <1>t
    <3>2. QED BY <1>7, <1>t, <2>1, <3>1 DEF Agrees
  <2>3. QED BY <1>10, <2>1, <2>2 DEF First
<1>12. \A k \in i + 1 .. j : ~ First(k)
  <2>1. ASSUME NEW k \in i + 1 .. j PROVE ~ First(k)
    <3>1. k - 1 \in i .. j /\ k # 1
      BY <1>0, <1>1
    <3>2. QED BY <1>10, <3>1 DEF First
  <2>2. QED BY <2>1
<1>13. \A k \in 1 .. cmdLen : cmd'[k] = IF k < j + 1 /\ First(k) THEN Nul ELSE line[k]
  <2>1. ASSUME NEW k \in 1 .. cmdLen
        PROVE  cmd'[k] = IF k < j + 1 /\ First(k) THEN Nul ELSE line[k]
    <3>1. CASE k < i
      <4>1. cmd'[k] = cmd[k] /\ k < j + 1
        BY <1>0, <1>1, <1>2, <1>t, <3>1
      <4>2. cmd[k] = IF First(k) THEN Nul ELSE line[k]
        BY <1>t, <3>1, <2>1 DEF Agrees
      <4>3. QED BY <4>1, <4>2
    <3>2. CASE k = i
      <4>1. cmd'[k] = Nul /\ k < j + 1
        BY <1>0, <1>1, <1>2, <1>t, <3>2
      <4>2. QED BY <1>11, <3>2, <4>1
    <3>3. CASE k > i
      <4>1. cmd'[k] = cmd[k] /\ k \in i .. cmdLen
        BY <1>0, <1>2, <1>t, <3>3
      <4>2. k < j + 1 => k \in i + 1 .. j
        BY <1>0, <1>1, <3>3
      <4>3. cmd'[k] = line[k]
        BY <1>6, <4>1
      <4>4. ~(k < j + 1 /\ First(k))
        BY <1>12, <4>2
      <4>5. QED BY <4>3, <4>4
    <3>4. QED BY <1>0, <3>1, <3>2, <3>3
  <2>2. QED BY <2>1
<1>14. j < cmdLen => line[j + 1] # Space /\ ~ Parts(j + 1)
  <2>1. j < cmdLen => j + 1 \in i .. cmdLen
    BY <1>0, <1>1
  <2>2. QED BY <1>1, <1>6, <2>1 DEF Parts
<1>15. Starts' = Starts \cup (IF j < cmdLen THEN {j + 1} ELSE {})
  <2>1. Starts' = {1} \cup {a \in 2 .. cmdLen : a <= j + 1 /\ Parts(a - 1) /\ ~ Parts(a)}
    BY <1>2, <1>3, <1>4 DEF Starts
  <2>2. ASSUME NEW a \in 2 .. cmdLen
        PROVE  (a <= j + 1 /\ Parts(a - 1) /\ ~ Parts(a))
                 <=> (a <= i /\ Parts(a - 1) /\ ~ Parts(a)) \/ (a = j + 1 /\ j < cmdLen)
    <3>1. CASE a <= i
      <4>1. a < j + 1
        BY <1>0, <1>1, <3>1, <2>2
      <4>2. QED BY <3>1, <4>1, <1>0, <1>1
    <3>2. CASE a > i /\ a <= j
      <4>1. a \in i .. j /\ a # j + 1 /\ ~(a <= i)
        BY <1>0, <1>1, <3>2, <2>2
      <4>2. QED BY <1>10, <4>1
    <3>3. CASE a = j + 1
      <4>1. j \in i .. j /\ j < cmdLen /\ a - 1 = j /\ ~(a <= i) /\ a <= j + 1
        BY <1>0, <1>1, <3>3, <2>2
      <4>2. QED BY <1>10, <1>14, <3>3, <4>1
    <3>4. CASE a > j + 1
      <4>1. ~(a <= j + 1) /\ ~(a <= i) /\ a # j + 1
        BY <1>0, <1>1, <3>4, <2>2
      <4>2. QED BY <4>1
    <3>5. QED BY <1>0, <1>1, <2>2, <3>1, <3>2, <3>3, <3>4
  <2>3. j < cmdLen => j + 1 \in 2 .. cmdLen
    BY <1>0, <1>1
  <2>4. Starts = {1} \cup {a \in 2 .. cmdLen : a <= i /\ Parts(a - 1) /\ ~ Parts(a)}
    BY DEF Starts
  <2>5. QED BY <2>1, <2>2, <2>3, <2>4
<1>16. /\ {cmdv[k] : k \in DOMAIN cmdv} = Starts
       /\ \A k \in 1 .. Len(cmdv) - 1 : cmdv[k] < cmdv[k + 1]
       /\ \A k \in 1 .. Len(cmdv) : cmdv[k] <= i
  BY <1>t DEF Agrees
<1>17. /\ {cmdv'[k] : k \in DOMAIN cmdv'} = Starts'
       /\ \A k \in 1 .. Len(cmdv') - 1 : cmdv'[k] < cmdv'[k + 1]
       /\ \A k \in 1 .. Len(cmdv') : cmdv'[k] <= j + 1
  <2>1. CASE ~(j < cmdLen)
    <3>1. cmdv' = cmdv /\ Starts' = Starts
      BY <1>2, <1>15, <2>1
    <3>2. \A k \in 1 .. Len(cmdv) : cmdv[k] <= j + 1
      BY <1>0, <1>1, <1>16, <1>t
    <3>3. QED BY <1>16, <3>1, <3>2
  <2>2. CASE j < cmdLen
    <3> DEFINE m == Len(cmdv)
    <3>0. j + 1 \in Nat /\ j + 1 > i
      BY <1>0, <1>1
    <3>1. /\ cmdv' \in Seq(Nat) /\ Len(cmdv') = m + 1 /\ cmdv'[m + 1] = j + 1
          /\ \A k \in 1 .. m : cmdv'[k] = cmdv[k]
      BY <1>2, <1>t, <2>2, <3>0
    <3>2. DOMAIN cmdv' = 1 .. m + 1 /\ DOMAIN cmdv = 1 .. m /\ m \in Nat
      BY <1>t, <3>1
    <3> HIDE DEF m
    <3>3. Starts' = Starts \cup {j + 1}
      BY <1>15, <2>2
    <3>4. {cmdv'[k] : k \in 1 .. m + 1} = {cmdv[k] : k \in 1 .. m} \cup {j + 1}
      <4>1. 1 .. m + 1 = (1 .. m) \cup {m + 1}
        BY <3>2
      <4>2. QED BY <3>1, <4>1
    <3>5. ASSUME NEW k \in 1 .. m PROVE cmdv'[k] < cmdv'[k + 1]
      <4>1. CASE k = m
        <5>1. cmdv'[k] <= i /\ cmdv'[k] \in Nat /\ cmdv'[k + 1] = j + 1
          <6>1. cmdv[k] <= i /\ cmdv[k] \in Nat
            BY <1>16, <1>t, <3>2, <3>5 DEF m
          <6>2. QED BY <3>1, <3>5, <4>1, <6>1
        <5>2. QED BY <1>0, <3>0, <5>1
      <4>2. CASE k # m
        <5>1. k \in 1 .. m - 1 /\ k + 1 \in 1 .. m
          BY <3>2, <3>5, <4>2
        <5>2. QED BY <1>16, <3>1, <5>1 DEF m
      <4>3. QED BY <4>1, <4>2
    <3>6. ASSUME NEW k \in 1 .. m + 1 PROVE cmdv'[k] <= j + 1
      <4>1. CASE k = m + 1
        BY <3>0, <3>1, <4>1
      <4>2. CASE k # m + 1
        <5>1. k \in 1 .. m
          BY <3>2, <3>6, <4>2
        <5>2. cmdv[k] <= i /\ cmdv[k] \in Nat
          BY <1>16, <1>t, <5>1 DEF m
        <5>3. QED BY <1>0, <3>0, <3>1, <5>1, <5>2
      <4>3. QED BY <4>1, <4>2
    <3>7. {cmdv'[k] : k \in DOMAIN cmdv'} = Starts'
      <4>1. {cmdv[k] : k \in 1 .. m} = Starts
        BY <1>16, <3>2
      <4>2. QED BY <3>2, <3>3, <3>4, <4>1
    <3>8. Len(cmdv') - 1 = m
      BY <3>1, <3>2
    <3>9. QED BY <3>1, <3>5, <3>6, <3>7, <3>8
  <2>3. QED BY <2>1, <2>2
<1>18. QED
  <2>1. i' <= cmdLen' + 1 => Reading'[i' - 1] = [quote |-> quote', escaped |-> FALSE]
    <3>1. i' - 1 = j /\ j \in i - 1 .. j
      BY <1>0, <1>1, <1>2
    <3>2. QED BY <1>2, <1>3, <1>9, <1>t, <3>1 DEF Fresh
  <2>2. i' # cmdLen' + 2
    BY <1>0, <1>1, <1>2, <1>3
  <2>3. \A k \in 1 .. cmdLen' : cmd'[k] = IF k < i' /\ First(k)' THEN Nul ELSE line'[k]
    BY <1>2, <1>3, <1>5, <1>13
  <2>4. i' \in 2 .. cmdLen' => line'[i'] # Space
    BY <1>0, <1>1, <1>2, <1>3, <1>14
  <2>5. pc' = "scan"
    BY <1>2, <1>t
  <2>6. QED BY <1>2, <1>17, <2>1, <2>2, <2>3, <2>4, <2>5 DEF Agrees

\* A line that has just been read: nothing is passed yet.
LEMMA AtPrompt ==
  ASSUME IInv, IInv', IsRead', ReadLine
  PROVE  Agrees'
<1>1. PICK text \in Lines : line' = text /\ cmd' = text
  BY DEF ReadLine
<1>2. i' = 1 /\ quote' = None /\ cmdv' = <<1>> /\ pc' = "scan" /\ cmd' = line'
  BY <1>1 DEF ReadLine
<1>3. cmdLen' \in Nat /\ cmdLen' >= 1
  BY <1>2 DEF IInv, Shape, cmdLen
<1>4. Reading'[0] = [quote |-> None, escaped |-> FALSE]
  BY DEF IsRead, Fresh
<1>5. Starts' = {1}
  BY <1>2, <1>3 DEF Starts
<1>6. i' <= cmdLen' + 1 => Reading'[i' - 1] = [quote |-> quote', escaped |-> FALSE]
  <2>1. i' - 1 = 0
    BY <1>2
  <2>2. QED BY <1>2, <1>4, <2>1
<1>7. i' # cmdLen' + 2 /\ ~(i' \in 2 .. cmdLen')
  <2>1. i' # cmdLen' + 2
    <3>1. \A n \in Nat : 1 # n + 2
      OBVIOUS
    <3>2. QED BY <1>2, <1>3, <3>1
  <2>2. ~(i' \in 2 .. cmdLen')
    BY <1>2, <1>3
  <2>3. QED BY <2>1, <2>2
<1>8. \A k \in 1 .. cmdLen' : cmd'[k] = IF k < i' /\ First(k)' THEN Nul ELSE line'[k]
  BY <1>2, <1>3
<1>9. /\ {cmdv'[k] : k \in DOMAIN cmdv'} = {1}
      /\ \A k \in 1 .. Len(cmdv') - 1 : cmdv'[k] < cmdv'[k + 1]
      /\ \A k \in 1 .. Len(cmdv') : cmdv'[k] <= i'
  BY <1>2
<1>10. QED BY <1>2, <1>5, <1>6, <1>7, <1>8, <1>9 DEF Agrees

\* A line of the invariant is read.
LEMMA AlwaysRead == IInv => IsRead
BY LineIsRead DEF IInv, Shape

\* It is after a step, too.
LEMMA ReadNext == IInv' => IsRead'
BY AlwaysRead, PTL

\* Every step keeps the agreement.
LEMMA AgreesStep ==
  ASSUME IInv, IInv', IsRead, IsRead', Agrees, [Next]_vars
  PROVE  Agrees'
<1>1. CASE ReadLine
  BY <1>1, AtPrompt
<1>2. CASE Gap
  BY <1>2, AtGap
<1>3. CASE Escaped \/ Quote \/ Other
  BY <1>3, Inside
<1>4. CASE Dispatch
  <2>1. /\ pc = "scan" /\ i > cmdLen /\ UNCHANGED <<line, cmd, i, quote, cmdv>>
        /\ pc' = IF quote = None THEN "dispatch" ELSE "unterminated"
    BY <1>4 DEF Dispatch
  <2>2. cmdLen' = cmdLen /\ Reading' = Reading
    BY <2>1 DEF cmdLen, Reading
  <2>3. (\A k : Parts(k)' <=> Parts(k)) /\ (\A k : First(k)' <=> First(k))
    BY <2>1, <2>2 DEF Parts, First
  <2>4. Starts' = Starts
    BY <2>1, <2>2, <2>3 DEF Starts
  <2>5. /\ i <= cmdLen + 1 => Reading[i - 1] = [quote |-> quote, escaped |-> FALSE]
        /\ i = cmdLen + 2 => Reading[cmdLen] = [quote |-> quote, escaped |-> TRUE]
        /\ \A k \in 1 .. cmdLen : cmd[k] = IF k < i /\ First(k) THEN Nul ELSE line[k]
        /\ i \in 2 .. cmdLen /\ Parts(i - 1) => line[i] # Space
        /\ {cmdv[k] : k \in DOMAIN cmdv} = Starts
        /\ \A k \in 1 .. Len(cmdv) - 1 : cmdv[k] < cmdv[k + 1]
        /\ \A k \in 1 .. Len(cmdv) : cmdv[k] <= i
    BY <2>1 DEF Agrees
  <2>6. pc' = "dispatch" <=> quote = None
    BY <2>1
  <2>7. QED BY <2>1, <2>2, <2>3, <2>4, <2>5, <2>6 DEF Agrees
<1>5. CASE Return
  BY <1>5 DEF Return, Agrees
<1>6. CASE UNCHANGED vars
  <2>1. UNCHANGED <<pc, line, cmd, i, quote, cmdv>>
    BY <1>6 DEF vars
  <2>2. cmdLen' = cmdLen /\ Reading' = Reading
    BY <2>1 DEF cmdLen, Reading
  <2>3. (\A k : Parts(k)' <=> Parts(k)) /\ (\A k : First(k)' <=> First(k))
    BY <2>1, <2>2 DEF Parts, First
  <2>4. Starts' = Starts
    BY <2>1, <2>2, <2>3 DEF Starts
  <2>5. QED BY <2>1, <2>2, <2>3, <2>4 DEF Agrees
<1>7. QED BY <1>1, <1>2, <1>3, <1>4, <1>5, <1>6 DEF Next, Scan

\* The loop and the reading agree throughout.
LEMMA Agreement == Spec => [](IInv /\ Agrees)
<1>1. Init => Agrees
  BY DEF Init, Agrees
<1>2. IInv /\ IInv' /\ IsRead /\ IsRead' /\ Agrees /\ [Next]_vars => Agrees'
  BY AgreesStep
<1> QED BY <1>1, <1>2, AlwaysRead, ReadNext, Invariant, PTL DEF Spec

\* Where the string that begins at a place ends, when the loop is through.
LEMMA StringEnds ==
  ASSUME IInv, Agrees, pc = "dispatch", NEW a \in 1 .. cmdLen
  PROVE  \E e \in a - 1 .. cmdLen :
           /\ String(a) = <<a, e>>
           /\ \A k \in a .. e : ~ First(k)
           /\ e < cmdLen => First(e + 1)
<1>t. cmdLen \in Nat /\ line \in Seq(Typed) /\ i > cmdLen /\ i \in Nat
  BY DEF IInv, TypeOK, Shape, Agrees, cmdLen
<1>1. \A k \in 1 .. cmdLen : cmd[k] = Nul <=> First(k)
  <2>1. ASSUME NEW k \in 1 .. cmdLen PROVE cmd[k] = Nul <=> First(k)
    <3>1. line[k] \in Typed
      BY <1>t, <2>1 DEF cmdLen
    <3>2. Nul \notin Typed
      BY CommandLineAssumption DEF Typed, Nul, Space, Escape, Quotes
    <3>3. cmd[k] = IF First(k) THEN Nul ELSE line[k]
      BY <1>t, <2>1 DEF Agrees
    <3>4. QED BY <3>1, <3>2, <3>3
  <2>2. QED BY <2>1
<1> DEFINE ends == {k \in a .. cmdLen : cmd[k] = Nul}
<1>2. String(a) = <<a, IF ends = {} THEN cmdLen
                       ELSE (CHOOSE k \in ends : \A m \in ends : k <= m) - 1>>
  BY DEF String
<1>3. CASE ends = {}
  <2>1. String(a) = <<a, cmdLen>>
    BY <1>2, <1>3
  <2>2. \A k \in a .. cmdLen : ~ First(k)
    BY <1>1, <1>3, <1>t
  <2>3. cmdLen \in a - 1 .. cmdLen /\ ~(cmdLen < cmdLen)
    BY <1>t
  <2>4. QED BY <2>1, <2>2, <2>3
<1>4. CASE ends # {}
  <2>1. ends \in SUBSET Nat
    BY <1>t
  <2> HIDE DEF ends
  <2>2. \E k \in ends : \A m \in ends : k <= m
    BY <1>4, <2>1, LeastNat
  <2>3. PICK c : c = (CHOOSE k \in ends : \A m \in ends : k <= m)
    OBVIOUS
  <2>4. c \in ends /\ \A m \in ends : c <= m
    BY <2>2, <2>3
  <2>5. String(a) = <<a, c - 1>>
    BY <1>2, <1>4, <2>3
  <2>6. c \in a .. cmdLen /\ First(c)
    BY <1>1, <1>t, <2>4 DEF ends
  <2>7. \A k \in a .. c - 1 : ~ First(k)
    <3>1. ASSUME NEW k \in a .. c - 1 PROVE ~ First(k)
      <4>1. k \in a .. cmdLen /\ k \in 1 .. cmdLen /\ ~(c <= k)
        BY <1>t, <2>6, <3>1
      <4>2. k \notin ends
        BY <2>4, <4>1
      <4>3. QED BY <1>1, <4>1, <4>2 DEF ends
    <3>2. QED BY <3>1
  <2>8. c - 1 \in a - 1 .. cmdLen /\ (c - 1) + 1 = c
    BY <1>t, <2>6
  <2>9. QED BY <2>5, <2>6, <2>7, <2>8
<1>5. QED BY <1>3, <1>4

\* From a place in a word there is no space that parts words before the next
\* one that is the first of its gap.
LEMMA WithinWord ==
  ASSUME NEW a \in Nat, NEW e \in Nat, a >= 1, ~ Parts(a), \A k \in a .. e : ~ First(k)
  PROVE  \A k \in a .. e : ~ Parts(k)
<1> DEFINE Bad == {k \in a .. e : Parts(k)}
<1>1. SUFFICES ASSUME Bad # {} PROVE FALSE
  BY <1>1
<1>2. Bad \in SUBSET Nat
  OBVIOUS
<1>3. PICK m \in Bad : \A y \in Bad : m <= y
  <2> HIDE DEF Bad
  <2>1. QED BY <1>1, <1>2, LeastNat
<1>4. m \in a .. e /\ Parts(m) /\ m # a
  BY <1>3
<1>5. m - 1 \in a .. e /\ ~(m <= m - 1)
  BY <1>4
<1>6. ~ Parts(m - 1)
  BY <1>3, <1>5
<1>7. QED BY <1>4, <1>6 DEF First

\* When the command is called, a string that begins at a start is a word, or
\* the empty string in front of a gap that begins the line.
LEMMA StringIsWord ==
  ASSUME IInv, Agrees, pc = "dispatch", NEW a \in Starts
  PROVE  /\ ~ Parts(a) => String(a) \in Words
         /\ Parts(a) => String(a) = <<1, 0>> /\ Parts(1)
<1>t. cmdLen \in Nat /\ cmdLen >= 1
  BY DEF IInv, TypeOK, Shape, cmdLen
<1>1. a \in 1 .. cmdLen /\ (a = 1 \/ (Parts(a - 1) /\ ~ Parts(a)))
  BY <1>t DEF Starts
<1>2. PICK e \in a - 1 .. cmdLen :
         /\ String(a) = <<a, e>>
         /\ \A k \in a .. e : ~ First(k)
         /\ e < cmdLen => First(e + 1)
  BY <1>1, StringEnds
<1>3. CASE ~ Parts(a)
  <2>1. e # a - 1
    <3>1. SUFFICES ASSUME e = a - 1 PROVE FALSE
      OBVIOUS
    <3>2. e < cmdLen /\ e + 1 = a
      BY <1>1, <1>t, <3>1
    <3>3. QED BY <1>2, <1>3, <3>2 DEF First
  <2>2. e \in a .. cmdLen /\ e \in Nat /\ a \in Nat /\ a >= 1
    BY <1>1, <1>2, <1>t, <2>1
  <2>3. \A k \in a .. e : ~ Parts(k)
    BY <1>2, <1>3, <2>2, WithinWord
  <2>4. e = cmdLen \/ Parts(e + 1)
    BY <1>2, <1>t, <2>2 DEF First
  <2>5. <<a, e>> \in (1 .. cmdLen) \X (1 .. cmdLen) /\ a <= e
    BY <1>1, <1>t, <2>2
  <2>6. <<a, e>> \in Words
    BY <1>1, <2>3, <2>4, <2>5 DEF Words
  <2>7. QED BY <1>2, <1>3, <2>6
<1>4. CASE Parts(a)
  <2>1. a = 1 /\ First(1)
    BY <1>1, <1>4 DEF First
  <2>2. e = 0
    <3>1. e # 0 => 1 \in a .. e
      BY <1>2, <1>t, <2>1
    <3>2. QED BY <1>2, <2>1, <3>1
  <2>3. QED BY <1>2, <1>4, <2>1, <2>2
<1>5. QED BY <1>3, <1>4

\* When the command is called, every word is a string that begins at a start.
LEMMA WordIsString ==
  ASSUME IInv, Agrees, pc = "dispatch", NEW w \in Words
  PROVE  w[1] \in Starts /\ String(w[1]) = w
<1>t. cmdLen \in Nat /\ i \in Nat /\ i > cmdLen
  BY DEF IInv, TypeOK, Agrees, cmdLen
<1> DEFINE a == w[1]
           b == w[2]
<1>1. /\ a \in 1 .. cmdLen /\ b \in 1 .. cmdLen /\ a <= b /\ w = <<a, b>>
      /\ \A k \in a .. b : ~ Parts(k)
      /\ a = 1 \/ Parts(a - 1)
      /\ b = cmdLen \/ Parts(b + 1)
  BY DEF Words
<1> HIDE DEF a, b
<1>2. a \in a .. b /\ b \in a .. b
  BY <1>1, <1>t
<1>3. a \in Starts
  <2>1. a # 1 => a \in 2 .. cmdLen /\ a <= i
    BY <1>1, <1>t
  <2>2. QED BY <1>1, <1>2, <2>1 DEF Starts
<1>4. PICK e \in a - 1 .. cmdLen :
         /\ String(a) = <<a, e>>
         /\ \A k \in a .. e : ~ First(k)
         /\ e < cmdLen => First(e + 1)
  BY <1>1, StringEnds
<1>5. ~(e < b)
  <2>1. e < b => e + 1 \in a .. b /\ e < cmdLen
    BY <1>1, <1>4, <1>t
  <2>2. QED BY <1>1, <1>4, <2>1 DEF First
<1>6. ~(e > b)
  <2>1. SUFFICES ASSUME e > b PROVE FALSE
    OBVIOUS
  <2>2. b + 1 \in a .. e /\ b # cmdLen /\ (b + 1) - 1 = b
    BY <1>1, <1>4, <1>t, <2>1
  <2>3. First(b + 1)
    BY <1>1, <1>2, <2>2 DEF First
  <2>4. QED BY <1>4, <2>2, <2>3
<1>7. e = b
  BY <1>1, <1>4, <1>5, <1>6, <1>t
<1>8. QED BY <1>1, <1>3, <1>4, <1>7 DEF a

\* A line is given up exactly when a quote is left open in it.  Otherwise the
\* arguments the command is called with are the words of the line, each once
\* and in their order, with an empty string in front of them when the line
\* begins with a space (processcommand), for lines of every length.
THEOREM ArgumentsRight == Spec => []ArgumentsAreWords
<1>1. ASSUME IInv, Agrees PROVE ArgumentsAreWords
  <2>t. cmdLen \in Nat /\ i \in 0 .. cmdLen + 2
    BY <1>1 DEF IInv, TypeOK, cmdLen
  <2>1. ASSUME pc \in {"dispatch", "unterminated"}
        PROVE  Reading[cmdLen].quote = quote /\ (pc = "dispatch" <=> quote = None)
    <3>1. i > cmdLen /\ (pc = "dispatch" <=> quote = None)
      BY <1>1, <2>1 DEF Agrees
    <3>2. i = cmdLen + 1 \/ i = cmdLen + 2
      BY <2>t, <3>1
    <3>3. CASE i = cmdLen + 1
      <4>1. i - 1 = cmdLen
        BY <2>t, <3>3
      <4>2. Reading[i - 1] = [quote |-> quote, escaped |-> FALSE]
        BY <1>1, <2>1, <2>t, <3>3 DEF Agrees
      <4>3. Reading[cmdLen] = [quote |-> quote, escaped |-> FALSE]
        BY <4>1, <4>2
      <4>4. QED BY <3>1, <4>3
    <3>4. CASE i = cmdLen + 2
      <4>1. Reading[cmdLen] = [quote |-> quote, escaped |-> TRUE]
        BY <1>1, <2>1, <3>4 DEF Agrees
      <4>2. QED BY <3>1, <4>1
    <3>5. QED BY <3>2, <3>3, <3>4
  <2>2. pc = "unterminated" => Reading[cmdLen].quote # None
    BY <2>1
  <2>3. ASSUME pc = "dispatch"
        PROVE  /\ Reading[cmdLen].quote = None
               /\ {String(cmdv[k]) : k \in DOMAIN cmdv} =
                    Words \cup (IF Parts(1) THEN {<<1, 0>>} ELSE {})
               /\ \A k \in 1 .. Len(cmdv) - 1 : cmdv[k] < cmdv[k + 1]
    <3>1. Reading[cmdLen].quote = None
      BY <2>1, <2>3
    <3>2. /\ {cmdv[k] : k \in DOMAIN cmdv} = Starts
          /\ \A k \in 1 .. Len(cmdv) - 1 : cmdv[k] < cmdv[k + 1]
      BY <1>1, <2>3 DEF Agrees
    <3>3. {String(cmdv[k]) : k \in DOMAIN cmdv} = {String(a) : a \in Starts}
      BY <3>2
    <3>4. 1 \in Starts
      BY DEF Starts
    <3>5. \A a \in Starts : String(a) \in Words \cup (IF Parts(1) THEN {<<1, 0>>} ELSE {})
      BY <1>1, <2>3, StringIsWord
    <3>6. Parts(1) => String(1) = <<1, 0>>
      BY <1>1, <2>3, <3>4, StringIsWord
    <3>7. \A w \in Words : \E a \in Starts : w = String(a)
      BY <1>1, <2>3, WordIsString
    <3>8. {String(a) : a \in Starts} = Words \cup (IF Parts(1) THEN {<<1, 0>>} ELSE {})
      BY <3>4, <3>5, <3>6, <3>7
    <3>9. QED BY <3>1, <3>2, <3>3, <3>8
  <2>4. QED BY <2>2, <2>3 DEF ArgumentsAreWords
<1> QED BY <1>1, Agreement, PTL
=============================================================================
