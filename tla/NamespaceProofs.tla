-------------------------- MODULE NamespaceProofs --------------------------
(***************************************************************************)
(* What every command leaves true of the directories, whatever is typed.   *)
(***************************************************************************)
EXTENDS Namespace, LeastNumbers, SequenceTheorems, TLAPS

\* What is assumed of the numbers.
LEMMA Numbers ==
  /\ MaxLoc \in Nat \ {0} /\ Capacity \in Nat \ {0, 1} /\ MaxCrashes \in Nat
  /\ MaxDepth \in Nat /\ MaxDepth > MaxLoc /\ MayRefuse \in BOOLEAN
BY NamespaceAssumption

-----------------------------------------------------------------------------
(* Texts.  What the expansion of a path gives: a text of the same tokens,  *)
(* and of an input without dots, the input behind the path it is added to. *)

\* The text a path begins with.
Base(path, input) == IF input.rooted THEN Slash ELSE path

\* A token added to a text.
LEMMA Descending ==
  ASSUME NEW T, NEW x \in Text(T), NEW tok \in T \cup {".", ".."}
  PROVE  /\ Descend(x, tok) \in Text(T)
         /\ Descend(x, tok).rooted = x.rooted
         /\ tok \notin {"..", "."} => Descend(x, tok).toks = Append(x.toks, tok)
<1>1. x.toks \in Seq(T) /\ x.rooted \in BOOLEAN
  BY DEF Text
<1>2. CASE tok = ".." /\ Len(x.toks) > IF x.rooted THEN 0 ELSE 1
  <2>1. Front(x.toks) \in Seq(T)
    BY <1>1, <1>2 DEF Front
  <2>2. Descend(x, tok) = [x EXCEPT !.toks = Front(x.toks)]
    BY <1>2 DEF Descend
  <2>3. QED BY <1>2, <2>1, <2>2 DEF Text
<1>3. CASE tok \notin {"..", "."}
  <2>1. Descend(x, tok) = [x EXCEPT !.toks = Append(x.toks, tok)]
    BY <1>3 DEF Descend
  <2>2. tok \in T
    BY <1>3
  <2>3. Append(x.toks, tok) \in Seq(T)
    BY <1>1, <2>2, AppendProperties
  <2>4. QED BY <1>1, <2>1, <2>3 DEF Text
<1>4. CASE tok = "." \/ (tok = ".." /\ ~(Len(x.toks) > IF x.rooted THEN 0 ELSE 1))
  <2>1. Descend(x, tok) = x
    BY <1>4 DEF Descend
  <2>2. QED BY <1>4, <2>1
<1>5. QED BY <1>2, <1>3, <1>4

\* The texts the loop of expand_pathname goes through.
LEMMA Expanding ==
  ASSUME NEW T, NEW path \in Text(T), NEW input \in Text(T \cup {".", ".."})
  PROVE  \E f : /\ f \in [0 .. Len(input.toks) -> Text(T)] /\ f[0] = Base(path, input)
                /\ \A k \in 1 .. Len(input.toks) : f[k] = Descend(f[k - 1], input.toks[k])
                /\ expand_pathname(path, input) = f[Len(input.toks)]
<1> DEFINE n == Len(input.toks)
           a == Base(path, input)
           Is(f) == f = [k \in 0 .. n |-> IF k = 0 THEN a ELSE Descend(f[k - 1], input.toks[k])]
           step == [x \in Text(T) |-> [k \in 1 .. n |-> Descend(x, input.toks[k])]]
<1>1. input.toks \in Seq(T \cup {".", ".."}) /\ n \in Nat /\ a \in Text(T)
  BY DEF Text, Base, Slash, Abs
<1>2. step \in [Text(T) -> [1 .. n -> Text(T)]]
  <2>1. ASSUME NEW x \in Text(T), NEW k \in 1 .. n PROVE Descend(x, input.toks[k]) \in Text(T)
    <3>1. input.toks[k] \in T \cup {".", ".."}
      BY <1>1
    <3>2. QED BY <3>1, Descending
  <2>2. QED BY <2>1
<1>3. Computes(n, Text(T), a, step)
  <2> DEFINE S == Text(T)
  <2>1. n \in Nat /\ a \in S /\ step \in [S -> [1 .. n -> S]]
    BY <1>1, <1>2
  <2> HIDE DEF step, n, a, S
  <2>2. Computes(n, S, a, step)
    BY ONLY <2>1, Iteration
  <2>3. QED BY <2>2 DEF S
<1>4. PICK g : /\ g \in [0 .. n -> Text(T)] /\ g[0] = a
               /\ \A k \in 1 .. n : g[k] = step[g[k - 1]][k]
               /\ \A f : f[0] = a /\ (\A k \in 1 .. n :
                                         f[k - 1] \in Text(T) => f[k] = step[f[k - 1]][k])
                         => Agree(f, g, n)
  <2> HIDE DEF step, n, a
  <2>1. QED BY <1>3 DEF Computes
<1>5. \A k \in 1 .. n : g[k] = Descend(g[k - 1], input.toks[k])
  <2>1. ASSUME NEW k \in 1 .. n PROVE g[k] = Descend(g[k - 1], input.toks[k])
    <3>1. g[k - 1] \in Text(T) /\ g[k] = step[g[k - 1]][k]
      <4>1. k - 1 \in 0 .. n
        BY <1>1, <2>1
      <4> HIDE DEF step, n
      <4>2. QED BY <1>4, <4>1
    <3>2. QED BY <3>1
  <2>2. QED BY <2>1
<1>6. Is(g)
  BY <1>1, <1>4, <1>5
<1>7. PICK f : f = (CHOOSE h : Is(h))
  OBVIOUS
<1>8. Is(f)
  <2> HIDE DEF Is
  <2>1. QED BY <1>6, <1>7
<1>9. expand_pathname(path, input) = f[n]
  BY <1>7 DEF expand_pathname, Base
<1>10. f[0] = a /\ \A k \in 1 .. n : f[k - 1] \in Text(T) => f[k] = step[f[k - 1]][k]
  <2>1. f[0] = a
    BY <1>1, <1>8
  <2>2. ASSUME NEW k \in 1 .. n, f[k - 1] \in Text(T) PROVE f[k] = step[f[k - 1]][k]
    <3>1. f[k] = Descend(f[k - 1], input.toks[k])
      BY <1>1, <1>8, <2>2
    <3>2. QED BY <2>2, <3>1
  <2>3. QED BY <2>1, <2>2
<1>11. Agree(f, g, n)
  <2> HIDE DEF step, n, a, Is
  <2>1. QED BY <1>4, <1>10
<1>12. expand_pathname(path, input) = g[n]
  <2>1. n \in 0 .. n
    BY <1>1
  <2>2. f[n] = g[n]
    BY <1>11, <2>1 DEF Agree
  <2>3. QED BY <1>9, <2>2
<1>13. QED
  <2> HIDE DEF step, Is
  <2>1. QED BY <1>4, <1>5, <1>12

\* An expanded text has the tokens of the path and of the input, but no dots of
\* the input's.
LEMMA ExpandedText ==
  ASSUME NEW T, NEW path \in Text(T), NEW input \in Text(T \cup {".", ".."})
  PROVE  expand_pathname(path, input) \in Text(T)
<1>1. Len(input.toks) \in Nat
  BY DEF Text
<1>2. QED BY <1>1, Expanding

\* It begins with a slash when what the input is added to does.
LEMMA ExpandedSlash ==
  ASSUME NEW T, NEW path \in Text(T), NEW input \in Text(T \cup {".", ".."})
  PROVE  expand_pathname(path, input).rooted = Base(path, input).rooted
<1> DEFINE n == Len(input.toks)
           b == Base(path, input).rooted
<1>1. input.toks \in Seq(T \cup {".", ".."}) /\ n \in Nat
  BY DEF Text
<1>2. PICK f : /\ f \in [0 .. n -> Text(T)] /\ f[0] = Base(path, input)
               /\ \A k \in 1 .. n : f[k] = Descend(f[k - 1], input.toks[k])
               /\ expand_pathname(path, input) = f[n]
  BY Expanding
<1> HIDE DEF n
<1>3. ASSUME NEW k \in 1 .. n PROVE f[k].rooted = f[k - 1].rooted
  <2>1. f[k - 1] \in Text(T)
    <3>1. k - 1 \in 0 .. n
      BY <1>1
    <3>2. QED BY <1>2, <3>1
  <2>2. input.toks[k] \in T \cup {".", ".."}
    BY <1>1 DEF n
  <2>3. Descend(f[k - 1], input.toks[k]).rooted = f[k - 1].rooted
    BY <2>1, <2>2, Descending
  <2>4. QED BY <1>2, <2>3
<1> DEFINE g == [k \in 0 .. n |-> f[k].rooted]
           h == [k \in 0 .. n |-> b]
<1>4. Agree(g, h, n)
  <2>1. g[0] = h[0]
    BY <1>1, <1>2
  <2>2. ASSUME NEW k \in 1 .. n, g[k - 1] = h[k - 1] PROVE g[k] = h[k]
    <3>1. k - 1 \in 0 .. n /\ k \in 0 .. n
      BY <1>1
    <3>2. QED BY <1>3, <2>2, <3>1
  <2> HIDE DEF g, h
  <2>3. QED BY <1>1, <2>1, <2>2, SameIteration
<1>5. n \in 0 .. n
  BY <1>1
<1>6. g[n] = h[n]
  <2> HIDE DEF g, h
  <2>1. QED BY <1>4, <1>5 DEF Agree
<1>7. QED BY <1>2, <1>5, <1>6

\* A rooted input is not added to the session's path, whatever that is.
LEMMA RootedInput ==
  ASSUME NEW path, NEW other, NEW input, input.rooted = TRUE
  PROVE  expand_pathname(path, input) = expand_pathname(other, input)
BY DEF expand_pathname

\* An input without dots comes behind what it is added to.
LEMMA PlainInput ==
  ASSUME NEW T, NEW path \in Text(T), NEW input \in Text(T),
         \A k \in 1 .. Len(input.toks) : input.toks[k] \notin {".", ".."}
  PROVE  expand_pathname(path, input) =
           [rooted |-> Base(path, input).rooted, toks |-> Base(path, input).toks \o input.toks]
<1> DEFINE n == Len(input.toks)
           b == Base(path, input)
           g == [k \in 0 .. n |-> [rooted |-> b.rooted, toks |-> b.toks \o SubSeq(input.toks, 1, k)]]
<1>1. /\ input.toks \in Seq(T) /\ n \in Nat /\ b \in Text(T) /\ input \in Text(T \cup {".", ".."})
      /\ b.toks \in Seq(T) /\ b.rooted \in BOOLEAN
  <2>1. input.toks \in Seq(T) /\ n \in Nat /\ input.rooted \in BOOLEAN
    BY DEF Text
  <2>2. b \in Text(T) /\ b.toks \in Seq(T) /\ b.rooted \in BOOLEAN
    <3>1. <<>> \in Seq(T)
      BY EmptySeq
    <3>2. QED BY <3>1 DEF Text, Base, Slash, Abs
  <2>3. input.toks \in Seq(T \cup {".", ".."})
    <3>1. T \subseteq T \cup {".", ".."}
      OBVIOUS
    <3>2. QED BY <2>1, <3>1, SeqMonotonic
  <2>4. input \in Text(T \cup {".", ".."})
    BY <2>1, <2>3 DEF Text
  <2>5. QED BY <2>1, <2>2, <2>4
<1>2. PICK f : /\ f \in [0 .. n -> Text(T)] /\ f[0] = b
               /\ \A k \in 1 .. n : f[k] = Descend(f[k - 1], input.toks[k])
               /\ expand_pathname(path, input) = f[n]
  BY <1>1, Expanding
<1>3. f[0] = g[0]
  <2>1. SubSeq(input.toks, 1, 0) = <<>>
    BY SubSeqEmpty
  <2>2. b.toks \o <<>> = b.toks
    BY <1>1, ConcatEmptySeq
  <2>3. 0 \in 0 .. n
    BY <1>1
  <2>4. g[0] = [rooted |-> b.rooted, toks |-> b.toks]
    BY <2>1, <2>2, <2>3
  <2>5. QED BY <1>1, <1>2, <2>4 DEF Text
<1>4. ASSUME NEW k \in 1 .. n, f[k - 1] = g[k - 1] PROVE f[k] = g[k]
  <2> DEFINE tok == input.toks[k]
             x == f[k - 1]
  <2>1. tok \in T /\ tok \notin {".", ".."} /\ k - 1 \in 0 .. n /\ k \in 0 .. n
    BY <1>1, <1>4
  <2>2. x \in Text(T) /\ x.rooted = b.rooted /\ x.toks = b.toks \o SubSeq(input.toks, 1, k - 1)
    <3>1. g[k - 1] = [rooted |-> b.rooted, toks |-> b.toks \o SubSeq(input.toks, 1, k - 1)]
      BY <2>1
    <3>2. f[k - 1] \in Text(T)
      BY <1>2, <2>1
    <3> DEFINE s == b.toks \o SubSeq(input.toks, 1, k - 1)
    <3>3. f[k - 1] = [rooted |-> b.rooted, toks |-> s]
      BY <1>4, <3>1
    <3>4. x.rooted = b.rooted /\ x.toks = s
      <4> HIDE DEF b, s
      <4>1. QED BY <3>3
    <3>5. QED BY <3>2, <3>4
  <2>3. f[k] \in Text(T) /\ f[k].rooted = b.rooted /\ f[k].toks = Append(x.toks, tok)
    <3>1. f[k] = Descend(x, tok)
      BY <1>2, <1>4
    <3> HIDE DEF x, tok
    <3>2. tok \in T \cup {".", ".."} /\ tok \notin {"..", "."}
      BY <2>1
    <3>3. /\ Descend(x, tok) \in Text(T) /\ Descend(x, tok).rooted = x.rooted
          /\ Descend(x, tok).toks = Append(x.toks, tok)
      <4>1. x \in Text(T)
        BY <2>2
      <4>2. QED BY ONLY <3>2, <4>1, Descending
    <3>4. QED BY <2>2, <3>1, <3>3
  <2>4. Append(b.toks \o SubSeq(input.toks, 1, k - 1), tok) = b.toks \o SubSeq(input.toks, 1, k)
    <3> DEFINE head == SubSeq(input.toks, 1, k - 1)
    <3>1. SubSeq(input.toks, 1, k) = head \o <<tok>>
      <4>1. 1 \in 1 .. Len(input.toks) /\ k \in 1 .. Len(input.toks)
        BY <1>1, <1>4
      <4>2. QED BY <1>1, <4>1, SubSeqRecursiveSecond
    <3>2. head \in Seq(T) /\ <<tok>> \in Seq(T)
      <4>1. \A i \in 1 .. k - 1 : input.toks[i] \in T
        BY <1>1
      <4>2. 1 \in Int /\ k - 1 \in Int
        BY <1>1, <1>4
      <4>3. head \in Seq(T)
        BY <4>1, <4>2, SubSeqProperties
      <4>4. <<tok>> \in Seq(T)
        BY <2>1
      <4>5. QED BY <4>3, <4>4
    <3>3. b.toks \o head \in Seq(T)
      BY <1>1, <3>2, ConcatProperties
    <3>4. Append(b.toks \o head, tok) = (b.toks \o head) \o <<tok>>
      BY <2>1, <3>3, AppendIsConcat
    <3>5. (b.toks \o head) \o <<tok>> = b.toks \o (head \o <<tok>>)
      <4> DEFINE u == b.toks
                 v == <<tok>>
      <4>1. u \in Seq(T) /\ head \in Seq(T) /\ v \in Seq(T)
        BY <1>1, <3>2
      <4>2. (u \o head) \o v = u \o (head \o v)
        <5> HIDE DEF u, head, v
        <5>1. QED BY ONLY <4>1, ConcatAssociative, SMTT(30)
      <4>3. QED BY <4>2
    <3>6. QED BY <3>1, <3>4, <3>5
  <2>5. f[k] = [rooted |-> b.rooted, toks |-> b.toks \o SubSeq(input.toks, 1, k)]
    BY <2>2, <2>3, <2>4 DEF Text
  <2>6. g[k] = [rooted |-> b.rooted, toks |-> b.toks \o SubSeq(input.toks, 1, k)]
    BY <2>1
  <2>7. QED BY <2>5, <2>6
<1>5. Agree(f, g, n)
  <2> HIDE DEF g, n
  <2>1. QED BY <1>1, <1>3, <1>4, SameIteration
<1>6. f[n] = g[n] /\ g[n] = [rooted |-> b.rooted, toks |-> b.toks \o SubSeq(input.toks, 1, n)]
  <2>1. n \in 0 .. n
    BY <1>1
  <2>2. g[n] = [rooted |-> b.rooted, toks |-> b.toks \o SubSeq(input.toks, 1, n)]
    BY <2>1
  <2>3. f[n] = g[n]
    <3> HIDE DEF g, n
    <3>1. QED BY <1>5, <2>1 DEF Agree
  <2>4. QED BY <2>2, <2>3
<1>7. SubSeq(input.toks, 1, n) = input.toks
  BY <1>1, SubSeqFull
<1>8. QED BY <1>2, <1>6, <1>7

\* What the callers of expand_pathname make of an input without dots that is
\* not empty: its last token is the name, and what comes before it leads to the
\* directory.
LEMMA PlainName ==
  ASSUME NEW T, NEW path \in Text(T), NEW input \in Text(T), input.toks # <<>>,
         \A k \in 1 .. Len(input.toks) : input.toks[k] \notin {".", ".."}
  PROVE  /\ FileName(expand_pathname(path, input)) = input.toks[Len(input.toks)]
         /\ Len(input.toks) \in 1 .. Len(input.toks)
<1> DEFINE b == Base(path, input)
<1>1. input.toks \in Seq(T) /\ Len(input.toks) \in Nat \ {0}
  BY EmptySeq DEF Text
<1>2. b.toks \in Seq(T)
  <2>1. <<>> \in Seq(T)
    BY EmptySeq
  <2>2. QED BY <2>1 DEF Text, Base, Slash, Abs
<1>3. expand_pathname(path, input).toks = b.toks \o input.toks
  <2>1. expand_pathname(path, input) = [rooted |-> b.rooted, toks |-> b.toks \o input.toks]
    BY PlainInput
  <2> DEFINE s == b.toks \o input.toks
  <2>2. expand_pathname(path, input).toks = s
    <3>1. expand_pathname(path, input) = [rooted |-> b.rooted, toks |-> s]
      BY <2>1
    <3> HIDE DEF b, s
    <3>2. QED BY <3>1
  <2>3. QED BY <2>2
<1> HIDE DEF b
<1> DEFINE s == b.toks \o input.toks
           m == Len(b.toks)
           n == Len(input.toks)
<1>4. s \in Seq(T) /\ Len(s) = m + n /\ m \in Nat /\ n \in Nat \ {0}
      /\ \A i \in 1 .. m + n : s[i] = IF i <= m THEN b.toks[i] ELSE input.toks[i - m]
  <2>1. b.toks \o input.toks \in Seq(T)
    BY <1>1, <1>2, ConcatProperties
  <2>2. Len(b.toks \o input.toks) = Len(b.toks) + Len(input.toks)
    BY <1>1, <1>2, ConcatProperties
  <2>3. \A i \in 1 .. Len(b.toks) + Len(input.toks) : (b.toks \o input.toks)[i] =
                     IF i <= Len(b.toks) THEN b.toks[i] ELSE input.toks[i - Len(b.toks)]
    BY <1>1, <1>2, ConcatProperties
  <2>4. m \in Nat
    BY <1>2
  <2>5. QED BY <1>1, <2>1, <2>2, <2>3, <2>4
<1>5. s # <<>> /\ s[Len(s)] = input.toks[n]
  <2> HIDE DEF s, m, n
  <2>1. m + n \in 1 .. m + n /\ ~ (m + n <= m) /\ (m + n) - m = n
    BY <1>4
  <2>2. s[m + n] = input.toks[n]
    BY <1>4, <2>1
  <2>3. s # <<>>
    BY <1>4
  <2>4. QED BY <1>4, <2>2, <2>3
<1>6. FileName(expand_pathname(path, input)) = input.toks[n]
  BY <1>3, <1>5 DEF FileName, Last
<1>7. QED BY <1>1, <1>6

\* A text that begins with a slash and has no dots is expanded already.
LEMMA Expanded ==
  ASSUME NEW T, NEW path \in Text(T), NEW input \in Text(T), input.rooted,
         \A k \in 1 .. Len(input.toks) : input.toks[k] \notin {".", ".."}
  PROVE  expand_pathname(path, input) = input
<1>1. Base(path, input) = Slash
  BY DEF Base
<1>2. <<>> \o input.toks = input.toks
  BY ConcatEmptySeq DEF Text
<1>3. expand_pathname(path, input) = [rooted |-> TRUE, toks |-> input.toks]
  <2>1. expand_pathname(path, input) = [rooted |-> Base(path, input).rooted,
                                        toks |-> Base(path, input).toks \o input.toks]
    BY PlainInput
  <2>2. QED BY <1>1, <1>2, <2>1 DEF Slash, Abs
<1>4. QED BY <1>3 DEF Text

\* The parent of a text has its tokens.
LEMMA ParentIsText ==
  ASSUME NEW T, NEW text \in Text(T)
  PROVE  /\ ParentText(text) \in Text(T) /\ ParentText(text).rooted = text.rooted
         /\ text.toks = <<>> => ParentText(text) = text
         /\ text.toks # <<>> => /\ Len(text.toks) \in Nat \ {0}
                                /\ ParentText(text).toks = SubSeq(text.toks, 1, Len(text.toks) - 1)
<1>1. text.toks \in Seq(T) /\ Len(text.toks) \in Nat /\ (text.toks # <<>> => Len(text.toks) # 0)
  BY DEF Text
<1>2. CASE text.toks = <<>>
  <2>1. ParentText(text) = [text EXCEPT !.toks = text.toks]
    BY <1>2 DEF ParentText
  <2>2. QED BY <1>2, <2>1 DEF Text
<1>3. CASE text.toks # <<>>
  <2> DEFINE front == SubSeq(text.toks, 1, Len(text.toks) - 1)
  <2>1. ParentText(text) = [text EXCEPT !.toks = front]
    BY <1>3 DEF ParentText, Front
  <2>2. front \in Seq(T)
    BY <1>1, <1>3
  <2> HIDE DEF front
  <2>3. QED BY <1>1, <1>3, <2>1, <2>2 DEF Text, front
<1>4. QED BY <1>2, <1>3

-----------------------------------------------------------------------------
(* Arrays and sequences *)

\* What is left of a sequence when one element is taken out.
LEMMA RemovedAt ==
  ASSUME NEW S, NEW s \in Seq(S), NEW i \in 1 .. Len(s)
  PROVE  /\ RemoveAt(s, i) \in Seq(S) /\ Len(RemoveAt(s, i)) = Len(s) - 1
         /\ \A j \in 1 .. Len(s) - 1 : RemoveAt(s, i)[j] = IF j < i THEN s[j] ELSE s[j + 1]
<1> DEFINE a == SubSeq(s, 1, i - 1)
           b == SubSeq(s, i + 1, Len(s))
<1>1. Len(s) \in Nat /\ i \in Int /\ i >= 1 /\ i <= Len(s)
  BY LenProperties
<1>2. /\ a \in Seq(S) /\ Len(a) = i - 1
      /\ \A j \in 1 .. i - 1 : a[j] = s[j]
  <2>1. \A j \in 1 .. i - 1 : s[j] \in S
    BY <1>1
  <2>2. 1 \in Int /\ i - 1 \in Int
    BY <1>1
  <2>3. /\ SubSeq(s, 1, i - 1) \in Seq(S)
        /\ Len(SubSeq(s, 1, i - 1)) = IF 1 <= i - 1 THEN (i - 1) - 1 + 1 ELSE 0
        /\ \A j \in 1 .. (i - 1) - 1 + 1 : SubSeq(s, 1, i - 1)[j] = s[1 + j - 1]
    BY <2>1, <2>2, SubSeqProperties
  <2> HIDE DEF a
  <2>4. QED BY <1>1, <2>3 DEF a
<1>3. /\ b \in Seq(S) /\ Len(b) = Len(s) - i
      /\ \A j \in 1 .. Len(s) - i : b[j] = s[i + j]
  <2>1. \A j \in i + 1 .. Len(s) : s[j] \in S
    BY <1>1
  <2>2. i + 1 \in Int /\ Len(s) \in Int
    BY <1>1
  <2>3. /\ SubSeq(s, i + 1, Len(s)) \in Seq(S)
        /\ Len(SubSeq(s, i + 1, Len(s))) = IF i + 1 <= Len(s) THEN Len(s) - (i + 1) + 1 ELSE 0
        /\ \A j \in 1 .. Len(s) - (i + 1) + 1 : SubSeq(s, i + 1, Len(s))[j] = s[(i + 1) + j - 1]
    BY <2>1, <2>2, SubSeqProperties
  <2> HIDE DEF b
  <2>4. QED BY <1>1, <2>3 DEF b
<1>4. RemoveAt(s, i) = a \o b
  BY DEF RemoveAt
<1> HIDE DEF a, b
<1>5. /\ a \o b \in Seq(S) /\ Len(a \o b) = Len(a) + Len(b)
      /\ \A j \in 1 .. Len(a) + Len(b) : (a \o b)[j] = IF j <= Len(a) THEN a[j] ELSE b[j - Len(a)]
  BY <1>2, <1>3, ConcatProperties
<1> DEFINE c == a \o b
<1>6. /\ c \in Seq(S) /\ Len(c) = Len(s) - 1
      /\ \A j \in 1 .. Len(s) - 1 : c[j] = IF j < i THEN s[j] ELSE s[j + 1]
  <2>1. /\ c \in Seq(S) /\ Len(c) = Len(a) + Len(b)
        /\ \A j \in 1 .. Len(a) + Len(b) : c[j] = IF j <= Len(a) THEN a[j] ELSE b[j - Len(a)]
    BY <1>5
  <2> HIDE DEF c
  <2>2. Len(a) + Len(b) = Len(s) - 1
    BY <1>1, <1>2, <1>3
  <2>3. ASSUME NEW j \in 1 .. Len(s) - 1 PROVE c[j] = IF j < i THEN s[j] ELSE s[j + 1]
    <3>1. CASE j < i
      BY <1>1, <1>2, <2>1, <2>2, <3>1
    <3>2. CASE ~ (j < i)
      <4>1. c[j] = b[j - (i - 1)] /\ j - (i - 1) \in 1 .. Len(s) - i
        BY <1>1, <1>2, <2>1, <2>2, <3>2
      <4>2. b[j - (i - 1)] = s[i + (j - (i - 1))] /\ i + (j - (i - 1)) = j + 1
        BY <1>1, <1>3, <4>1
      <4>3. QED BY <3>2, <4>1, <4>2
    <3>3. QED BY <3>1, <3>2
  <2>4. QED BY <2>1, <2>2, <2>3
<1>7. QED BY <1>4, <1>6

\* What find_file answers.
LEMMA FoundSlot ==
  ASSUME NEW dir \in Seq(Entry), NEW tok, find_file(tok, dir) # 0
  PROVE  /\ IsWritten(dir)
         /\ find_file(tok, dir) \in 1 .. Len(dir) + 1 /\ find_file(tok, dir) <= Capacity
         /\ find_file(tok, dir) <= Len(dir) => dir[find_file(tok, dir)].name = tok
         /\ find_file(tok, dir) > Len(dir) => tok = NoName
<1> DEFINE slots == IF IsWritten(dir) THEN 1 .. Smaller(Len(dir) + 1, Capacity) ELSE {}
           hits  == {i \in slots : tok = IF i > Len(dir) THEN NoName ELSE dir[i].name}
<1>1. Len(dir) \in Nat /\ Capacity \in Nat
  BY Numbers, LenProperties
<1>2. hits # {} /\ find_file(tok, dir) = CHOOSE i \in hits : \A j \in hits : i <= j
  BY DEF find_file
<1>3. \E i \in hits : \A j \in hits : i <= j
  <2>1. slots \in SUBSET Nat
    OBVIOUS
  <2> HIDE DEF slots
  <2>2. hits \in SUBSET Nat
    BY <2>1
  <2> HIDE DEF hits
  <2>3. QED BY <1>2, <2>2, LeastNat
<1>4. find_file(tok, dir) \in hits
  <2> HIDE DEF hits
  <2>1. QED BY <1>2, <1>3
<1>5. /\ find_file(tok, dir) \in slots
      /\ tok = IF find_file(tok, dir) > Len(dir) THEN NoName ELSE dir[find_file(tok, dir)].name
  <2> HIDE DEF slots
  <2>1. QED BY <1>4
<1>6. /\ IsWritten(dir) /\ find_file(tok, dir) \in 1 .. Len(dir) + 1
      /\ find_file(tok, dir) <= Capacity
  <2>1. IsWritten(dir) /\ find_file(tok, dir) \in 1 .. Smaller(Len(dir) + 1, Capacity)
    BY <1>5
  <2>2. QED BY <1>1, <2>1 DEF Smaller
<1> DEFINE i == find_file(tok, dir)
<1>7. tok = IF i > Len(dir) THEN NoName ELSE dir[i].name
  BY <1>5
<1>8. i \in Nat /\ Len(dir) \in Nat
  BY <1>1, <1>6
<1> HIDE DEF i
<1>9. (i <= Len(dir) => dir[i].name = tok) /\ (i > Len(dir) => tok = NoName)
  <2>1. i <= Len(dir) => ~ (i > Len(dir))
    BY <1>8
  <2>2. QED BY ONLY <1>7, <2>1, Zenon
<1>10. QED BY <1>6, <1>9 DEF i

-----------------------------------------------------------------------------
(* The invariant of the disk *)

\* The tokens a path may have.
Toks == Names \cup {".", "..", "?"}

\* The arrays there are: none; the entry of a directory made in an unwritten
\* one, which is put where that directory's array should be; an array without
\* its first entries; a whole one.
Ready(dir, l) ==
  /\ Len(dir) >= 2
  /\ dir[1] = bfs_create_dir_entry(".", l, "dir")
  /\ dir[2].name = ".." /\ dir[2].type = "dir" /\ dir[2].loc # 0
Headless(dir)  == Len(dir) >= 2 /\ dir[1] = NoEntry /\ dir[2] = NoEntry
Orphan(dir, l) == Len(dir) = 1 /\ dir[1].loc = l /\ dir[1].type = "dir"

\* Entries lead to locations handed out before n, those of files below the root,
\* and those of directories nowhere only when blocks may be refused.
EntryOK(e, n) ==
  /\ e \in Entry /\ e.loc < n
  /\ e.type = "file" => e.name \in Names /\ e.loc > RootLoc
  /\ e.type = "dir" /\ e.loc = 0 => MayRefuse

\* The array at location l, when n is the next location to be handed out.
ArrayOK(dir, l, n) ==
  /\ dir \in Seq(Entry) /\ Len(dir) <= Capacity + 1
  /\ dir = <<>> \/ Orphan(dir, l) \/ Headless(dir) \/ Ready(dir, l)
  /\ \A i \in 1 .. Len(dir) : EntryOK(dir[i], n)

\* Where an array has one entry, no directory leads: lookups go round it.
Lost(disk) == {l \in Locs : Len(disk[l]) = 1}

\* Every array is one of those, the root's a whole one, no array is beyond n,
\* and only its own entry leads to a lost location.
Sound(disk, n) ==
  /\ disk \in [Locs -> Seq(Entry)]
  /\ \A l \in Locs : ArrayOK(disk[l], l, n)
  /\ Ready(disk[RootLoc], RootLoc)
  /\ \A l \in Locs : l >= n => disk[l] = <<>>
  /\ \A l \in Locs : \A i \in 1 .. Len(disk[l]) :
       disk[l][i].type = "dir" /\ disk[l][i].loc \in Lost(disk) => disk[l][i].loc = l

\* An entry that a command has in its hands.
SafeEntry(e, disk, n) == EntryOK(e, n) /\ (e.type = "dir" => e.loc \notin Lost(disk))

\* What one write makes of an array, and of the disk.
Follows(new, old, l, n, fresh) ==
  /\ ArrayOK(new, l, n) /\ Len(new) # 1
  /\ Ready(old, l) => Ready(new, l)
  /\ IsWritten(new) => IsWritten(old)
  /\ \A i \in 1 .. Len(new) : new[i] \in ToSet(old) \cup {NoEntry, fresh}

\* What a write makes of an array, its soundness and its lost files included.
Evolves(new, old, n, fresh) ==
  /\ Sound(new, n) /\ Lost(new) \subseteq Lost(old)
  /\ \A l \in Locs : IsWritten(new[l]) => IsWritten(old[l])
  /\ \A l \in Locs : \A i \in 1 .. Len(new[l]) : new[l][i] \in ToSet(old[l]) \cup {NoEntry, fresh}

\* The entries that are no file and no directory's.
LEMMA NoEntryOK ==
  ASSUME NEW n \in Nat \ {0}
  PROVE  EntryOK(NoEntry, n) /\ NoEntry.type = "none"
<1>1. NoEntry = [name |-> NoName, loc |-> 0, type |-> "none"]
  BY DEF NoEntry, bfs_create_dir_entry
<1>2. NoEntry \in Entry
  BY <1>1 DEF Entry
<1>3. NoEntry.loc = 0 /\ NoEntry.type = "none"
  BY <1>1
<1>4. QED BY <1>2, <1>3 DEF EntryOK

\* The locations stay in use.
LEMMA EntryLasts ==
  ASSUME NEW n \in Nat, NEW e, EntryOK(e, n)
  PROVE  EntryOK(e, n + 1)
<1>1. e \in Entry /\ e.loc \in Locs \cup {0}
  BY DEF EntryOK, Entry
<1>2. e.loc \in Nat
  BY <1>1, Numbers DEF Locs
<1>3. e.loc < n + 1
  BY <1>2 DEF EntryOK
<1>4. QED BY <1>1, <1>3 DEF EntryOK

\* The disk stays sound when one more location is handed out.
LEMMA Growing ==
  ASSUME NEW n \in Nat, NEW disk, Sound(disk, n)
  PROVE  Sound(disk, n + 1)
<1>1. ASSUME NEW l \in Locs PROVE ArrayOK(disk[l], l, n + 1)
  <2>1. ArrayOK(disk[l], l, n)
    BY <1>1 DEF Sound
  <2>2. QED BY <2>1, EntryLasts DEF ArrayOK
<1>2. ASSUME NEW l \in Locs, l >= n + 1 PROVE disk[l] = <<>>
  BY <1>2 DEF Sound, Locs
<1>3. QED BY <1>1, <1>2 DEF Sound

\* An entry put behind the last one, or behind two empty slots, or nowhere.
LEMMA Inserted ==
  ASSUME NEW n \in Nat \ {0}, NEW l \in Locs, NEW dir, ArrayOK(dir, l, n), Len(dir) # 1,
         NEW e, EntryOK(e, n)
  PROVE  Follows(Insert(dir, e), dir, l, n, e)
<1>1. dir \in Seq(Entry) /\ Len(dir) \in Nat /\ Len(dir) <= Capacity + 1 /\ e \in Entry
  BY LenProperties DEF ArrayOK, EntryOK
<1>2. CASE dir = <<>>
  <2> DEFINE new == <<NoEntry, NoEntry, e>>
  <2>1. Insert(dir, e) = new
    BY <1>2 DEF Insert
  <2>2. NoEntry \in Entry /\ EntryOK(NoEntry, n)
    BY NoEntryOK DEF EntryOK
  <2>3. new \in Seq(Entry) /\ Len(new) = 3 /\ new[1] = NoEntry /\ new[2] = NoEntry /\ new[3] = e
    BY <1>1, <2>2
  <2> HIDE DEF new
  <2>4. \A i \in 1 .. Len(new) : i = 1 \/ i = 2 \/ i = 3
    BY <2>3
  <2>5. \A i \in 1 .. Len(new) : new[i] = NoEntry \/ new[i] = e
    BY <2>3, <2>4
  <2>6. ArrayOK(new, l, n)
    <3>1. \A i \in 1 .. Len(new) : EntryOK(new[i], n)
      BY <2>2, <2>5
    <3>2. Headless(new) /\ Len(new) <= Capacity + 1
      BY <2>3, Numbers DEF Headless
    <3>3. QED BY <2>3, <3>1, <3>2 DEF ArrayOK
  <2>7. ~ Ready(dir, l) /\ ~ IsWritten(new)
    BY <1>2, <2>3 DEF Ready, IsWritten
  <2>8. QED BY <2>1, <2>3, <2>5, <2>6, <2>7 DEF Follows
<1>3. CASE dir # <<>> /\ Len(dir) <= Capacity /\ e.name # NoName
  <2> DEFINE new == Append(dir, e)
  <2>1. Insert(dir, e) = new
    BY <1>3 DEF Insert
  <2>2. /\ new \in Seq(Entry) /\ Len(new) = Len(dir) + 1 /\ new[Len(dir) + 1] = e
        /\ \A i \in 1 .. Len(dir) : new[i] = dir[i]
    BY <1>1, AppendProperties
  <2> HIDE DEF new
  <2>3. Len(dir) >= 2 /\ (Headless(dir) \/ Ready(dir, l))
    <3>1. Headless(dir) \/ Ready(dir, l)
      BY <1>3 DEF ArrayOK, Orphan
    <3>2. QED BY <3>1 DEF Headless, Ready
  <2>4. new[1] = dir[1] /\ new[2] = dir[2] /\ Len(new) >= 2 /\ Len(new) <= Capacity + 1
    <3>1. 1 \in 1 .. Len(dir) /\ 2 \in 1 .. Len(dir)
      BY <1>1, <2>3
    <3>2. \A i \in 1 .. Len(dir) : new[i] = dir[i]
      BY <2>2
    <3>3. new[1] = dir[1] /\ new[2] = dir[2]
      BY <3>1, <3>2
    <3>4. Len(new) >= 2 /\ Len(new) <= Capacity + 1
      BY <1>1, <1>3, <2>2, <2>3, Numbers
    <3>5. QED BY <3>3, <3>4
  <2>5. (Headless(dir) => Headless(new)) /\ (Ready(dir, l) => Ready(new, l))
    BY <2>4 DEF Headless, Ready
  <2>6. \A i \in 1 .. Len(new) : new[i] = e \/ (i \in 1 .. Len(dir) /\ new[i] = dir[i])
    BY <1>1, <2>2
  <2>7. \A i \in 1 .. Len(new) : EntryOK(new[i], n)
    BY <2>6 DEF ArrayOK
  <2>8. \A i \in 1 .. Len(new) : new[i] \in ToSet(dir) \cup {NoEntry, e}
    BY <1>1, <2>6 DEF ToSet
  <2>9. ArrayOK(new, l, n)
    BY <2>2, <2>3, <2>4, <2>5, <2>7 DEF ArrayOK
  <2>10. IsWritten(new) => IsWritten(dir)
    BY <1>3, <2>4 DEF IsWritten
  <2>11. QED BY <2>1, <2>4, <2>5, <2>8, <2>9, <2>10 DEF Follows
<1>4. CASE dir # <<>> /\ ~ (Len(dir) <= Capacity /\ e.name # NoName)
  <2>1. Insert(dir, e) = dir
    BY <1>4 DEF Insert
  <2>2. \A i \in 1 .. Len(dir) : dir[i] \in ToSet(dir) \cup {NoEntry, e}
    BY <1>1 DEF ToSet
  <2>3. QED BY <2>1, <2>2 DEF Follows
<1>5. QED BY <1>2, <1>3, <1>4

\* An entry taken out, from slot 3 on.
LEMMA TakenOut ==
  ASSUME NEW n \in Nat \ {0}, NEW l \in Locs, NEW dir, ArrayOK(dir, l, n),
         NEW i \in 3 .. Len(dir), NEW e
  PROVE  Follows(RemoveAt(dir, i), dir, l, n, e)
<1> DEFINE new == RemoveAt(dir, i)
<1>1. dir \in Seq(Entry) /\ Len(dir) \in Nat /\ Len(dir) <= Capacity + 1 /\ i \in 1 .. Len(dir)
  BY LenProperties DEF ArrayOK
<1>2. /\ new \in Seq(Entry) /\ Len(new) = Len(dir) - 1
      /\ \A j \in 1 .. Len(dir) - 1 : new[j] = IF j < i THEN dir[j] ELSE dir[j + 1]
  BY <1>1, RemovedAt
<1> HIDE DEF new
<1>3. Len(dir) >= 3 /\ (Headless(dir) \/ Ready(dir, l))
  BY <1>1 DEF ArrayOK, Orphan
<1>4. new[1] = dir[1] /\ new[2] = dir[2] /\ Len(new) >= 2 /\ Len(new) <= Capacity + 1
  BY <1>1, <1>2, <1>3, Numbers
<1>5. (Headless(dir) => Headless(new)) /\ (Ready(dir, l) => Ready(new, l))
  BY <1>4 DEF Headless, Ready
<1>6. ASSUME NEW j \in 1 .. Len(new) PROVE \E k \in 1 .. Len(dir) : new[j] = dir[k]
  <2>1. CASE j < i
    BY <1>1, <1>2, <2>1
  <2>2. CASE ~ (j < i)
    BY <1>1, <1>2, <2>2
  <2>3. QED BY <2>1, <2>2
<1>7. \A j \in 1 .. Len(new) : EntryOK(new[j], n)
  BY <1>6 DEF ArrayOK
<1>8. \A j \in 1 .. Len(new) : new[j] \in ToSet(dir) \cup {NoEntry, e}
  BY <1>1, <1>6 DEF ToSet
<1>9. ArrayOK(new, l, n)
  BY <1>2, <1>3, <1>4, <1>5, <1>7 DEF ArrayOK
<1>10. IsWritten(new) => IsWritten(dir)
  BY <1>3, <1>4 DEF IsWritten
<1>11. Follows(new, dir, l, n, e)
  BY <1>4, <1>5, <1>8, <1>9, <1>10 DEF Follows
<1>12. QED BY <1>11 DEF new

\* The disk with one array written anew.
LEMMA Evolving ==
  ASSUME NEW n \in Nat \ {0}, NEW disk, Sound(disk, n), NEW l \in Locs, l < n,
         NEW new, NEW e, Follows(new, disk[l], l, n, e), SafeEntry(e, disk, n)
  PROVE  Evolves([disk EXCEPT ![l] = new], disk, n, e)
<1> DEFINE d == [disk EXCEPT ![l] = new]
<1>1. /\ d \in [Locs -> Seq(Entry)] /\ d[l] = new
      /\ \A m \in Locs : m # l => d[m] = disk[m]
  BY DEF Sound, Follows, ArrayOK
<1> HIDE DEF d
<1>2. Lost(d) \subseteq Lost(disk)
  BY <1>1 DEF Lost, Follows
<1>3. ASSUME NEW m \in Locs PROVE ArrayOK(d[m], m, n)
  BY <1>1, <1>3 DEF Sound, Follows
<1>4. Ready(d[RootLoc], RootLoc)
  <2>1. RootLoc \in Locs
    BY Numbers DEF RootLoc, Locs
  <2>2. Ready(disk[RootLoc], RootLoc)
    BY DEF Sound
  <2>3. CASE RootLoc = l
    BY <1>1, <2>2, <2>3 DEF Follows
  <2>4. CASE RootLoc # l
    BY <1>1, <2>1, <2>2, <2>4
  <2>5. QED BY <2>3, <2>4
<1>5. ASSUME NEW m \in Locs, m >= n PROVE d[m] = <<>>
  <2>1. m # l
    BY <1>5 DEF Locs
  <2>2. QED BY <1>1, <1>5, <2>1 DEF Sound
<1>6. ASSUME NEW m \in Locs, NEW i \in 1 .. Len(d[m])
      PROVE  d[m][i] \in ToSet(disk[m]) \cup {NoEntry, e}
  <2>1. CASE m = l
    BY <1>1, <1>6, <2>1 DEF Follows
  <2>2. CASE m # l
    <3>1. disk[m] \in Seq(Entry) /\ d[m] = disk[m]
      BY <1>1, <2>2 DEF Sound
    <3>2. i \in DOMAIN disk[m]
      BY <3>1, LenProperties
    <3>3. QED BY <3>1, <3>2 DEF ToSet
  <2>3. QED BY <2>1, <2>2
<1>7. ASSUME NEW m \in Locs, NEW i \in 1 .. Len(d[m]),
             d[m][i].type = "dir", d[m][i].loc \in Lost(d)
      PROVE  d[m][i].loc = m
  <2>1. d[m][i].loc \in Lost(disk)
    BY <1>2, <1>7
  <2>2. CASE d[m][i] = NoEntry
    BY <1>7, <2>2, NoEntryOK
  <2>3. CASE d[m][i] = e
    BY <1>7, <2>1, <2>3 DEF SafeEntry
  <2>4. CASE d[m][i] \in ToSet(disk[m])
    <3>1. disk[m] \in Seq(Entry)
      BY DEF Sound
    <3>2. PICK j \in 1 .. Len(disk[m]) : d[m][i] = disk[m][j]
      BY <2>4, <3>1, LenProperties DEF ToSet
    <3>3. QED BY <1>7, <2>1, <3>2 DEF Sound
  <2>5. QED BY <1>6, <2>2, <2>3, <2>4
<1>8. ASSUME NEW m \in Locs, IsWritten(d[m]) PROVE IsWritten(disk[m])
  <2>1. CASE m = l
    BY <1>1, <1>8, <2>1 DEF Follows
  <2>2. CASE m # l
    BY <1>1, <1>8, <2>2
  <2>3. QED BY <2>1, <2>2
<1>9. Sound(d, n)
  BY <1>1, <1>3, <1>4, <1>5, <1>7 DEF Sound
<1>10. Evolves(d, disk, n, e)
  BY <1>2, <1>6, <1>8, <1>9 DEF Evolves
<1>11. QED BY <1>10 DEF d

\* The disk left as it is.
LEMMA Unchanging ==
  ASSUME NEW n, NEW disk, Sound(disk, n), NEW e
  PROVE  Evolves(disk, disk, n, e)
<1>1. ASSUME NEW l \in Locs, NEW i \in 1 .. Len(disk[l])
      PROVE  disk[l][i] \in ToSet(disk[l])
  <2>1. disk[l] \in Seq(Entry)
    BY DEF Sound
  <2>2. i \in DOMAIN disk[l]
    BY <2>1, LenProperties
  <2>3. QED BY <2>2 DEF ToSet
<1>2. QED BY <1>1 DEF Evolves

\* What fs_mkdir writes when the directory it found is unwritten.
LEMMA Orphaned ==
  ASSUME NEW n \in Locs, NEW disk, Sound(disk, n), NEW tok \in Names \cup {NoName, ".", ".."}
  PROVE  LET entry == bfs_create_dir_entry(tok, n, "dir")
             d     == [disk EXCEPT ![n] = <<entry>>]
         IN  Sound(d, n + 1) /\ Lost(d) \subseteq Lost(disk) \cup {n}
<1> DEFINE entry == bfs_create_dir_entry(tok, n, "dir")
           d     == [disk EXCEPT ![n] = <<entry>>]
<1>1. entry \in Entry /\ entry.loc = n /\ entry.type = "dir"
  BY DEF bfs_create_dir_entry, Entry
<1> HIDE DEF entry
<1>2. n \in Nat /\ n # 0
  BY Numbers DEF Locs
<1>3. <<entry>> \in Seq(Entry) /\ Len(<<entry>>) = 1 /\ <<entry>>[1] = entry
  BY <1>1
<1>4. /\ d \in [Locs -> Seq(Entry)] /\ d[n] = <<entry>>
      /\ \A m \in Locs : m # n => d[m] = disk[m]
  BY <1>3 DEF Sound
<1> HIDE DEF d
<1>5. Sound(disk, n + 1)
  BY <1>2, Growing
<1>6. Lost(d) \subseteq Lost(disk) \cup {n}
  BY <1>4 DEF Lost
<1>7. ArrayOK(<<entry>>, n, n + 1)
  <2>1. EntryOK(entry, n + 1)
    BY <1>1, <1>2 DEF EntryOK
  <2>2. \A i \in 1 .. Len(<<entry>>) : EntryOK(<<entry>>[i], n + 1)
    BY <1>3, <2>1
  <2>3. Orphan(<<entry>>, n)
    BY <1>1, <1>3 DEF Orphan
  <2>4. Len(<<entry>>) <= Capacity + 1
    BY <1>3, Numbers
  <2>5. QED BY <1>3, <2>2, <2>3, <2>4 DEF ArrayOK
<1>8. ASSUME NEW m \in Locs PROVE ArrayOK(d[m], m, n + 1)
  <2>1. CASE m = n
    BY <1>4, <1>7, <2>1
  <2>2. CASE m # n
    BY <1>4, <1>5, <2>2 DEF Sound
  <2>3. QED BY <2>1, <2>2
<1>9. Ready(d[RootLoc], RootLoc)
  <2>1. RootLoc \in Locs /\ Ready(disk[RootLoc], RootLoc)
    BY Numbers DEF RootLoc, Locs, Sound
  <2>2. disk[n] = <<>>
    BY <1>2 DEF Sound
  <2>3. n # RootLoc
    BY <2>1, <2>2 DEF Ready
  <2>4. QED BY <1>4, <2>1, <2>3
<1>10. ASSUME NEW m \in Locs, m >= n + 1 PROVE d[m] = <<>>
  <2>1. m # n /\ m >= n
    BY <1>2, <1>10 DEF Locs
  <2>2. QED BY <1>4, <2>1 DEF Sound
<1>11. ASSUME NEW m \in Locs, NEW i \in 1 .. Len(d[m]),
              d[m][i].type = "dir", d[m][i].loc \in Lost(d)
       PROVE  d[m][i].loc = m
  <2>1. CASE m = n
    <3>1. d[m][i] = entry
      BY <1>3, <1>4, <1>11, <2>1
    <3>2. QED BY <1>1, <2>1, <3>1
  <2>2. CASE m # n
    <3>1. d[m] = disk[m]
      BY <1>4, <2>2
    <3>2. EntryOK(d[m][i], n)
      BY <1>11, <3>1 DEF Sound, ArrayOK
    <3>3. d[m][i].loc # n
      BY <1>2, <3>2 DEF EntryOK
    <3>4. d[m][i].loc \in Lost(disk)
      BY <1>6, <1>11, <3>3
    <3>5. QED BY <1>11, <3>1, <3>4 DEF Sound
  <2>3. QED BY <2>1, <2>2
<1>12. Sound(d, n + 1)
  BY <1>4, <1>8, <1>9, <1>10, <1>11 DEF Sound
<1>13. QED BY <1>6, <1>12 DEF d, entry

\* What fs_mkdir writes at the end.
LEMMA Completed ==
  ASSUME NEW n \in Nat \ {0}, NEW disk, Sound(disk, n), NEW l \in Locs, l # RootLoc, l < n,
         NEW up \in Locs, up < n, up \in Lost(disk) => up = l
  PROVE  LET d == [disk EXCEPT ![l] = <<bfs_create_dir_entry(".", l, "dir"),
                                        bfs_create_dir_entry("..", up, "dir")>>]
         IN  Sound(d, n) /\ Lost(d) \subseteq Lost(disk)
<1> DEFINE one == bfs_create_dir_entry(".", l, "dir")
           two == bfs_create_dir_entry("..", up, "dir")
           new == <<one, two>>
           d   == [disk EXCEPT ![l] = new]
<1>1. /\ one \in Entry /\ one.loc = l /\ one.type = "dir"
      /\ two \in Entry /\ two.loc = up /\ two.type = "dir" /\ two.name = ".."
  BY DEF bfs_create_dir_entry, Entry
<1>2. up # 0 /\ n \in Nat
  BY Numbers DEF Locs
<1>3. one = bfs_create_dir_entry(".", l, "dir")
  OBVIOUS
<1> HIDE DEF one, two
<1>4. new \in Seq(Entry) /\ Len(new) = 2 /\ new[1] = one /\ new[2] = two
  BY <1>1
<1>5. \A i \in 1 .. Len(new) : new[i] = one \/ new[i] = two
  BY <1>4
<1> HIDE DEF new
<1>6. /\ d \in [Locs -> Seq(Entry)] /\ d[l] = new
      /\ \A m \in Locs : m # l => d[m] = disk[m]
  BY <1>4 DEF Sound
<1> HIDE DEF d
<1>7. Lost(d) \subseteq Lost(disk)
  <2>1. ASSUME NEW m \in Locs, Len(d[m]) = 1 PROVE Len(disk[m]) = 1
    <3>1. Len(d[l]) # 1
      <4>1. Len(new) # 1
        BY <1>4
      <4>2. d[l] = new
        BY <1>6
      <4>3. QED BY <4>1, <4>2, Zenon
    <3>2. m # l
      BY <2>1, <3>1
    <3>3. QED BY <1>6, <2>1, <3>2
  <2>2. QED BY <2>1 DEF Lost
<1>8. ArrayOK(new, l, n)
  <2>1. EntryOK(one, n) /\ EntryOK(two, n)
    <3>1. l # 0
      BY Numbers DEF Locs
    <3>2. QED BY <1>1, <1>2, <3>1 DEF EntryOK
  <2>2. Ready(new, l)
    BY <1>1, <1>2, <1>3, <1>4 DEF Ready
  <2>3. Len(new) <= Capacity + 1
    BY <1>4, Numbers
  <2>4. QED BY <1>4, <1>5, <2>1, <2>2, <2>3 DEF ArrayOK
<1>9. ASSUME NEW m \in Locs PROVE ArrayOK(d[m], m, n)
  BY <1>6, <1>8 DEF Sound
<1>10. Ready(d[RootLoc], RootLoc)
  <2>1. RootLoc \in Locs /\ Ready(disk[RootLoc], RootLoc)
    BY Numbers DEF RootLoc, Locs, Sound
  <2>2. QED BY <1>6, <2>1
<1>11. ASSUME NEW m \in Locs, m >= n PROVE d[m] = <<>>
  <2>1. m # l
    BY <1>11 DEF Locs
  <2>2. QED BY <1>6, <1>11, <2>1 DEF Sound
<1>12. ASSUME NEW m \in Locs, NEW i \in 1 .. Len(d[m]),
              d[m][i].type = "dir", d[m][i].loc \in Lost(d)
       PROVE  d[m][i].loc = m
  <2>1. d[m][i].loc \in Lost(disk)
    BY <1>7, <1>12
  <2>2. CASE m = l
    <3>1. d[m][i] = one \/ d[m][i] = two
      BY <1>5, <1>6, <1>12, <2>2
    <3>2. QED BY <1>1, <2>1, <2>2, <3>1
  <2>3. CASE m # l
    BY <1>6, <1>12, <2>1, <2>3 DEF Sound
  <2>4. QED BY <2>2, <2>3
<1>13. Sound(d, n)
  BY <1>6, <1>9, <1>10, <1>11, <1>12 DEF Sound
<1>14. QED BY <1>7, <1>13 DEF d, new, one, two

-----------------------------------------------------------------------------
(* What lookups find *)

\* The empty name is none of the tokens.
LEMMA TokensAreNames ==
  /\ NoName \notin Toks /\ Names \cap {NoName, ".", ".."} = {}
  /\ Toks \cup {".", ".."} = Toks
<1>1. NoName # "." /\ NoName # ".." /\ NoName # "?"
  BY Zenon DEF NoName
<1>2. Names \cap {NoName, ".", ".."} = {}
  BY NamespaceAssumption
<1>3. QED BY <1>1, <1>2 DEF Toks

\* The way that a text leads, all of it in S.
Way(disk, text, S, g) ==
  /\ g \in [0 .. Len(text.toks) -> S] /\ g[0] = RootLoc
  /\ \A k \in 1 .. Len(text.toks) : g[k] = Enter(disk, g[k - 1], text.toks[k])
  /\ Follow(disk, text) = g[Len(text.toks)]

\* A text is followed token by token, and what holds of the root and goes from
\* a directory to those in it holds of every directory on the way.
LEMMA Steps ==
  ASSUME NEW disk, NEW T, NEW text \in Text(T), NEW S, RootLoc \in S,
         \A l \in S, tok \in T : Enter(disk, l, tok) \in S
  PROVE  \E g : Way(disk, text, S, g)
<1> DEFINE n == Len(text.toks)
           Is(f) == f = [k \in 0 .. n |->
                           IF k = 0 THEN RootLoc ELSE Enter(disk, f[k - 1], text.toks[k])]
           step == [l \in S |-> [k \in 1 .. n |-> Enter(disk, l, text.toks[k])]]
<1>1. text.toks \in Seq(T) /\ n \in Nat
  BY DEF Text
<1>2. step \in [S -> [1 .. n -> S]]
  <2>1. ASSUME NEW l \in S, NEW k \in 1 .. n PROVE Enter(disk, l, text.toks[k]) \in S
    <3>1. text.toks[k] \in T
      BY <1>1
    <3>2. QED BY <3>1
  <2>2. QED BY <2>1
<1>3. Computes(n, S, RootLoc, step)
  <2> HIDE DEF step, n
  <2>1. QED BY ONLY <1>1, <1>2, RootLoc \in S, Iteration
<1>4. PICK g : /\ g \in [0 .. n -> S] /\ g[0] = RootLoc
               /\ \A k \in 1 .. n : g[k] = step[g[k - 1]][k]
               /\ \A f : f[0] = RootLoc /\ (\A k \in 1 .. n :
                                         f[k - 1] \in S => f[k] = step[f[k - 1]][k])
                         => Agree(f, g, n)
  <2> HIDE DEF step, n
  <2>1. QED BY <1>3 DEF Computes
<1>5. \A k \in 1 .. n : g[k] = Enter(disk, g[k - 1], text.toks[k])
  <2>1. ASSUME NEW k \in 1 .. n PROVE g[k] = Enter(disk, g[k - 1], text.toks[k])
    <3>1. g[k - 1] \in S /\ g[k] = step[g[k - 1]][k]
      <4>1. k - 1 \in 0 .. n
        BY <1>1, <2>1
      <4> HIDE DEF step, n
      <4>2. QED BY <1>4, <4>1
    <3>2. QED BY <3>1
  <2>2. QED BY <2>1
<1>6. Is(g)
  BY <1>1, <1>4, <1>5
<1>7. PICK f : f = (CHOOSE h : Is(h))
  OBVIOUS
<1>8. Is(f)
  <2> HIDE DEF Is
  <2>1. QED BY <1>6, <1>7
<1>9. Follow(disk, text) = f[n]
  BY <1>7 DEF Follow
<1>10. f[0] = RootLoc /\ \A k \in 1 .. n : f[k - 1] \in S => f[k] = step[f[k - 1]][k]
  <2>1. f[0] = RootLoc
    BY <1>1, <1>8
  <2>2. ASSUME NEW k \in 1 .. n, f[k - 1] \in S PROVE f[k] = step[f[k - 1]][k]
    <3>1. f[k] = Enter(disk, f[k - 1], text.toks[k])
      <4>1. k \in 0 .. n /\ k # 0
        BY <1>1, <2>2
      <4>2. f = [i \in 0 .. n |-> IF i = 0 THEN RootLoc ELSE Enter(disk, f[i - 1], text.toks[i])]
        BY <1>8
      <4> HIDE DEF n, step, Is
      <4>3. QED BY ONLY <4>1, <4>2
    <3>2. QED BY <2>2, <3>1
  <2>3. QED BY <2>1, <2>2
<1>11. Agree(f, g, n)
  <2> HIDE DEF step, n, Is
  <2>1. QED BY <1>4, <1>10
<1>12. f[n] = g[n] /\ n \in 0 .. n
  <2>1. n \in 0 .. n
    BY <1>1
  <2> HIDE DEF n
  <2>2. QED BY <1>11, <2>1 DEF Agree
<1>13. QED
  <2> HIDE DEF step
  <2>1. Way(disk, text, S, g)
    BY <1>4, <1>5, <1>9, <1>12 DEF Way
  <2>2. QED BY <2>1

\* So it holds of the directory a text leads to.
LEMMA Following ==
  ASSUME NEW disk, NEW T, NEW text \in Text(T), NEW S, RootLoc \in S,
         \A l \in S, tok \in T : Enter(disk, l, tok) \in S
  PROVE  Follow(disk, text) \in S
<1>1. Len(text.toks) \in Nat
  BY DEF Text
<1>2. PICK g : Way(disk, text, S, g)
  BY Steps
<1>3. QED BY <1>1, <1>2 DEF Way

\* A text leads through the directory before its last slash.
LEMMA LastStep ==
  ASSUME NEW disk, NEW T, NEW text \in Text(T), text.toks # <<>>, NEW S, RootLoc \in S,
         \A l \in S, tok \in T : Enter(disk, l, tok) \in S
  PROVE  Follow(disk, text) = Enter(disk, Follow(disk, ParentText(text)), FileName(text))
<1> DEFINE n  == Len(text.toks)
           up == ParentText(text)
<1>1. /\ up \in Text(T) /\ n \in Nat \ {0} /\ up.toks = SubSeq(text.toks, 1, n - 1)
      /\ text.toks \in Seq(T)
  BY ParentIsText DEF Text
<1>2. Len(up.toks) = n - 1 /\ \A k \in 1 .. n - 1 : up.toks[k] = text.toks[k]
  <2>1. \A k \in 1 .. n - 1 : text.toks[k] \in T
    BY <1>1, ElementOfSeq
  <2>2. 1 \in Int /\ n - 1 \in Int
    BY <1>1
  <2> DEFINE s == SubSeq(text.toks, 1, n - 1)
  <2>3. /\ Len(s) = IF 1 <= n - 1 THEN (n - 1) - 1 + 1 ELSE 0
        /\ \A k \in 1 .. (n - 1) - 1 + 1 : s[k] = text.toks[1 + k - 1]
    BY <2>1, <2>2, SubSeqProperties
  <2>4. up.toks = s
    BY <1>1
  <2> HIDE DEF s, n, up
  <2>5. /\ (n - 1) - 1 + 1 = n - 1
        /\ (IF 1 <= n - 1 THEN (n - 1) - 1 + 1 ELSE 0) = n - 1
        /\ \A k \in 1 .. n - 1 : 1 + k - 1 = k
    BY <1>1
  <2>6. QED BY <2>3, <2>4, <2>5
<1>3. FileName(text) = text.toks[n]
  BY <1>1 DEF FileName, Last
<1>4. PICK f : /\ f \in [0 .. n -> S] /\ f[0] = RootLoc
               /\ \A k \in 1 .. n : f[k] = Enter(disk, f[k - 1], text.toks[k])
               /\ Follow(disk, text) = f[n]
  <2>1. PICK f : Way(disk, text, S, f)
    BY Steps
  <2>2. QED BY <2>1 DEF Way
<1>5. PICK g : /\ g \in [0 .. Len(up.toks) -> S] /\ g[0] = RootLoc
               /\ \A k \in 1 .. Len(up.toks) : g[k] = Enter(disk, g[k - 1], up.toks[k])
               /\ Follow(disk, up) = g[Len(up.toks)]
  <2>1. up \in Text(T)
    BY <1>1
  <2> HIDE DEF up
  <2>2. PICK g : Way(disk, up, S, g)
    BY <2>1, Steps
  <2>3. QED BY <2>2 DEF Way
<1> HIDE DEF n, up
<1>6. Agree(f, g, n - 1)
  <2>1. ASSUME NEW k \in 1 .. n - 1, f[k - 1] = g[k - 1] PROVE f[k] = g[k]
    <3>1. k \in 1 .. n
      BY <1>1
    <3>2. QED BY <1>2, <1>4, <1>5, <2>1, <3>1
  <2>2. n - 1 \in Nat
    BY <1>1
  <2>3. f[0] = g[0]
    BY <1>4, <1>5
  <2> DEFINE m == n - 1
  <2>4. m \in Nat /\ \A k \in 1 .. m : f[k - 1] = g[k - 1] => f[k] = g[k]
    BY <2>1, <2>2
  <2> HIDE DEF m
  <2>5. Agree(f, g, m)
    BY <2>3, <2>4, SameIteration
  <2>6. QED BY <2>5 DEF m
<1>7. f[n - 1] = g[n - 1]
  <2>1. n - 1 \in 0 .. n - 1
    BY <1>1
  <2>2. QED BY <1>6, <2>1 DEF Agree
<1>8. n \in 1 .. n
  BY <1>1
<1>9. QED BY <1>2, <1>3, <1>4, <1>5, <1>7, <1>8 DEF n, up

\* The slash leads to the root.
LEMMA FollowSlash ==
  ASSUME NEW disk
  PROVE  Follow(disk, Slash) = RootLoc
<1> DEFINE S == {RootLoc}
<1>1. Slash \in Text({})
  BY EmptySeq DEF Slash, Abs, Text
<1>2. RootLoc \in S /\ \A l \in S, tok \in {} : Enter(disk, l, tok) \in S
  OBVIOUS
<1>3. Follow(disk, Slash) \in S
  <2> HIDE DEF S
  <2>1. QED BY <1>1, <1>2, Following
<1>4. QED BY <1>3

\* The entries of an array that is no orphan's.
LEMMA SafeSlot ==
  ASSUME NEW n, NEW disk, Sound(disk, n), NEW l \in Locs, l \notin Lost(disk),
         NEW i \in 1 .. Len(disk[l])
  PROVE  SafeEntry(disk[l][i], disk, n)
BY DEF SafeEntry, Sound, ArrayOK

\* A directory that can be looked in is whole.
LEMMA WrittenIsReady ==
  ASSUME NEW n, NEW disk, Sound(disk, n), NEW l \in Locs, l \notin Lost(disk),
         IsWritten(disk[l])
  PROVE  Ready(disk[l], l)
<1>1. Len(disk[l]) # 1
  BY DEF Lost
<1>2. ArrayOK(disk[l], l, n)
  BY DEF Sound
<1>3. QED BY <1>1, <1>2 DEF ArrayOK, Orphan, Headless, IsWritten

\* The locations lookups go through.
Safe(disk, n) == {l \in Locs \cup {0} : l < n /\ l \notin Lost(disk)}

\* A lookup begins at such a location, and no step of it leaves them.
LEMMA SafeSteps ==
  ASSUME NEW n \in Nat \ {0, 1}, NEW disk, Sound(disk, n)
  PROVE  /\ RootLoc \in Safe(disk, n)
         /\ \A l \in Safe(disk, n), tok \in Toks : Enter(disk, l, tok) \in Safe(disk, n)
<1> DEFINE S == {l \in Locs \cup {0} : l < n /\ l \notin Lost(disk)}
<1>1. RootLoc \in S
  <2>1. RootLoc \in Locs /\ RootLoc < n
    BY Numbers DEF RootLoc, Locs
  <2>2. Len(disk[RootLoc]) # 1
    <3>1. disk[RootLoc] \in Seq(Entry) /\ Len(disk[RootLoc]) >= 2
      BY <2>1 DEF Sound, Ready
    <3>2. ~ (1 >= 2)
      OBVIOUS
    <3>3. QED BY <3>1, <3>2, Zenon
  <2>3. QED BY <2>1, <2>2 DEF Lost
<1>2. 0 \in S
  BY Numbers DEF Lost, Locs
<1>3. ASSUME NEW l \in S, NEW tok \in Toks PROVE Enter(disk, l, tok) \in S
  <2> DEFINE dir == IF l = 0 THEN <<>> ELSE disk[l]
             i   == find_file(tok, dir)
  <2>1. CASE i = 0 \/ dir[i].type # "dir"
    BY <1>2, <2>1 DEF Enter
  <2>2. CASE i # 0 /\ dir[i].type = "dir"
    <3>1. dir \in Seq(Entry)
      BY EmptySeq DEF Sound
    <3>2. IsWritten(dir) /\ i \in 1 .. Len(dir) + 1 /\ (i > Len(dir) => tok = NoName)
      <4> HIDE DEF dir
      <4>1. QED BY <2>2, <3>1, FoundSlot
    <3>3. l # 0 /\ l \in Locs
      BY <3>2 DEF IsWritten
    <3>4. tok # NoName
      BY <1>3, TokensAreNames
    <3>5. i \in 1 .. Len(disk[l])
      <4>1. Len(dir) \in Nat
        BY <3>1, LenProperties
      <4>2. i \in 1 .. Len(dir)
        <5> HIDE DEF dir, i
        <5>1. QED BY <3>2, <3>4, <4>1
      <4>3. QED BY <3>3, <4>2
    <3>6. SafeEntry(disk[l][i], disk, n)
      <4> HIDE DEF i
      <4>1. QED BY <1>3, <3>3, <3>5, SafeSlot
    <3>7. Enter(disk, l, tok) = disk[l][i].loc /\ disk[l][i].type = "dir"
      BY <2>2, <3>3 DEF Enter
    <3> HIDE DEF i
    <3>8. QED BY <3>6, <3>7 DEF SafeEntry, EntryOK, Entry
  <2>3. QED BY <2>1, <2>2
<1>4. Safe(disk, n) = S
  BY DEF Safe
<1>5. QED
  <2> HIDE DEF S
  <2>1. QED BY <1>1, <1>3, <1>4

\* So does whatever they come to.
LEMMA FollowedSafe ==
  ASSUME NEW n \in Nat \ {0, 1}, NEW disk, Sound(disk, n), NEW text \in Text(Toks)
  PROVE  /\ Follow(disk, text) \in Locs \cup {0} /\ Follow(disk, text) < n
         /\ Follow(disk, text) \notin Lost(disk)
<1>1. Follow(disk, text) \in Safe(disk, n)
  BY SafeSteps, Following
<1>2. QED BY <1>1 DEF Safe

\* What holds of every state, of what a command has in its hands included.
Call == [loc : Locs \cup {0}, todo : Seq(Entry)]

\* A call of bfs_remove_dir is for a directory below the root, and what it has
\* still to visit are entries lookups may find.
SafeCall(c, disk, n) ==
  /\ c.loc < n /\ c.loc # RootLoc /\ c.loc \notin Lost(disk)
  /\ \A i \in 1 .. Len(c.todo) : SafeEntry(c.todo[i], disk, n)

\* The variables other than the disk and the stack.
Variables ==
  /\ cwd \in Text(Toks) /\ next \in 2 .. MaxLoc + 1
  /\ making \in [loc : Locs \cup {0}, parent : Locs \cup {0}]
  /\ cleared \subseteq Locs \ {RootLoc} /\ crashes \in 0 .. MaxCrashes

\* Between its writes fs_mkdir alone is under way, for a directory whose array
\* is not there yet.
Making ==
  making # None =>
    /\ removing = <<>>
    /\ making.loc \in Locs \ {RootLoc} /\ making.loc < next /\ Len(dirs[making.loc]) <= 1
    /\ making.parent \in Locs /\ making.parent < next
    /\ making.parent \in Lost(dirs) => making.parent = making.loc

\* The calls on the stack.
Stack ==
  /\ removing \in Seq(Call) /\ Len(removing) <= MaxDepth
  /\ \A k \in 1 .. Len(removing) : SafeCall(removing[k], dirs, next)

\* The inductive invariant.
IInv == Sound(dirs, next) /\ Variables /\ Making /\ Stack

\* Lookups, whatever is looked for.
LEMMA Finding ==
  ASSUME Sound(dirs, next), Variables, NEW text \in Text(Toks)
  PROVE  SafeEntry(Find(text), dirs, next)
<1> DEFINE loc == Follow(dirs, ParentText(text))
           tok == IF FileName(text) = NoName THEN "." ELSE FileName(text)
           i   == find_file(tok, Array(loc))
<1>1. next \in Nat \ {0, 1}
  BY Numbers DEF Variables
<1>2. ParentText(text) \in Text(Toks)
  BY ParentIsText
<1>3. loc \in Locs \cup {0} /\ loc < next /\ loc \notin Lost(dirs)
  BY <1>1, <1>2, FollowedSafe
<1>4. tok # NoName
  BY TokensAreNames DEF Toks
<1>5. Array(loc) \in Seq(Entry)
  BY <1>3, EmptySeq DEF Array, Sound
<1> HIDE DEF loc, tok
<1>6. CASE i = 0
  <2>1. Find(text) = NoEntry
    BY <1>6 DEF Find, loc, tok
  <2>2. QED BY <1>1, <2>1, NoEntryOK DEF SafeEntry
<1>7. CASE i # 0
  <2>1. IsWritten(Array(loc)) /\ i \in 1 .. Len(Array(loc)) + 1 /\ (i > Len(Array(loc)) => tok = NoName)
    BY <1>5, <1>7, FoundSlot
  <2>2. loc # 0 /\ loc \in Locs /\ Array(loc) = dirs[loc]
    BY <1>3, <2>1 DEF IsWritten, Array
  <2>3. i \in 1 .. Len(dirs[loc])
    <3>1. Len(Array(loc)) \in Nat
      BY <1>5, LenProperties
    <3>2. i \in 1 .. Len(Array(loc))
      <4> HIDE DEF i
      <4>1. QED BY <1>4, <2>1, <3>1
    <3>3. QED BY <2>2, <3>2
  <2>4. Find(text) = dirs[loc][i]
    BY <1>7 DEF Find, loc, tok
  <2> HIDE DEF i
  <2>5. QED BY <1>3, <2>2, <2>3, <2>4, SafeSlot
<1>8. QED BY <1>6, <1>7

\* The expanded texts of arguments and of their directories, and what they find.
LEMMA Lookups ==
  ASSUME Sound(dirs, next), Variables, NEW input \in Text(Toks)
  PROVE  /\ Expand(input) \in Text(Toks) /\ ParentOf(input) \in Text(Toks)
         /\ SafeEntry(get_file_from_path(input), dirs, next)
         /\ SafeEntry(get_file_from_path(ParentOf(input)), dirs, next)
<1>1. \A t \in Text(Toks) : Expand(t) \in Text(Toks)
  <2>1. ASSUME NEW t \in Text(Toks) PROVE expand_pathname(cwd, t) \in Text(Toks)
    <3>1. t \in Text(Toks \cup {".", ".."}) /\ cwd \in Text(Toks)
      BY TokensAreNames DEF Variables
    <3>2. QED BY <3>1, ExpandedText
  <2>2. QED BY <2>1 DEF Expand
<1>2. ParentOf(input) \in Text(Toks)
  BY <1>1, ParentIsText DEF ParentOf
<1>3. QED BY <1>1, <1>2, Finding DEF get_file_from_path

\* What an argument in plain names is made into.
LEMMA Arguments ==
  ASSUME Variables, NEW input \in Text(Names)
  PROVE  /\ input \in Text(Toks)
         /\ input.toks # <<>> => NameOf(input) \in Names
         /\ input.toks = <<>> /\ input.rooted => Expand(input) = Slash
<1>1. input \in Text(Toks) /\ input.toks \in Seq(Names)
  <2>1. input.toks \in Seq(Names) /\ input.rooted \in BOOLEAN
    BY DEF Text
  <2>2. Names \subseteq Toks
    BY DEF Toks
  <2>3. input.toks \in Seq(Toks)
    BY <2>1, <2>2, SeqMonotonic
  <2>4. QED BY <2>1, <2>3 DEF Text
<1>2. ASSUME NEW k \in 1 .. Len(input.toks) PROVE input.toks[k] \in Names /\ input.toks[k] \notin {".", ".."}
  <2>1. input.toks[k] \in Names
    BY <1>1
  <2>2. QED BY <2>1, TokensAreNames
<1>3. cwd \in Text(Toks)
  BY DEF Variables
<1>4. ASSUME input.toks # <<>> PROVE NameOf(input) \in Names
  <2>1. FileName(expand_pathname(cwd, input)) = input.toks[Len(input.toks)]
    BY <1>1, <1>2, <1>3, <1>4, PlainName
  <2>2. Len(input.toks) \in 1 .. Len(input.toks)
    BY <1>1, <1>4, EmptySeq
  <2>3. QED BY <1>2, <2>1, <2>2 DEF NameOf, Expand
<1>5. ASSUME input.toks = <<>>, input.rooted PROVE Expand(input) = Slash
  <2>1. expand_pathname(cwd, input) = input
    BY <1>1, <1>2, <1>3, <1>5, Expanded
  <2>2. QED BY <1>5, <2>1 DEF Expand, Slash, Abs, Text
<1>6. QED BY <1>1, <1>4, <1>5

\* The slash finds the root.
LEMMA RootIsFound ==
  ASSUME Sound(dirs, next)
  PROVE  Find(Slash).type = "dir" /\ Find(Slash).loc = RootLoc
<1>1. Slash \in Text({}) /\ ParentText(Slash) = Slash /\ FileName(Slash) = NoName
  BY EmptySeq DEF Slash, Abs, Text, ParentText, FileName
<1>2. Follow(dirs, Slash) = RootLoc
  BY FollowSlash
<1>3. Array(RootLoc) = dirs[RootLoc] /\ RootLoc # 0 /\ RootLoc \in Locs
  BY Numbers DEF Array, RootLoc, Locs
<1>4. /\ dirs[RootLoc] \in Seq(Entry) /\ Len(dirs[RootLoc]) \in Nat /\ Len(dirs[RootLoc]) >= 2
      /\ dirs[RootLoc][1] = [name |-> ".", loc |-> RootLoc, type |-> "dir"]
  BY <1>3, LenProperties DEF Sound, Ready, bfs_create_dir_entry
<1> DEFINE dir   == dirs[RootLoc]
           slots == IF IsWritten(dir) THEN 1 .. Smaller(Len(dir) + 1, Capacity) ELSE {}
           hits  == {i \in slots : "." = IF i > Len(dir) THEN NoName ELSE dir[i].name}
           i     == CHOOSE i \in hits : \A j \in hits : i <= j
<1>5. find_file(".", dir) = IF hits = {} THEN 0 ELSE i
  BY DEF find_file
<1>6. IsWritten(dir)
  <2>1. NoEntry.type = "none" /\ dir # <<>>
    BY <1>4, NoEntryOK
  <2>2. QED BY <1>4, <2>1 DEF IsWritten
<1>7. 1 \in slots /\ slots \subseteq Nat
  BY <1>4, <1>6, Numbers DEF Smaller
<1>8. 1 \in hits /\ \A j \in hits : 1 <= j
  BY <1>4, <1>6, Numbers DEF Smaller
<1>9. i \in hits /\ \A j \in hits : i <= j
  <2> HIDE DEF hits
  <2>1. QED BY <1>8
<1>10. i = 1
  <2>1. i \in Nat /\ i <= 1 /\ 1 <= i
    <3> HIDE DEF slots
    <3>1. i \in slots
      BY <1>9
    <3> HIDE DEF hits, i
    <3>2. QED BY <1>7, <1>8, <1>9, <3>1
  <2> HIDE DEF i
  <2>2. QED BY <2>1
<1>11. find_file(".", dirs[RootLoc]) = 1
  <2> HIDE DEF hits, i
  <2>1. QED BY <1>5, <1>8, <1>10
<1>12. Find(Slash) = dirs[RootLoc][1]
  BY <1>1, <1>2, <1>3, <1>11 DEF Find
<1>13. QED BY <1>4, <1>12

-----------------------------------------------------------------------------
(* What commands write *)

\* What a step may do to the arrays: none that lookups knew to be unwritten is
\* written by a command that begins, and no file that existed is listed anew.
StepOK ==
  \A l \in Locs :
    /\ Idle /\ l < next /\ IsWritten(dirs'[l]) => IsWritten(dirs[l])
    /\ \A i \in 1 .. Len(dirs'[l]) :
         dirs'[l][i] \in ToSet(dirs[l]) \/ dirs'[l][i].type # "file" \/ dirs'[l][i].loc >= next

\* Writes to arrays there were are such steps.
LEMMA EvolvesIsOK ==
  ASSUME NEW n, NEW e, Evolves(dirs', dirs, n, e), e.type = "file" => e.loc >= next
  PROVE  StepOK
<1>1. NoEntry.type # "file"
  BY NoEntryOK
<1>2. QED BY <1>1 DEF Evolves, StepOK

\* The next location is a number.
LEMMA NextIsNat ==
  ASSUME Variables
  PROVE  next \in Nat \ {0, 1}
BY Numbers DEF Variables

\* No command is under way afterwards.
LEMMA Quiet ==
  ASSUME making' = None, removing' = <<>>, Sound(dirs, next)', Variables'
  PROVE  IInv'
<1>1. removing' \in Seq(Call) /\ Len(removing') = 0
  BY EmptySeq
<1>2. Len(removing') <= MaxDepth
  BY <1>1, Numbers
<1>3. Stack'
  BY <1>1, <1>2 DEF Stack
<1>4. QED BY <1>3 DEF IInv, Making

\* What was safe stays so.
LEMMA StaysSafe ==
  ASSUME NEW n, NEW c, NEW disk, NEW d, SafeCall(c, disk, n), Lost(d) \subseteq Lost(disk)
  PROVE  SafeCall(c, d, n)
BY DEF SafeCall, SafeEntry

\* An entry put into a directory that was found.
LEMMA Entering ==
  ASSUME NEW n \in Nat \ {0}, Sound(dirs, n), NEW loc \in Locs \cup {0}, loc < n,
         loc \notin Lost(dirs), NEW e, SafeEntry(e, dirs, n)
  PROVE  Evolves(LBAwrite(dirs, loc, Insert(Array(loc), e)), dirs, n, e)
<1>1. CASE loc = 0
  <2>1. LBAwrite(dirs, loc, Insert(Array(loc), e)) = dirs
    BY <1>1 DEF LBAwrite
  <2>2. QED BY <2>1, Unchanging
<1>2. CASE loc # 0
  <2> DEFINE new == Insert(dirs[loc], e)
  <2>1. LBAwrite(dirs, loc, Insert(Array(loc), e)) = [dirs EXCEPT ![loc] = new] /\ loc \in Locs
    BY <1>2 DEF LBAwrite, Array
  <2>2. ArrayOK(dirs[loc], loc, n) /\ Len(dirs[loc]) # 1 /\ EntryOK(e, n)
    BY <2>1 DEF Sound, Lost, SafeEntry
  <2>3. Follows(new, dirs[loc], loc, n, e)
    BY <2>1, <2>2, Inserted
  <2>4. loc \in Locs
    BY <2>1
  <2>5. Evolves([dirs EXCEPT ![loc] = new], dirs, n, e)
    <3> HIDE DEF new
    <3>1. QED BY <2>3, <2>4, Evolving
  <2>6. QED BY <2>1, <2>5
<1>3. QED BY <1>1, <1>2

\* An array put back as it was.
LEMMA Restored ==
  ASSUME NEW n \in Nat \ {0}, NEW disk, Sound(disk, n), NEW d, Evolves(d, disk, n, NoEntry),
         NEW l \in Locs
  PROVE  Evolves([d EXCEPT ![l] = disk[l]], disk, n, NoEntry)
<1> DEFINE b == [d EXCEPT ![l] = disk[l]]
<1>1. Sound(d, n) /\ Lost(d) \subseteq Lost(disk)
  BY DEF Evolves
<1>2. disk[l] \in Seq(Entry) /\ d \in [Locs -> Seq(Entry)] /\ disk \in [Locs -> Seq(Entry)]
  BY <1>1 DEF Sound
<1>3. b \in [Locs -> Seq(Entry)] /\ \A m \in Locs : b[m] = disk[m] \/ b[m] = d[m]
  BY <1>2
<1> HIDE DEF b
<1>4. Lost(b) \subseteq Lost(disk)
  BY <1>1, <1>3 DEF Lost
<1>5. ASSUME NEW m \in Locs PROVE ArrayOK(b[m], m, n)
  BY <1>1, <1>3, <1>5 DEF Sound
<1>6. Ready(b[RootLoc], RootLoc)
  <2>1. RootLoc \in Locs
    BY Numbers DEF RootLoc, Locs
  <2>2. QED BY <1>1, <1>3, <2>1 DEF Sound
<1>7. ASSUME NEW m \in Locs, m >= n PROVE b[m] = <<>>
  BY <1>1, <1>3, <1>7 DEF Sound
<1>8. ASSUME NEW m \in Locs, NEW i \in 1 .. Len(b[m])
      PROVE  b[m][i] \in ToSet(disk[m]) \cup {NoEntry}
  <2>1. CASE b[m] = disk[m]
    <3>1. disk[m] \in Seq(Entry)
      BY <1>2
    <3>2. i \in DOMAIN disk[m]
      BY <1>8, <2>1, <3>1, LenProperties
    <3>3. QED BY <2>1, <3>2 DEF ToSet
  <2>2. CASE b[m] = d[m]
    BY <1>8, <2>2 DEF Evolves
  <2>3. QED BY <1>3, <2>1, <2>2
<1>9. ASSUME NEW m \in Locs, NEW i \in 1 .. Len(b[m]),
             b[m][i].type = "dir", b[m][i].loc \in Lost(b)
      PROVE  b[m][i].loc = m
  <2>1. b[m][i] # NoEntry
    BY <1>9, NoEntryOK
  <2>2. b[m][i] \in ToSet(disk[m]) /\ disk[m] \in Seq(Entry)
    BY <1>2, <1>8, <1>9, <2>1
  <2>3. PICK j \in 1 .. Len(disk[m]) : b[m][i] = disk[m][j]
    BY <2>2, LenProperties DEF ToSet
  <2>4. QED BY <1>4, <1>9, <2>3 DEF Sound
<1>10. ASSUME NEW m \in Locs, IsWritten(b[m]) PROVE IsWritten(disk[m])
  BY <1>3, <1>10 DEF Evolves
<1>11. Sound(b, n)
  BY <1>3, <1>5, <1>6, <1>7, <1>9 DEF Sound
<1>12. Evolves(b, disk, n, NoEntry)
  BY <1>4, <1>8, <1>10, <1>11 DEF Evolves
<1>13. QED BY <1>12 DEF b

\* fs_delete takes one entry out of the directory of its argument, behind the
\* first two, and frees a file's blocks.
LEMMA Deleting ==
  ASSUME Sound(dirs, next), Variables, NEW input \in Text(Names), input.toks # <<>>,
         ParentIsDir(input)
  PROVE  /\ Evolves(fs_delete(input).dirs, dirs, next, NoEntry)
         /\ fs_delete(input).cleared \subseteq Locs \ {RootLoc}
<1> DEFINE given == Rel(<<NameOf(input)>>)
           file == get_file_from_path(given)
           loc  == get_file_from_path(ParentOf(input)).loc
           i    == find_file(file.name, Array(loc))
<1>1. next \in Nat \ {0, 1} /\ cleared \subseteq Locs \ {RootLoc}
  BY NextIsNat DEF Variables
<1>2. given \in Text(Toks)
  <2>1. NameOf(input) \in Toks
    BY Arguments DEF Toks
  <2>2. QED BY <2>1 DEF Rel, Text
<1>3. SafeEntry(file, dirs, next)
  BY <1>2, Lookups
<1>4. loc \in Locs \cup {0} /\ loc < next /\ loc \notin Lost(dirs)
  <2>1. SafeEntry(get_file_from_path(ParentOf(input)), dirs, next)
    BY Arguments, Lookups
  <2>2. get_file_from_path(ParentOf(input)).type = "dir"
    BY DEF ParentIsDir, fs_isDir
  <2>3. QED BY <2>1, <2>2 DEF SafeEntry, EntryOK, Entry
<1> HIDE DEF file, loc
<1>5. CASE file.type # "file" \/ i = 0
  <2>1. fs_delete(input) = [dirs |-> dirs, cleared |-> cleared]
    BY <1>5 DEF fs_delete, file, loc
  <2>2. QED BY <1>1, <2>1, Unchanging
<1>6. CASE file.type = "file" /\ i # 0
  <2>1. /\ fs_delete(input).dirs = [dirs EXCEPT ![loc] = RemoveAt(@, i)]
        /\ fs_delete(input).cleared = cleared \cup {file.loc}
    BY <1>6 DEF fs_delete, file, loc
  <2>2. file.name \in Names /\ file.loc \in Locs \ {RootLoc}
    <3>1. file \in Entry /\ file.name \in Names /\ file.loc > RootLoc
      BY <1>3, <1>6 DEF SafeEntry, EntryOK
    <3>2. file.loc \in Locs \cup {0}
      BY <3>1 DEF Entry
    <3>3. QED BY <3>1, <3>2 DEF RootLoc
  <2>3. Array(loc) \in Seq(Entry) /\ Len(Array(loc)) \in Nat
    <3>1. Array(loc) \in Seq(Entry)
      BY <1>4, EmptySeq DEF Array, Sound
    <3>2. QED BY <3>1, LenProperties
  <2>4. /\ IsWritten(Array(loc)) /\ i \in 1 .. Len(Array(loc)) + 1
        /\ i <= Len(Array(loc)) => Array(loc)[i].name = file.name
        /\ i > Len(Array(loc)) => file.name = NoName
    BY <1>6, <2>3, FoundSlot
  <2>5. loc \in Locs /\ Array(loc) = dirs[loc]
    BY <1>4, <2>4 DEF IsWritten, Array
  <2>6. Ready(dirs[loc], loc)
    BY <1>4, <2>4, <2>5, WrittenIsReady
  <2>7. file.name # NoName /\ file.name # "." /\ file.name # ".."
    BY <2>2, TokensAreNames
  <2>8. i \in 1 .. Len(dirs[loc]) /\ dirs[loc][i].name = file.name
    <3> HIDE DEF i
    <3>1. QED BY <2>3, <2>4, <2>5, <2>7
  <2>9. i \in 3 .. Len(dirs[loc])
    <3>1. dirs[loc][1].name = "." /\ dirs[loc][2].name = ".."
      BY <2>6 DEF Ready, bfs_create_dir_entry
    <3> HIDE DEF i
    <3>2. i # 1 /\ i # 2
      BY <2>7, <2>8, <3>1
    <3>3. QED BY <2>3, <2>5, <2>8, <3>2
  <2> DEFINE new == RemoveAt(dirs[loc], i)
  <2>10. Follows(new, dirs[loc], loc, next, NoEntry)
    <3>1. ArrayOK(dirs[loc], loc, next)
      BY <2>5 DEF Sound
    <3> HIDE DEF i
    <3>2. QED BY <1>1, <2>5, <2>9, <3>1, TakenOut
  <2>11. SafeEntry(NoEntry, dirs, next)
    BY <1>1, NoEntryOK DEF SafeEntry
  <2>12. fs_delete(input).dirs = [dirs EXCEPT ![loc] = new]
    BY <2>1
  <2> HIDE DEF new, i
  <2>13. Evolves([dirs EXCEPT ![loc] = new], dirs, next, NoEntry)
    BY <1>1, <1>4, <2>5, <2>10, <2>11, Evolving
  <2>14. QED BY <1>1, <2>1, <2>2, <2>12, <2>13
<1>7. QED BY <1>5, <1>6

-----------------------------------------------------------------------------
(* One lemma for every command and every step of one *)

\* The first write of md.
LEMMA Mkdir ==
  ASSUME IInv, NEW input \in MkdirPaths, fs_mkdir(input)
  PROVE  IInv' /\ StepOK
<1> DEFINE found  == get_file_from_path(ParentOf(input))
           parent == found.loc
<1>1. /\ Sound(dirs, next) /\ Variables /\ next \in Nat \ {0, 1}
      /\ making = None /\ removing = <<>> /\ ParentIsDir(input)
  BY NextIsNat DEF IInv, fs_mkdir, Idle
<1>2. UNCHANGED <<cwd, removing, cleared, crashes>>
  BY DEF fs_mkdir
<1>3. input \in Text(Names) /\ (input.rooted \/ input.toks # <<>>)
  BY NamespaceAssumption DEF Typed
<1>4. NameOf(input) \in Names \cup {NoName}
  <2>1. CASE input.toks # <<>>
    BY <1>1, <1>3, <2>1, Arguments
  <2>2. CASE input.toks = <<>>
    <3>1. Expand(input) = Slash
      BY <1>1, <1>3, <2>2, Arguments
    <3>2. QED BY <3>1 DEF NameOf, FileName, Slash, Abs
  <2>3. QED BY <2>1, <2>2
<1>5. parent \in Locs \cup {0} /\ parent < next /\ parent \notin Lost(dirs)
  <2>1. SafeEntry(found, dirs, next)
    BY <1>1, <1>3, Arguments, Lookups
  <2>2. found.type = "dir"
    BY <1>1 DEF ParentIsDir, fs_isDir
  <2> HIDE DEF found
  <2>3. QED BY <2>1, <2>2 DEF SafeEntry, EntryOK, Entry
<1>6. PICK loc \in Granted :
        LET entry == bfs_create_dir_entry(NameOf(input), loc, "dir")
            array == IF IsWritten(Array(parent)) THEN Insert(dirs[parent], entry) ELSE <<entry>>
            here  == array[1].loc
        IN  /\ next' = IF loc = 0 THEN next ELSE next + 1
            /\ IF parent = 0 \/ find_file(NameOf(input), Array(parent)) # 0
                 THEN UNCHANGED <<dirs, making>>
                 ELSE /\ dirs' = LBAwrite(dirs, here, array)
                      /\ making' = IF loc = 0 THEN None ELSE [loc |-> loc, parent |-> here]
  BY DEF fs_mkdir
<1> HIDE DEF found, parent
<1> DEFINE entry == bfs_create_dir_entry(NameOf(input), loc, "dir")
           array == IF IsWritten(Array(parent)) THEN Insert(dirs[parent], entry) ELSE <<entry>>
           here  == array[1].loc
<1>7. /\ loc = 0 \/ (loc = next /\ next <= MaxLoc /\ loc \in Locs)
      /\ next' = IF loc = 0 THEN next ELSE next + 1
  BY <1>1, <1>6, Numbers DEF Granted, Locs
<1>8. /\ next' \in Nat \ {0, 1} /\ next' >= next /\ next' \in 2 .. MaxLoc + 1 /\ parent < next'
      /\ loc < next' /\ loc # RootLoc
  <2>1. next \in 2 .. MaxLoc + 1 /\ MaxLoc \in Nat
    BY <1>1, Numbers DEF Variables
  <2>2. parent \in Nat
    BY <1>5, Numbers DEF Locs
  <2>3. CASE loc = 0
    BY <1>1, <1>5, <1>7, <2>1, <2>3 DEF RootLoc
  <2>4. CASE loc = next /\ next <= MaxLoc /\ loc # 0
    BY <1>1, <1>5, <1>7, <2>1, <2>2, <2>4 DEF RootLoc
  <2>5. QED BY <1>1, <1>7, <2>3, <2>4
<1>9. Sound(dirs, next')
  <2>1. CASE loc = 0
    BY <1>1, <1>7, <2>1
  <2>2. CASE loc # 0
    BY <1>1, <1>7, <2>2, Growing
  <2>3. QED BY <2>1, <2>2
<1>10. /\ entry \in Entry /\ entry.type = "dir" /\ entry.loc = loc
       /\ SafeEntry(entry, dirs, next')
  <2>1. entry = [name |-> NameOf(input), loc |-> loc, type |-> "dir"]
    BY DEF bfs_create_dir_entry
  <2>2. entry \in Entry /\ entry.type = "dir" /\ entry.loc = loc
    BY <1>4, <1>7, <2>1 DEF Entry
  <2>3. loc \notin Lost(dirs)
    <3>1. CASE loc = 0
      BY <3>1, Numbers DEF Lost, Locs
    <3>2. CASE loc = next /\ loc \in Locs
      <4>1. dirs[loc] = <<>>
        BY <1>1, <3>2 DEF Sound
      <4>2. Len(dirs[loc]) # 1
        BY <4>1
      <4>3. QED BY <4>2 DEF Lost
    <3>3. QED BY <1>7, <3>1, <3>2
  <2>4. loc = 0 => MayRefuse
    BY <1>1, <1>6 DEF Granted
  <2> HIDE DEF entry
  <2>5. QED BY <1>8, <2>2, <2>3, <2>4 DEF SafeEntry, EntryOK
<1>11. CASE parent = 0 \/ find_file(NameOf(input), Array(parent)) # 0
  <2>1. dirs' = dirs /\ making' = None
    BY <1>1, <1>6, <1>11
  <2>2. Sound(dirs, next)'
    BY <1>9, <2>1
  <2>3. Variables'
    BY <1>1, <1>2, <1>8, <2>1 DEF Variables
  <2>4. Evolves(dirs', dirs, next', NoEntry)
    BY <1>9, <2>1, Unchanging
  <2>5. StepOK
    BY <2>4, NoEntryOK, EvolvesIsOK
  <2>6. QED BY <1>1, <1>2, <2>1, <2>2, <2>3, <2>5, Quiet
<1>12. CASE parent # 0 /\ ~ find_file(NameOf(input), Array(parent)) # 0
  <2>1. /\ dirs' = LBAwrite(dirs, here, array)
        /\ making' = IF loc = 0 THEN None ELSE [loc |-> loc, parent |-> here]
    BY <1>6, <1>12
  <2> HIDE DEF entry
  <2>2. parent \in Locs /\ Array(parent) = dirs[parent]
    BY <1>5, <1>12 DEF Array
  <2>3. Variables' /\ Making' /\ StepOK /\ Sound(dirs, next)'
    <3>1. CASE IsWritten(dirs[parent])
      <4>1. array = Insert(dirs[parent], entry)
        BY <2>2, <3>1
      <4>2. ArrayOK(dirs[parent], parent, next') /\ Len(dirs[parent]) # 1 /\ EntryOK(entry, next')
        BY <1>5, <1>9, <1>10, <2>2 DEF Sound, Lost, SafeEntry
      <4>3. Follows(array, dirs[parent], parent, next', entry)
        BY <1>8, <2>2, <4>1, <4>2, Inserted
      <4>4. Ready(dirs[parent], parent)
        BY <1>1, <1>5, <2>2, <3>1, WrittenIsReady
      <4>5. here = parent
        BY <4>3, <4>4 DEF Follows, Ready, bfs_create_dir_entry
      <4>6. dirs' = LBAwrite(dirs, parent, Insert(Array(parent), entry))
        BY <2>1, <2>2, <4>1, <4>5
      <4>7. Evolves(dirs', dirs, next', entry)
        <5>1. QED BY <1>5, <1>8, <1>9, <1>10, <2>2, <4>6, Entering
      <4>8. Sound(dirs, next)' /\ Lost(dirs') \subseteq Lost(dirs)
        BY <4>7 DEF Evolves
      <4>9. StepOK
        BY <1>10, <4>7, EvolvesIsOK
      <4>10. making' = IF loc = 0 THEN None ELSE [loc |-> loc, parent |-> parent]
        BY <2>1, <4>5
      <4>11. Variables'
        BY <1>1, <1>2, <1>7, <1>8, <2>2, <4>10 DEF Variables, None
      <4>12. Making'
        <5>1. CASE loc = 0
          BY <4>10, <5>1 DEF Making
        <5>2. CASE loc # 0
          <6>1. loc = next /\ loc \in Locs /\ loc # parent
            BY <1>1, <1>5, <1>7, <5>2
          <6>2. dirs'[loc] = <<>>
            <7>1. dirs' = [dirs EXCEPT ![parent] = array]
              BY <2>1, <4>5, <1>12 DEF LBAwrite
            <7> HIDE DEF array
            <7>2. dirs'[loc] = dirs[loc]
              BY <6>1, <7>1, <1>1 DEF Sound
            <7>3. QED BY <1>1, <6>1, <7>2 DEF Sound
          <6>3. Len(dirs'[loc]) <= 1
            BY <6>2
          <6>4. making'.loc = loc /\ making'.parent = parent
            BY <4>10, <5>2
          <6>5. QED BY <1>1, <1>2, <1>5, <1>8, <2>2, <4>8, <6>1, <6>3, <6>4 DEF Making
        <5>3. QED BY <5>1, <5>2
      <4>13. QED BY <4>8, <4>9, <4>11, <4>12
    <3>2. CASE ~ IsWritten(dirs[parent])
      <4>1. array = <<entry>> /\ here = loc
        BY <1>10, <2>2, <3>2
      <4> HIDE DEF array, here
      <4>2. CASE loc = 0
        <5>1. dirs' = dirs /\ making' = None
          BY <2>1, <4>1, <4>2 DEF LBAwrite
        <5>2. Evolves(dirs', dirs, next', NoEntry)
          BY <1>9, <5>1, Unchanging
        <5>3. StepOK
          BY <5>2, NoEntryOK, EvolvesIsOK
        <5>4. QED BY <1>1, <1>2, <1>8, <1>9, <5>1, <5>3 DEF Variables, Making
      <4>3. CASE loc = next /\ loc \in Locs /\ loc # 0
        <5>1. /\ dirs' = [dirs EXCEPT ![next] = <<entry>>] /\ next' = next + 1
              /\ making' = [loc |-> next, parent |-> next]
          BY <1>7, <2>1, <4>1, <4>3 DEF LBAwrite
        <5>2. Sound(dirs, next)' /\ Lost(dirs') \subseteq Lost(dirs) \cup {next}
          <6>1. entry = bfs_create_dir_entry(NameOf(input), next, "dir")
            BY <4>3 DEF entry
          <6>2. NameOf(input) \in Names \cup {NoName, ".", ".."} /\ next \in Locs
            BY <1>4, <4>3
          <6>3. LET d == [dirs EXCEPT ![next] = <<bfs_create_dir_entry(NameOf(input), next, "dir")>>]
                IN  Sound(d, next + 1) /\ Lost(d) \subseteq Lost(dirs) \cup {next}
            BY <1>1, <6>2, Orphaned
          <6>4. QED BY <5>1, <6>1, <6>3
        <5>3. dirs'[next] = <<entry>> /\ \A l \in Locs : l # next => dirs'[l] = dirs[l]
          BY <1>1, <4>3, <5>1 DEF Sound
        <5>4. StepOK
          <6>1. ASSUME NEW l \in Locs, l < next, IsWritten(dirs'[l]) PROVE IsWritten(dirs[l])
            BY <1>1, <5>3, <6>1
          <6>2. ASSUME NEW l \in Locs, NEW i \in 1 .. Len(dirs'[l])
                PROVE  dirs'[l][i] \in ToSet(dirs[l]) \/ dirs'[l][i].type # "file"
            <7>1. CASE l = next
              BY <1>10, <5>3, <6>2, <7>1
            <7>2. CASE l # next
              <8>1. dirs[l] \in Seq(Entry) /\ dirs'[l] = dirs[l]
                BY <1>1, <5>3, <7>2 DEF Sound
              <8>2. i \in DOMAIN dirs[l]
                BY <6>2, <8>1, LenProperties
              <8>3. QED BY <8>1, <8>2 DEF ToSet
            <7>3. QED BY <7>1, <7>2
          <6>3. QED BY <6>1, <6>2 DEF StepOK
        <5>5. Variables'
          BY <1>1, <1>2, <1>8, <4>3, <5>1 DEF Variables
        <5>6. Making'
          <6>1. making'.loc = next /\ making'.parent = next
            BY <5>1
          <6>2. Len(dirs'[next]) <= 1
            <7>1. Len(<<entry>>) <= 1
              OBVIOUS
            <7>2. QED BY <5>3, <7>1, Zenon
          <6>3. QED BY <1>1, <1>2, <1>8, <4>3, <6>1, <6>2 DEF Making
        <5>7. QED BY <5>2, <5>4, <5>5, <5>6
      <4>4. QED BY <1>7, <1>8, <4>2, <4>3
    <3>3. QED BY <3>1, <3>2
  <2>4. Stack'
    <3>1. removing' \in Seq(Call) /\ Len(removing') = 0
      BY <1>1, <1>2, EmptySeq
    <3>2. Len(removing') <= MaxDepth
      BY <3>1, Numbers
    <3>3. QED BY <3>1, <3>2 DEF Stack
  <2>5. QED BY <2>3, <2>4 DEF IInv
<1>13. QED BY <1>11, <1>12

\* Its second write.
LEMMA NewDir ==
  ASSUME IInv, WriteNewDir
  PROVE  IInv' /\ StepOK
<1>1. /\ Sound(dirs, next) /\ Variables /\ next \in Nat \ {0, 1} /\ making # None
      /\ removing = <<>> /\ making.loc \in Locs \ {RootLoc} /\ making.loc < next
      /\ making.parent \in Locs /\ making.parent < next
      /\ making.parent \in Lost(dirs) => making.parent = making.loc
  BY NextIsNat DEF IInv, WriteNewDir, Making
<1> DEFINE l   == making.loc
           one == bfs_create_dir_entry(".", l, "dir")
           two == bfs_create_dir_entry("..", making.parent, "dir")
<1>2. /\ dirs' = [dirs EXCEPT ![l] = <<one, two>>] /\ making' = None
      /\ UNCHANGED <<cwd, next, removing, cleared, crashes>>
  BY DEF WriteNewDir
<1>3. Sound(dirs', next) /\ Lost(dirs') \subseteq Lost(dirs)
  <2>1. LET d == [dirs EXCEPT ![l] = <<one, two>>]
        IN  Sound(d, next) /\ Lost(d) \subseteq Lost(dirs)
    BY <1>1, Completed
  <2>2. QED BY <1>2, <2>1
<1>4. one.type = "dir" /\ two.type = "dir"
  BY DEF bfs_create_dir_entry
<1> HIDE DEF one, two
<1>5. StepOK
  <2>1. ASSUME NEW m \in Locs, NEW i \in 1 .. Len(dirs'[m])
        PROVE  dirs'[m][i] \in ToSet(dirs[m]) \/ dirs'[m][i].type # "file"
    <3>1. CASE m = l
      <4>1. dirs'[m] = <<one, two>>
        BY <1>1, <1>2, <3>1 DEF Sound
      <4>2. dirs'[m][i] = one \/ dirs'[m][i] = two
        BY <2>1, <4>1
      <4>3. QED BY <1>4, <4>2
    <3>2. CASE m # l
      <4>1. dirs[m] \in Seq(Entry) /\ dirs'[m] = dirs[m]
        BY <1>1, <1>2, <3>2 DEF Sound
      <4>2. i \in DOMAIN dirs[m]
        BY <2>1, <4>1, LenProperties
      <4>3. QED BY <4>1, <4>2 DEF ToSet
    <3>3. QED BY <3>1, <3>2
  <2>2. ~ Idle
    BY <1>1 DEF Idle
  <2>3. QED BY <2>1, <2>2 DEF StepOK
<1>6. Variables'
  BY <1>1, <1>2 DEF Variables, None
<1>7. Sound(dirs, next)'
  BY <1>2, <1>3
<1>8. QED BY <1>1, <1>2, <1>5, <1>6, <1>7, Quiet

\* touch.
LEMMA Open ==
  ASSUME IInv, NEW input \in TouchPaths, b_open(input)
  PROVE  IInv' /\ StepOK
<1> DEFINE found == get_file_from_path(ParentOf(input))
           loc   == found.loc
           e     == bfs_create_dir_entry(NameOf(input), next, "file")
<1>1. /\ Sound(dirs, next) /\ Variables /\ next \in Nat \ {0, 1} /\ next <= MaxLoc
      /\ making = None /\ removing = <<>> /\ ParentIsDir(input) /\ ~ fs_isDir(input)
  BY NextIsNat DEF IInv, b_open, Idle
<1>2. /\ dirs' = LBAwrite(dirs, loc, Insert(Array(loc), e)) /\ next' = next + 1
      /\ UNCHANGED <<cwd, making, removing, cleared, crashes>>
  BY DEF b_open
<1>3. input \in Text(Names) /\ (input.rooted \/ input.toks # <<>>)
  BY NamespaceAssumption DEF Typed
<1>4. NameOf(input) \in Names
  <2>1. ASSUME input.toks = <<>> PROVE FALSE
    <3>1. Expand(input) = Slash
      BY <1>1, <1>3, <2>1, Arguments
    <3>2. fs_isDir(input)
      BY <1>1, <3>1, RootIsFound DEF fs_isDir, get_file_from_path
    <3>3. QED BY <1>1, <3>2
  <2>2. QED BY <1>1, <1>3, <2>1, Arguments
<1>5. loc \in Locs \cup {0} /\ loc < next /\ loc \notin Lost(dirs)
  <2>1. SafeEntry(found, dirs, next)
    BY <1>1, <1>3, Arguments, Lookups
  <2>2. found.type = "dir"
    BY <1>1 DEF ParentIsDir, fs_isDir
  <2> HIDE DEF found
  <2>3. QED BY <2>1, <2>2 DEF SafeEntry, EntryOK, Entry
<1>6. next + 1 \in Nat \ {0, 1} /\ next + 1 \in 2 .. MaxLoc + 1 /\ loc < next + 1
  <2>1. loc \in Nat /\ MaxLoc \in Nat
    BY <1>5, Numbers DEF Locs
  <2> HIDE DEF loc
  <2>2. QED BY <1>1, <1>5, <2>1
<1>7. SafeEntry(e, dirs, next + 1) /\ e.type = "file" /\ e.loc = next
  <2>1. e = [name |-> NameOf(input), loc |-> next, type |-> "file"]
    BY DEF bfs_create_dir_entry
  <2>2. next \in Locs /\ next > RootLoc /\ next < next + 1
    BY <1>1, Numbers DEF Locs, RootLoc
  <2>3. e \in Entry /\ e.type = "file" /\ e.loc = next /\ e.name = NameOf(input)
    BY <1>4, <2>1, <2>2 DEF Entry
  <2> HIDE DEF e
  <2>4. QED BY <1>4, <2>2, <2>3 DEF SafeEntry, EntryOK
<1> HIDE DEF e, loc
<1>8. Evolves(dirs', dirs, next + 1, e)
  <2>1. Sound(dirs, next + 1)
    BY <1>1, Growing
  <2>2. Evolves(LBAwrite(dirs, loc, Insert(Array(loc), e)), dirs, next + 1, e)
    BY <1>5, <1>6, <1>7, <2>1, Entering
  <2>3. QED BY <1>2, <2>2
<1>9. Sound(dirs, next)'
  BY <1>2, <1>8 DEF Evolves
<1>10. StepOK
  <2>1. e.loc >= next
    BY <1>1, <1>7
  <2>2. QED BY <1>8, <2>1, EvolvesIsOK
<1>11. Variables'
  BY <1>1, <1>2, <1>6 DEF Variables
<1>12. QED BY <1>1, <1>2, <1>9, <1>10, <1>11, Quiet

\* rm of a file.
LEMMA Rm ==
  ASSUME IInv, NEW input \in RmPaths, cmd_rm(input)
  PROVE  IInv' /\ StepOK
<1>1. /\ Sound(dirs, next) /\ Variables /\ next \in Nat \ {0, 1}
      /\ making = None /\ removing = <<>> /\ ParentIsDir(input) /\ fs_isFile(input)
  BY NextIsNat DEF IInv, cmd_rm, Idle
<1>2. /\ dirs' = fs_delete(input).dirs /\ cleared' = fs_delete(input).cleared
      /\ UNCHANGED <<cwd, next, making, removing, crashes>>
  BY DEF cmd_rm
<1>3. input \in Text(Names) /\ (input.rooted \/ input.toks # <<>>)
  BY NamespaceAssumption DEF Typed
<1>4. input.toks # <<>>
  <2>1. ASSUME input.toks = <<>> PROVE FALSE
    <3>1. Expand(input) = Slash
      BY <1>1, <1>3, <2>1, Arguments
    <3>2. get_file_from_path(input).type = "dir"
      BY <1>1, <3>1, RootIsFound DEF get_file_from_path
    <3>3. QED BY <1>1, <3>2 DEF fs_isFile
  <2>2. QED BY <2>1
<1>5. Evolves(dirs', dirs, next, NoEntry) /\ cleared' \subseteq Locs \ {RootLoc}
  BY <1>1, <1>2, <1>3, <1>4, Deleting
<1>6. Sound(dirs, next)'
  BY <1>2, <1>5 DEF Evolves
<1>7. StepOK
  BY <1>5, NoEntryOK, EvolvesIsOK
<1>8. Variables'
  BY <1>1, <1>2, <1>5 DEF Variables
<1>9. QED BY <1>1, <1>2, <1>6, <1>7, <1>8, Quiet

\* mv.
LEMMA Move ==
  ASSUME IInv, NEW m \in Moves, b_move(m[1], m[2])
  PROVE  IInv' /\ StepOK
<1> DEFINE dest      == m[1]
           src       == m[2]
           destEntry == get_file_from_path(ParentOf(dest))
           srcEntry  == get_file_from_path(ParentOf(src))
           doomed    == Rel(<<NameOf(dest)>>)
<1>1. /\ Sound(dirs, next) /\ Variables /\ next \in Nat \ {0, 1}
      /\ making = None /\ removing = <<>> /\ ParentIsDir(dest) /\ ParentIsDir(src)
      /\ UNCHANGED <<cwd, next, making, removing, crashes>>
  BY NextIsNat DEF IInv, b_move, Idle
<1>2. /\ dest \in Text(Names) /\ dest.toks # <<>> /\ src \in Text(Names)
      /\ NameOf(dest) \in Names
  <2>1. dest \in Text(Names) /\ dest.toks # <<>> /\ src \in Text(Names)
    BY NamespaceAssumption
  <2> HIDE DEF dest, src
  <2>2. QED BY <1>1, <2>1, Arguments
<1> HIDE DEF dest, src
<1>3. /\ SafeEntry(destEntry, dirs, next) /\ destEntry.type = "dir"
      /\ SafeEntry(srcEntry, dirs, next) /\ srcEntry.type = "dir"
  <2>1. SafeEntry(destEntry, dirs, next) /\ SafeEntry(srcEntry, dirs, next)
    BY <1>1, <1>2, Arguments, Lookups
  <2>2. QED BY <1>1, <2>1 DEF ParentIsDir, fs_isDir
<1>4. PICK destDir \in Buffers(destEntry.loc) :
        IF FirstLoc(destDir) = FirstLoc(Array(srcEntry.loc))
          THEN /\ find_file(NameOf(dest), destDir) # 0 /\ ParentIsDir(doomed)
               /\ dirs' = LBAwrite(fs_delete(doomed).dirs, destEntry.loc, destDir)
               /\ cleared' = fs_delete(doomed).cleared
          ELSE /\ Len(destDir) < MaxSlots
               /\ dirs' = LBAwrite(dirs, destEntry.loc, Insert(destDir, srcEntry))
               /\ UNCHANGED cleared
  BY DEF b_move, dest, src
<1> HIDE DEF destEntry, srcEntry
<1> DEFINE loc == destEntry.loc
<1>5. loc \in Locs \cup {0} /\ loc < next /\ loc \notin Lost(dirs)
  BY <1>3 DEF SafeEntry, EntryOK, Entry
<1>6. loc # 0 => loc \in Locs /\ destDir = dirs[loc] /\ Array(loc) = dirs[loc]
  BY <1>4, <1>5 DEF Buffers, Array
<1>7. \E e : Evolves(dirs', dirs, next, e) /\ e.type # "file" /\ cleared' \subseteq Locs \ {RootLoc}
  <2>1. CASE FirstLoc(destDir) = FirstLoc(Array(srcEntry.loc))
    <3>1. /\ ParentIsDir(doomed) /\ dirs' = LBAwrite(fs_delete(doomed).dirs, loc, destDir)
          /\ cleared' = fs_delete(doomed).cleared
      BY <1>4, <2>1
    <3>2. doomed \in Text(Names) /\ doomed.toks # <<>>
      BY <1>2 DEF Rel, Text
    <3> HIDE DEF doomed
    <3> DEFINE d == fs_delete(doomed).dirs
    <3>3. Evolves(d, dirs, next, NoEntry) /\ cleared' \subseteq Locs \ {RootLoc}
      BY <1>1, <3>1, <3>2, Deleting
    <3>4. dirs' = LBAwrite(d, loc, destDir)
      BY <3>1
    <3> HIDE DEF d
    <3>5. Evolves(dirs', dirs, next, NoEntry)
      <4>1. CASE loc = 0
        BY <3>3, <3>4, <4>1 DEF LBAwrite
      <4>2. CASE loc # 0
        <5>1. dirs' = [d EXCEPT ![loc] = dirs[loc]] /\ loc \in Locs
          BY <1>6, <3>4, <4>2 DEF LBAwrite
        <5> HIDE DEF loc
        <5>2. Evolves([d EXCEPT ![loc] = dirs[loc]], dirs, next, NoEntry)
          BY <1>1, <3>3, <5>1, Restored
        <5>3. QED BY <5>1, <5>2
      <4>3. QED BY <4>1, <4>2
    <3>6. QED BY <3>3, <3>5, NoEntryOK
  <2>2. CASE FirstLoc(destDir) # FirstLoc(Array(srcEntry.loc))
    <3>1. dirs' = LBAwrite(dirs, loc, Insert(destDir, srcEntry)) /\ cleared' = cleared
      BY <1>4, <2>2
    <3>2. dirs' = LBAwrite(dirs, loc, Insert(Array(loc), srcEntry))
      BY <1>6, <3>1 DEF LBAwrite
    <3> HIDE DEF loc
    <3>3. Evolves(LBAwrite(dirs, loc, Insert(Array(loc), srcEntry)), dirs, next, srcEntry)
      BY <1>1, <1>3, <1>5, Entering
    <3>4. QED BY <1>1, <1>3, <3>1, <3>2, <3>3 DEF Variables
  <2>3. QED BY <2>1, <2>2
<1>8. PICK e : Evolves(dirs', dirs, next, e) /\ e.type # "file" /\ cleared' \subseteq Locs \ {RootLoc}
  BY <1>7
<1>9. Sound(dirs, next)'
  BY <1>1, <1>8 DEF Evolves
<1>10. StepOK
  BY <1>8, EvolvesIsOK
<1>11. Variables'
  BY <1>1, <1>8 DEF Variables
<1>12. QED BY <1>1, <1>9, <1>10, <1>11, Quiet

\* A stack of calls, and one call more.
SafeStack(s) ==
  s \in Seq(Call) /\ \A k \in 1 .. Len(s) : SafeCall(s[k], dirs, next)

\* A call pushed on the stack leaves the calls below it as they are.
LEMMA Pushed ==
  ASSUME NEW s, SafeStack(s), NEW c \in Call, SafeCall(c, dirs, next)
  PROVE  SafeStack(Append(s, c)) /\ Len(Append(s, c)) = Len(s) + 1
<1> DEFINE t == Append(s, c)
<1>1. /\ s \in Seq(Call) /\ Len(s) \in Nat /\ t \in Seq(Call) /\ Len(t) = Len(s) + 1
      /\ t[Len(s) + 1] = c /\ \A k \in 1 .. Len(s) : t[k] = s[k]
  BY LenProperties, AppendProperties DEF SafeStack
<1> HIDE DEF t
<1>2. ASSUME NEW k \in 1 .. Len(t) PROVE SafeCall(t[k], dirs, next)
  <2>1. CASE k = Len(s) + 1
    BY <1>1, <2>1
  <2>2. CASE k # Len(s) + 1
    <3>1. k \in 1 .. Len(s)
      BY <1>1, <1>2, <2>2
    <3>2. QED BY <1>1, <3>1 DEF SafeStack
  <2>3. QED BY <2>1, <2>2
<1>3. SafeStack(t)
  BY <1>1, <1>2 DEF SafeStack
<1>4. QED BY <1>1, <1>3 DEF t

\* The innermost call and the others.
LEMMA Inner ==
  ASSUME Stack, removing # <<>>
  PROVE  /\ Innermost \in Call /\ SafeCall(Innermost, dirs, next)
         /\ SafeStack(Front(removing)) /\ Len(Front(removing)) = Len(removing) - 1
         /\ Len(removing) \in Nat \ {0}
         /\ \A k \in 1 .. Len(removing) - 1 : Front(removing)[k] = removing[k]
<1>1. removing \in Seq(Call) /\ Len(removing) \in Nat \ {0}
  BY EmptySeq DEF Stack
<1>2. Len(removing) \in 1 .. Len(removing) /\ Innermost = removing[Len(removing)]
  BY <1>1 DEF Innermost, Last
<1>3. Innermost \in Call /\ SafeCall(Innermost, dirs, next)
  <2>1. removing[Len(removing)] \in Call
    BY <1>1, <1>2, ElementOfSeq
  <2>2. QED BY <1>2, <2>1 DEF Stack
<1> DEFINE n == Len(removing)
<1>4. /\ SubSeq(removing, 1, n - 1) \in Seq(Call) /\ Len(SubSeq(removing, 1, n - 1)) = n - 1
      /\ \A k \in 1 .. n - 1 : SubSeq(removing, 1, n - 1)[k] = removing[k]
  <2>1. \A k \in 1 .. n - 1 : removing[k] \in Call
    BY <1>1, ElementOfSeq
  <2>2. 1 \in Int /\ n - 1 \in Int
    BY <1>1
  <2>3. /\ SubSeq(removing, 1, n - 1) \in Seq(Call)
        /\ Len(SubSeq(removing, 1, n - 1)) = IF 1 <= n - 1 THEN (n - 1) - 1 + 1 ELSE 0
        /\ \A k \in 1 .. (n - 1) - 1 + 1 : SubSeq(removing, 1, n - 1)[k] = removing[1 + k - 1]
    BY <2>1, <2>2, SubSeqProperties
  <2> DEFINE s == SubSeq(removing, 1, n - 1)
  <2>4. /\ s \in Seq(Call) /\ Len(s) = n - 1
        /\ \A k \in 1 .. n - 1 : s[k] = removing[k]
    <3>1. /\ s \in Seq(Call) /\ Len(s) = IF 1 <= n - 1 THEN (n - 1) - 1 + 1 ELSE 0
          /\ \A k \in 1 .. (n - 1) - 1 + 1 : s[k] = removing[1 + k - 1]
      BY <2>3
    <3>2. n \in Nat \ {0}
      BY <1>1
    <3> HIDE DEF s, n
    <3>3. /\ (n - 1) - 1 + 1 = n - 1
          /\ (IF 1 <= n - 1 THEN (n - 1) - 1 + 1 ELSE 0) = n - 1
          /\ \A k \in 1 .. n - 1 : 1 + k - 1 = k
      BY <3>2
    <3>4. QED BY <3>1, <3>3
  <2>5. QED BY <2>4
<1> DEFINE s == SubSeq(removing, 1, n - 1)
<1>5. Front(removing) = s
  BY DEF Front
<1>6. SafeStack(s)
  BY <1>1, <1>4 DEF SafeStack, Stack
<1>7. QED BY <1>1, <1>3, <1>4, <1>5, <1>6

\* The calls that a removal may begin.
LEMMA CallsSafe ==
  ASSUME Sound(dirs, next), next \in Nat \ {0, 1}, NEW loc \in Locs \cup {0}, loc < next,
         loc # RootLoc, loc \notin Lost(dirs), NEW c \in Calls(loc)
  PROVE  c \in Call /\ SafeCall(c, dirs, next)
<1>1. PICK dir \in Buffers(loc) : c = [loc |-> loc, todo |-> SubSeq(dir, 3, Len(dir))]
  BY DEF Calls
<1>2. dir = <<>> \/ \E l \in Locs : dir = dirs[l]
  BY DEF Buffers
<1>3. dir \in Seq(Entry) /\ Len(dir) \in Nat
  <2>1. dir \in Seq(Entry)
    BY <1>2, EmptySeq DEF Sound
  <2>2. QED BY <2>1, LenProperties
<1> DEFINE todo == SubSeq(dir, 3, Len(dir))
<1>4. /\ todo \in Seq(Entry) /\ Len(todo) = IF 3 <= Len(dir) THEN Len(dir) - 2 ELSE 0
      /\ \A i \in 1 .. Len(dir) - 2 : todo[i] = dir[i + 2]
  <2>1. \A i \in 3 .. Len(dir) : dir[i] \in Entry
    BY <1>3, ElementOfSeq
  <2>2. 3 \in Int /\ Len(dir) \in Int
    BY <1>3
  <2>3. /\ SubSeq(dir, 3, Len(dir)) \in Seq(Entry)
        /\ Len(SubSeq(dir, 3, Len(dir))) = IF 3 <= Len(dir) THEN Len(dir) - 3 + 1 ELSE 0
        /\ \A i \in 1 .. Len(dir) - 3 + 1 : SubSeq(dir, 3, Len(dir))[i] = dir[3 + i - 1]
    BY <2>1, <2>2, SubSeqProperties
  <2> HIDE DEF todo
  <2>4. QED BY <1>3, <2>3 DEF todo
<1>5. c \in Call /\ c.loc = loc /\ c.todo = todo
  BY <1>1, <1>4 DEF Call
<1> HIDE DEF todo
<1>6. ASSUME NEW i \in 1 .. Len(todo) PROVE SafeEntry(todo[i], dirs, next)
  <2>1. 3 <= Len(dir) /\ i + 2 \in 1 .. Len(dir) /\ todo[i] = dir[i + 2]
    BY <1>3, <1>4, <1>6
  <2>2. dir # <<>>
    BY <2>1
  <2>3. PICK l \in Locs : dir = dirs[l]
    BY <1>2, <2>2
  <2>4. l \notin Lost(dirs)
    <3>1. Len(dir) # 1
      BY <1>3, <2>1
    <3>2. QED BY <2>3, <3>1 DEF Lost
  <2>5. QED BY <2>1, <2>3, <2>4, SafeSlot
<1>7. QED BY <1>5, <1>6 DEF SafeCall

\* A step of a removal that writes nothing to the disk.
LEMMA OnStack ==
  ASSUME IInv, making = None, UNCHANGED <<dirs, next, making, crashes>>, cwd' \in {cwd, Slash},
         cleared' \subseteq Locs \ {RootLoc}, SafeStack(removing'), Len(removing') <= MaxDepth
  PROVE  IInv' /\ StepOK
<1>1. Sound(dirs, next) /\ Variables
  BY DEF IInv
<1>2. Sound(dirs, next)'
  BY <1>1
<1>3. Variables'
  <2>1. Slash \in Text(Toks)
    BY EmptySeq DEF Slash, Abs, Text
  <2>2. QED BY <1>1, <2>1 DEF Variables
<1>4. Making' /\ Stack'
  BY DEF Making, Stack, SafeStack
<1>5. StepOK
  <2>1. Evolves(dirs', dirs, next, NoEntry)
    BY <1>1, Unchanging
  <2>2. QED BY <2>1, NoEntryOK, EvolvesIsOK
<1>6. QED BY <1>2, <1>3, <1>4, <1>5 DEF IInv

\* rm of a directory.
LEMMA Rmdir ==
  ASSUME IInv, NEW input \in RmPaths, fs_rmdir(input)
  PROVE  IInv' /\ StepOK
<1> DEFINE found == get_file_from_path(input)
           loc   == found.loc
<1>1. /\ Sound(dirs, next) /\ Variables /\ next \in Nat \ {0, 1}
      /\ making = None /\ fs_isDir(input) /\ loc # RootLoc
      /\ UNCHANGED <<dirs, cwd, next, making, cleared, crashes>>
  BY NextIsNat DEF IInv, fs_rmdir, Idle
<1>2. PICK c \in Calls(loc) : removing' = <<c>>
  BY DEF fs_rmdir
<1>3. loc \in Locs \cup {0} /\ loc < next /\ loc \notin Lost(dirs)
  <2>1. input \in Text(Names)
    BY NamespaceAssumption DEF Typed
  <2>2. SafeEntry(found, dirs, next)
    BY <1>1, <2>1, Arguments, Lookups
  <2>3. found.type = "dir"
    BY <1>1 DEF fs_isDir
  <2> HIDE DEF found
  <2>4. QED BY <2>2, <2>3 DEF SafeEntry, EntryOK, Entry
<1> HIDE DEF loc
<1>4. c \in Call /\ SafeCall(c, dirs, next)
  BY <1>1, <1>2, <1>3, CallsSafe
<1>5. SafeStack(removing') /\ Len(removing') <= MaxDepth
  <2>1. SafeStack(<<>>) /\ Len(<<>>) = 0
    BY EmptySeq DEF SafeStack
  <2>2. SafeStack(Append(<<>>, c)) /\ Len(Append(<<>>, c)) = 1
    <3> DEFINE s == <<>>
    <3>1. SafeStack(s) /\ Len(s) = 0
      BY <2>1
    <3> HIDE DEF s
    <3>2. SafeStack(Append(s, c)) /\ Len(Append(s, c)) = Len(s) + 1
      BY <1>4, <3>1, Pushed
    <3>3. Len(s) + 1 = 1
      BY <3>1
    <3>4. QED BY <3>2, <3>3 DEF s
  <2>3. Append(<<>>, c) = <<c>>
    OBVIOUS
  <2>4. 1 <= MaxDepth
    BY Numbers
  <2>5. QED BY <1>2, <2>2, <2>3, <2>4
<1>6. cleared' \subseteq Locs \ {RootLoc}
  BY <1>1 DEF Variables
<1>7. QED BY <1>1, <1>5, <1>6, OnStack

\* The entry that a call has come to, and the call one step later.
LEMMA Visiting ==
  ASSUME IInv, removing # <<>>, Innermost.todo # <<>>
  PROVE  /\ SafeEntry(Head(Innermost.todo), dirs, next)
         /\ SafeStack(Visited) /\ Len(Visited) = Len(removing) /\ making = None
<1>1. /\ Innermost \in Call /\ SafeCall(Innermost, dirs, next)
      /\ SafeStack(Front(removing)) /\ Len(Front(removing)) = Len(removing) - 1
      /\ Len(removing) \in Nat \ {0}
  BY Inner DEF IInv
<1> DEFINE todo == Innermost.todo
           c    == [Innermost EXCEPT !.todo = Tail(@)]
<1>2. /\ todo \in Seq(Entry) /\ Len(todo) \in Nat \ {0}
      /\ Tail(todo) \in Seq(Entry) /\ Len(Tail(todo)) = Len(todo) - 1
      /\ \A i \in 1 .. Len(Tail(todo)) : Tail(todo)[i] = todo[i + 1]
  <2>1. todo \in Seq(Entry)
    BY <1>1 DEF Call
  <2> HIDE DEF todo
  <2>2. todo # <<>>
    BY DEF todo
  <2>3. QED BY <2>1, <2>2, EmptySeq, HeadTailProperties
<1>3. Head(todo) = todo[1]
  BY <1>2
<1>4. SafeEntry(Head(todo), dirs, next)
  <2>1. 1 \in 1 .. Len(todo)
    BY <1>2
  <2>2. QED BY <1>1, <1>3, <2>1 DEF SafeCall
<1>5. c \in Call /\ c.loc = Innermost.loc /\ c.todo = Tail(todo)
  <2>1. c = [Innermost EXCEPT !.todo = Tail(todo)]
    OBVIOUS
  <2>2. Innermost \in [loc : Locs \cup {0}, todo : Seq(Entry)]
    BY <1>1 DEF Call
  <2> DEFINE rest == Tail(todo)
  <2>3. rest \in Seq(Entry) /\ c = [Innermost EXCEPT !.todo = rest]
    BY <1>2, <2>1
  <2> HIDE DEF c, rest
  <2>4. c \in Call /\ c.loc = Innermost.loc /\ c.todo = rest
    BY <2>2, <2>3 DEF Call
  <2>5. QED BY <2>4 DEF rest
<1> HIDE DEF c
<1>6. SafeCall(c, dirs, next)
  <2>1. ASSUME NEW i \in 1 .. Len(Tail(todo)) PROVE SafeEntry(Tail(todo)[i], dirs, next)
    <3>1. i + 1 \in 1 .. Len(todo) /\ Tail(todo)[i] = todo[i + 1]
      BY <1>2, <2>1
    <3>2. QED BY <1>1, <3>1 DEF SafeCall
  <2>2. QED BY <1>1, <1>5, <2>1 DEF SafeCall
<1>7. SafeStack(Append(Front(removing), c)) /\ Len(Append(Front(removing), c)) = Len(removing)
  <2>1. SafeStack(Append(Front(removing), c))
        /\ Len(Append(Front(removing), c)) = Len(Front(removing)) + 1
    BY <1>1, <1>5, <1>6, Pushed
  <2>2. QED BY <1>1, <2>1
<1>8. Visited = Append(Front(removing), c)
  BY DEF Visited, c
<1>9. making = None
  BY DEF IInv, Making
<1>10. QED BY <1>4, <1>7, <1>8, <1>9

\* A file's blocks are freed.
LEMMA FileGone ==
  ASSUME IInv, RemoveFile
  PROVE  IInv' /\ StepOK
<1> DEFINE e == Head(Innermost.todo)
<1>1. /\ removing # <<>> /\ Innermost.todo # <<>> /\ e.type = "file"
      /\ cleared' = cleared \cup {e.loc} /\ removing' = Visited
      /\ UNCHANGED <<dirs, cwd, next, making, crashes>>
  BY DEF RemoveFile, AtEntry
<1> HIDE DEF e
<1>2. SafeEntry(e, dirs, next) /\ SafeStack(Visited) /\ Len(Visited) = Len(removing) /\ making = None
  BY <1>1, Visiting DEF e
<1>3. e.loc \in Locs \ {RootLoc}
  <2>1. e \in Entry /\ e.loc > RootLoc
    BY <1>1, <1>2 DEF SafeEntry, EntryOK
  <2>2. e.loc \in Locs \cup {0}
    BY <2>1 DEF Entry
  <2>3. QED BY <2>1, <2>2 DEF RootLoc
<1>4. cleared' \subseteq Locs \ {RootLoc}
  BY <1>1, <1>3 DEF IInv, Variables
<1>5. Len(removing') <= MaxDepth
  BY <1>1, <1>2 DEF IInv, Stack
<1>6. SafeStack(removing')
  BY <1>1, <1>2
<1>7. QED BY <1>1, <1>2, <1>4, <1>5, <1>6, OnStack

\* A call for a directory that is listed, or the root passed over.
LEMMA Subdir ==
  ASSUME IInv, RemoveSubdir
  PROVE  IInv' /\ StepOK
<1> DEFINE e == Head(Innermost.todo)
<1>1. /\ removing # <<>> /\ Innermost.todo # <<>> /\ e.type = "dir"
      /\ IF e.loc = RootLoc THEN removing' = Visited
         ELSE /\ Len(removing) < MaxDepth
              /\ \E c \in Calls(e.loc) : removing' = Append(Visited, c)
      /\ UNCHANGED <<dirs, cwd, next, making, cleared, crashes>>
  BY DEF RemoveSubdir, AtEntry
<1>2. SafeEntry(e, dirs, next) /\ SafeStack(Visited) /\ Len(Visited) = Len(removing) /\ making = None
  BY <1>1, Visiting
<1> HIDE DEF e
<1>3. cleared' \subseteq Locs \ {RootLoc}
  BY <1>1 DEF IInv, Variables
<1>4. SafeStack(removing') /\ Len(removing') <= MaxDepth
  <2>1. CASE e.loc = RootLoc
    BY <1>1, <1>2, <2>1 DEF IInv, Stack
  <2>2. CASE e.loc # RootLoc
    <3>1. PICK c \in Calls(e.loc) : removing' = Append(Visited, c)
      BY <1>1, <2>2
    <3>2. e.loc \in Locs \cup {0} /\ e.loc < next /\ e.loc \notin Lost(dirs)
      BY <1>1, <1>2 DEF SafeEntry, EntryOK, Entry
    <3>3. Sound(dirs, next) /\ next \in Nat \ {0, 1}
      BY NextIsNat DEF IInv
    <3>4. c \in Call /\ SafeCall(c, dirs, next)
      BY <2>2, <3>2, <3>3, CallsSafe
    <3>5. SafeStack(Append(Visited, c)) /\ Len(Append(Visited, c)) = Len(Visited) + 1
      BY <1>2, <3>4, Pushed
    <3>6. Len(removing) \in Nat /\ Len(removing) < MaxDepth /\ MaxDepth \in Nat
      BY <1>1, <2>2, Numbers, LenProperties DEF IInv, Stack
    <3>7. QED BY <1>2, <3>1, <3>5, <3>6
  <2>3. QED BY <2>1, <2>2
<1>5. QED BY <1>1, <1>2, <1>3, <1>4, OnStack

\* No room for one.
LEMMA Overflow ==
  ASSUME IInv, StackOverflow
  PROVE  IInv' /\ StepOK
<1>1. /\ removing # <<>> /\ removing' = <<>> /\ cwd' = Slash
      /\ UNCHANGED <<dirs, next, making, cleared, crashes>>
  BY DEF StackOverflow, AtEntry
<1>2. making = None
  BY <1>1 DEF IInv, Making
<1>3. SafeStack(removing') /\ Len(removing') <= MaxDepth
  <2>1. <<>> \in Seq(Call) /\ Len(<<>>) = 0
    BY EmptySeq
  <2>2. QED BY <1>1, <2>1, Numbers DEF SafeStack
<1>4. cleared' \subseteq Locs \ {RootLoc}
  BY <1>1 DEF IInv, Variables
<1>5. QED BY <1>1, <1>2, <1>3, <1>4, OnStack

\* What Unlink writes.
LEMMA Unlinked ==
  ASSUME Sound(dirs, next), next \in Nat \ {0, 1}, NEW loc \in Locs \cup {0}, loc \notin Lost(dirs)
  PROVE  Evolves(Unlink(loc), dirs, next, NoEntry)
<1> DEFINE up    == IF IsWritten(Array(loc)) THEN dirs[loc][2].loc ELSE 0
           upper == Array(up)
<1>1. CASE ~ (Len(upper) >= 3 /\ upper[3].loc = loc)
  <2>1. Unlink(loc) = dirs
    BY <1>1 DEF Unlink
  <2>2. QED BY <2>1, Unchanging
<1>2. CASE Len(upper) >= 3 /\ upper[3].loc = loc
  <2>1. Unlink(loc) = [dirs EXCEPT ![up] = RemoveAt(@, 3)]
    BY <1>2 DEF Unlink
  <2>2. up # 0
    <3>1. ASSUME up = 0 PROVE FALSE
      <4>1. upper = <<>>
        BY <3>1 DEF Array
      <4>2. QED BY <1>2, <4>1
    <3>2. QED BY <3>1
  <2>3. IsWritten(Array(loc)) /\ up = dirs[loc][2].loc
    BY <2>2
  <2>4. loc \in Locs /\ Array(loc) = dirs[loc]
    BY <2>3 DEF Array, IsWritten
  <2>5. Ready(dirs[loc], loc)
    BY <2>3, <2>4, WrittenIsReady
  <2>6. up \in Locs /\ up < next
    <3>1. dirs[loc] \in Seq(Entry) /\ ArrayOK(dirs[loc], loc, next)
      BY <2>4 DEF Sound
    <3>2. 2 \in 1 .. Len(dirs[loc])
      BY <2>5, <3>1, LenProperties DEF Ready
    <3>3. EntryOK(dirs[loc][2], next)
      BY <3>1, <3>2 DEF ArrayOK
    <3> HIDE DEF up
    <3>4. QED BY <2>2, <2>3, <3>3 DEF EntryOK, Entry
  <2>7. upper = dirs[up]
    BY <2>2 DEF Array
  <2> HIDE DEF up
  <2>8. 3 \in 3 .. Len(dirs[up])
    <3>1. dirs[up] \in Seq(Entry)
      BY <2>6 DEF Sound
    <3>2. Len(dirs[up]) \in Nat /\ Len(dirs[up]) >= 3
      BY <1>2, <2>7, <3>1, LenProperties
    <3>3. QED BY <3>2
  <2> DEFINE new == RemoveAt(dirs[up], 3)
  <2>9. Follows(new, dirs[up], up, next, NoEntry)
    <3>1. ArrayOK(dirs[up], up, next)
      BY <2>6 DEF Sound
    <3>2. QED BY <2>6, <2>8, <3>1, TakenOut
  <2>10. SafeEntry(NoEntry, dirs, next)
    BY NoEntryOK DEF SafeEntry
  <2>11. Unlink(loc) = [dirs EXCEPT ![up] = new]
    BY <2>1
  <2> HIDE DEF new
  <2>12. Evolves([dirs EXCEPT ![up] = new], dirs, next, NoEntry)
    BY <2>6, <2>9, <2>10, Evolving
  <2>13. QED BY <2>11, <2>12
<1>3. QED BY <1>1, <1>2

\* The end of a call.
LEMMA Return ==
  ASSUME IInv, EndRemove
  PROVE  IInv' /\ StepOK
<1>1. /\ removing # <<>> /\ cleared' = cleared \cup ({Innermost.loc} \ {0})
      /\ dirs' = Unlink(Innermost.loc) /\ removing' = Front(removing)
      /\ UNCHANGED <<cwd, next, making, crashes>>
  BY DEF EndRemove
<1>2. /\ Sound(dirs, next) /\ Variables /\ next \in Nat \ {0, 1} /\ making = None
  BY <1>1, NextIsNat DEF IInv, Making
<1>3. /\ Innermost \in Call /\ SafeCall(Innermost, dirs, next) /\ SafeStack(Front(removing))
      /\ Len(Front(removing)) = Len(removing) - 1 /\ Len(removing) \in Nat \ {0}
      /\ Len(removing) <= MaxDepth
  BY <1>1, Inner DEF IInv, Stack
<1>4. Innermost.loc \in Locs \cup {0} /\ Innermost.loc \notin Lost(dirs) /\ Innermost.loc # RootLoc
  BY <1>3 DEF SafeCall, Call
<1>5. Evolves(dirs', dirs, next, NoEntry)
  BY <1>1, <1>2, <1>4, Unlinked
<1>6. Sound(dirs, next)' /\ Lost(dirs') \subseteq Lost(dirs)
  BY <1>1, <1>5 DEF Evolves
<1>7. StepOK
  BY <1>5, NoEntryOK, EvolvesIsOK
<1>8. Variables'
  BY <1>1, <1>2, <1>4 DEF Variables
<1>9. Stack'
  <2>1. removing' \in Seq(Call)
    BY <1>1, <1>3 DEF SafeStack
  <2>2. Len(removing') <= MaxDepth
    BY <1>1, <1>3, Numbers
  <2>3. ASSUME NEW k \in 1 .. Len(removing') PROVE SafeCall(removing'[k], dirs', next')
    <3>1. SafeCall(removing'[k], dirs, next)
      BY <1>1, <1>3, <2>3 DEF SafeStack
    <3>2. SafeCall(removing'[k], dirs', next)
      BY <1>6, <3>1, StaysSafe
    <3>3. QED BY <1>1, <3>2
  <2>4. QED BY <2>1, <2>2, <2>3 DEF Stack
<1>10. Making'
  BY <1>1, <1>2 DEF Making
<1>11. QED BY <1>6, <1>7, <1>8, <1>9, <1>10 DEF IInv

\* cd.
LEMMA Setcwd ==
  ASSUME IInv, NEW input \in CdPaths, fs_setcwd(input)
  PROVE  IInv' /\ StepOK
<1>1. /\ Sound(dirs, next) /\ Variables /\ making = None /\ removing = <<>>
      /\ UNCHANGED <<dirs, next, making, removing, cleared, crashes>>
  BY DEF IInv, fs_setcwd, Idle
<1>2. PICK freed \in {cwd, input, Garbage} : cwd' = expand_pathname(freed, input)
  BY DEF fs_setcwd
<1>3. input \in Text(Toks)
  <2>1. input.toks \in Seq(Names \cup {".", ".."}) /\ input.rooted \in BOOLEAN /\ input \in Text(Names \cup {".", ".."})
    BY NamespaceAssumption DEF Text
  <2>2. Names \cup {".", ".."} \subseteq Toks
    BY DEF Toks
  <2>3. input.toks \in Seq(Toks)
    BY <2>1, <2>2, SeqMonotonic
  <2>4. QED BY <2>1, <2>3 DEF Text
<1>4. freed \in Text(Toks)
  <2>1. Garbage \in Text(Toks)
    <3>1. "?" \in Toks
      BY DEF Toks
    <3>2. QED BY <3>1 DEF Garbage, Rel, Text
  <2>2. QED BY <1>1, <1>2, <1>3, <2>1 DEF Variables
<1>5. cwd' \in Text(Toks)
  <2>1. input \in Text(Toks \cup {".", ".."})
    BY <1>3, TokensAreNames
  <2>2. QED BY <1>2, <1>4, <2>1, ExpandedText
<1>6. Variables' /\ Sound(dirs, next)'
  BY <1>1, <1>5 DEF Variables
<1>7. StepOK
  <2>1. Evolves(dirs', dirs, next, NoEntry)
    BY <1>1, Unchanging
  <2>2. QED BY <2>1, NoEntryOK, EvolvesIsOK
<1>8. QED BY <1>1, <1>6, <1>7, Quiet

\* The session ends or dies.
LEMMA Ending ==
  ASSUME IInv, Restart \/ Crash
  PROVE  IInv' /\ StepOK
<1>1. /\ Sound(dirs, next) /\ Variables /\ cwd' = Slash /\ UNCHANGED <<dirs, next, cleared>>
      /\ making' = None /\ removing' = <<>>
  BY DEF IInv, Restart, Crash, Idle
<1>2. crashes' \in 0 .. MaxCrashes
  <2>1. crashes \in 0 .. MaxCrashes /\ MaxCrashes \in Nat
    BY <1>1, Numbers DEF Variables
  <2>2. crashes' = crashes \/ (crashes < MaxCrashes /\ crashes' = crashes + 1)
    BY DEF Restart, Crash
  <2>3. QED BY <2>1, <2>2
<1>3. Slash \in Text(Toks)
  BY EmptySeq DEF Slash, Abs, Text
<1>4. Variables' /\ Sound(dirs, next)'
  BY <1>1, <1>2, <1>3, Numbers DEF Variables, None
<1>5. StepOK
  <2>1. Evolves(dirs', dirs, next, NoEntry)
    BY <1>1, Unchanging
  <2>2. QED BY <2>1, NoEntryOK, EvolvesIsOK
<1>6. QED BY <1>1, <1>4, <1>5, Quiet

\* Nothing happens.
LEMMA Stuttering ==
  ASSUME IInv, UNCHANGED vars
  PROVE  IInv' /\ StepOK
<1>1. /\ Sound(dirs, next) /\ Variables /\ Making /\ Stack
      /\ UNCHANGED <<dirs, cwd, next, making, removing, cleared, crashes>>
  BY DEF IInv, vars
<1>2. Sound(dirs, next)' /\ Variables' /\ Making' /\ Stack'
  BY <1>1 DEF Variables, Making, Stack
<1>3. StepOK
  <2>1. Evolves(dirs', dirs, next, NoEntry)
    BY <1>1, Unchanging
  <2>2. QED BY <2>1, NoEntryOK, EvolvesIsOK
<1>4. QED BY <1>2, <1>3 DEF IInv

\* The volume just formatted.
LEMMA Formatted ==
  ASSUME Init
  PROVE  IInv
<1> DEFINE one == bfs_create_dir_entry(".", RootLoc, "dir")
           two == bfs_create_dir_entry("..", RootLoc, "dir")
           new == <<one, two>>
<1>1. /\ dirs = [l \in Locs |-> IF l = RootLoc THEN new ELSE <<>>]
      /\ cwd = Slash /\ next = RootLoc + 1 /\ making = None /\ removing = <<>>
      /\ cleared = {} /\ crashes = 0
  BY DEF Init
<1>2. /\ one \in Entry /\ one.loc = RootLoc /\ one.type = "dir"
      /\ two \in Entry /\ two.loc = RootLoc /\ two.type = "dir" /\ two.name = ".."
  BY Numbers DEF bfs_create_dir_entry, Entry, RootLoc, Locs
<1>3. one = bfs_create_dir_entry(".", RootLoc, "dir")
  OBVIOUS
<1> HIDE DEF one, two
<1>4. new \in Seq(Entry) /\ Len(new) = 2 /\ new[1] = one /\ new[2] = two
  BY <1>2
<1>5. \A i \in 1 .. Len(new) : new[i] = one \/ new[i] = two
  BY <1>4
<1> HIDE DEF new
<1>6. next = 2 /\ RootLoc = 1 /\ 1 \in Locs
  BY <1>1, Numbers DEF RootLoc, Locs
<1>7. /\ dirs \in [Locs -> Seq(Entry)] /\ dirs[RootLoc] = new
      /\ \A l \in Locs : l # RootLoc => dirs[l] = <<>>
  <2>1. <<>> \in Seq(Entry)
    BY EmptySeq
  <2>2. QED BY <1>1, <1>4, <1>6, <2>1
<1>8. Ready(new, RootLoc)
  BY <1>2, <1>3, <1>4, <1>6 DEF Ready
<1>9. ASSUME NEW l \in Locs PROVE ArrayOK(dirs[l], l, next)
  <2>1. CASE l = RootLoc
    <3>1. EntryOK(one, next) /\ EntryOK(two, next)
      BY <1>2, <1>6 DEF EntryOK
    <3>2. Len(new) <= Capacity + 1
      BY <1>4, Numbers
    <3>3. QED BY <1>4, <1>5, <1>7, <1>8, <2>1, <3>1, <3>2 DEF ArrayOK
  <2>2. CASE l # RootLoc
    <3>1. dirs[l] = <<>> /\ <<>> \in Seq(Entry) /\ Len(<<>>) = 0
      BY <1>7, <2>2, EmptySeq
    <3>2. Len(dirs[l]) <= Capacity + 1 /\ \A i \in 1 .. Len(dirs[l]) : EntryOK(dirs[l][i], next)
      BY <3>1, Numbers
    <3>3. QED BY <3>1, <3>2 DEF ArrayOK
  <2>3. QED BY <2>1, <2>2
<1>10. ASSUME NEW l \in Locs, l >= next PROVE dirs[l] = <<>>
  BY <1>6, <1>7, <1>10
<1>11. Lost(dirs) = {}
  <2>1. Len(new) # 1
    BY <1>4
  <2>2. ASSUME NEW l \in Locs PROVE Len(dirs[l]) # 1
    <3>1. CASE l = RootLoc
      <4>1. dirs[l] = new
        BY <1>7, <3>1
      <4>2. QED BY <2>1, <4>1, Zenon
    <3>2. CASE l # RootLoc
      <4>1. dirs[l] = <<>>
        BY <1>7, <3>2
      <4>2. Len(<<>>) # 1
        OBVIOUS
      <4>3. QED BY <4>1, <4>2, Zenon
    <3>3. QED BY <3>1, <3>2
  <2>3. QED BY <2>2 DEF Lost
<1>12. Sound(dirs, next)
  BY <1>7, <1>8, <1>9, <1>10, <1>11 DEF Sound
<1>13. Variables
  <2>1. Slash \in Text(Toks)
    BY EmptySeq DEF Slash, Abs, Text
  <2>2. QED BY <1>1, <1>6, <2>1, Numbers DEF Variables, None
<1>14. Making /\ Stack
  <2>1. removing \in Seq(Call) /\ Len(removing) = 0
    BY <1>1, EmptySeq
  <2>2. QED BY <1>1, <2>1, Numbers DEF Making, Stack
<1>15. QED BY <1>12, <1>13, <1>14 DEF IInv

-----------------------------------------------------------------------------
(* The theorems *)

\* Every step keeps the invariant, and is one of the steps that may be.
LEMMA EveryStep ==
  ASSUME IInv, [Next]_vars
  PROVE  IInv' /\ StepOK
<1>1. CASE \E t \in MkdirPaths : fs_mkdir(t)
  BY <1>1, Mkdir
<1>2. CASE \E t \in TouchPaths : b_open(t)
  BY <1>2, Open
<1>3. CASE \E t \in RmPaths : cmd_rm(t)
  BY <1>3, Rm
<1>4. CASE \E t \in RmPaths : fs_rmdir(t)
  BY <1>4, Rmdir
<1>5. CASE \E m \in Moves : b_move(m[1], m[2])
  BY <1>5, Move
<1>6. CASE \E t \in CdPaths : fs_setcwd(t)
  BY <1>6, Setcwd
<1>7. CASE Proceed
  BY <1>7, NewDir, FileGone, Subdir, Overflow, Return DEF Proceed
<1>8. CASE Restart \/ Crash
  BY <1>8, Ending
<1>9. CASE UNCHANGED vars
  BY <1>9, Stuttering
<1>10. QED BY <1>1, <1>2, <1>3, <1>4, <1>5, <1>6, <1>7, <1>8, <1>9 DEF Next

\* The invariant holds of every state.
LEMMA Inductive == Spec => []IInv
<1>1. Init => IInv
  BY Formatted
<1>2. IInv /\ [Next]_vars => IInv'
  BY EveryStep
<1>3. QED BY <1>1, <1>2, PTL DEF Spec

\* Every variable has its type, whatever is typed: no command writes more than
\* a directory's buffer and the entry behind it, and no removal uses more of
\* the stack than there is.
THEOREM TypeCorrect == Spec => []TypeOK
<1>1. ASSUME IInv PROVE TypeOK
  <2>1. Sound(dirs, next) /\ Variables /\ Stack
    BY <1>1 DEF IInv
  <2>2. dirs \in [Locs -> Seq(Entry)] /\ \A l \in Locs : Len(dirs[l]) <= Capacity + 1
    BY <2>1 DEF Sound, ArrayOK
  <2>3. cwd \in Text(Names \cup {".", "..", "?"}) /\ next \in 2 .. MaxLoc + 1
        /\ making \in [loc : Locs \cup {0}, parent : Locs \cup {0}]
        /\ cleared \subseteq Locs /\ crashes \in 0 .. MaxCrashes
    BY <2>1 DEF Variables, Toks
  <2>4. removing \in Seq([loc : Locs \cup {0}, todo : Seq(Entry)]) /\ Len(removing) <= MaxDepth
    BY <2>1 DEF Stack, Call
  <2>5. QED BY <2>2, <2>3, <2>4 DEF TypeOK
<1>2. IInv => TypeOK
  BY <1>1
<1>3. QED BY <1>2, Inductive, PTL

\* The root directory is never removed, never freed and never damaged: mv may
\* list it anywhere, and the test of bfs_remove_dir against the root's location
\* alone keeps removals out of it.
THEOREM RootStays == Spec => []RootIsNeverRemoved
<1>1. ASSUME IInv PROVE RootIsNeverRemoved
  <2>1. RootLoc \notin cleared
    BY <1>1 DEF IInv, Variables
  <2>2. IsReady(RootLoc)
    BY <1>1 DEF IInv, Sound, Ready, IsReady
  <2>3. removing \in Seq(Call) /\ \A k \in 1 .. Len(removing) : removing[k].loc # RootLoc
    BY <1>1 DEF IInv, Stack, SafeCall
  <2>4. DOMAIN removing = 1 .. Len(removing)
    BY <2>3, LenProperties
  <2>5. QED BY <2>1, <2>2, <2>3, <2>4 DEF RootIsNeverRemoved
<1>2. IInv => RootIsNeverRemoved
  BY <1>1
<1>3. QED BY <1>2, Inductive, PTL

\* A directory that a crash has left listed and unwritten is never written:
\* the test of the first slot keeps every command from the slots behind it, and
\* what fs_mkdir makes of its array goes elsewhere.
THEOREM UnreadyStays == Spec => UnreadyIsForever
<1> DEFINE A == \A l \in Locs : \A i \in 3 .. Len(dirs[l]) :
                  LET d == dirs[l][i].loc
                  IN  Idle /\ dirs[l][i].type = "dir" /\ d # 0 /\ d \notin Written => d \notin Written'
<1>1. ASSUME IInv, [Next]_vars PROVE A
  <2> SUFFICES ASSUME NEW l \in Locs, NEW i \in 3 .. Len(dirs[l]), Idle,
                      dirs[l][i].loc # 0, dirs[l][i].loc \notin Written
               PROVE  dirs[l][i].loc \notin Written'
    OBVIOUS
  <2> DEFINE d == dirs[l][i].loc
  <2>1. StepOK
    BY <1>1, EveryStep
  <2>2. EntryOK(dirs[l][i], next)
    <3>1. ArrayOK(dirs[l], l, next)
      BY <1>1 DEF IInv, Sound
    <3>2. i \in 1 .. Len(dirs[l])
      BY <3>1, LenProperties DEF ArrayOK
    <3>3. QED BY <3>1, <3>2 DEF ArrayOK
  <2>3. d \in Locs /\ d < next
    BY <2>2 DEF EntryOK, Entry
  <2> HIDE DEF d
  <2>4. d \notin Written => ~ IsWritten(dirs[d])
    BY <2>3 DEF Written
  <2>5. ~ IsWritten(dirs[d]) => ~ IsWritten(dirs'[d])
    BY <2>1, <2>3 DEF StepOK
  <2>6. ~ IsWritten(dirs'[d]) => d \notin Written'
    BY DEF Written
  <2>7. QED BY <2>4, <2>5, <2>6 DEF d
<1>2. IInv /\ [Next]_vars => [A]_vars
  BY <1>1
<1>3. QED BY <1>2, Inductive, PTL DEF Spec, UnreadyIsForever

\* No command lists a file that exists where it was not listed: a file's entry
\* is only ever put into an array when its location has just been handed out.
THEOREM FilesStay == Spec => FilesStayPut
<1> DEFINE A == \A f \in 2 .. next - 1, l \in Locs :
                  [name : Names, loc : {f}, type : {"file"}] \cap ToSet(dirs'[l])
                    \subseteq ToSet(dirs[l])
<1>1. ASSUME IInv, [Next]_vars PROVE A
  <2> SUFFICES ASSUME NEW f \in 2 .. next - 1, NEW l \in Locs,
                      NEW e \in [name : Names, loc : {f}, type : {"file"}],
                      e \in ToSet(dirs'[l])
               PROVE  e \in ToSet(dirs[l])
    OBVIOUS
  <2>1. StepOK /\ IInv'
    BY <1>1, EveryStep
  <2>2. dirs'[l] \in Seq(Entry)
    BY <2>1 DEF IInv, Sound
  <2>3. PICK i \in 1 .. Len(dirs'[l]) : e = dirs'[l][i]
    BY <2>2, LenProperties DEF ToSet
  <2>4. e.type = "file" /\ e.loc = f
    OBVIOUS
  <2>5. ~ (f >= next)
    BY <1>1, NextIsNat DEF IInv
  <2>6. QED BY <2>1, <2>3, <2>4, <2>5 DEF StepOK
<1>2. IInv /\ [Next]_vars => [A]_vars
  BY <1>1
<1>3. QED BY <1>2, Inductive, PTL DEF Spec, FilesStayPut

-----------------------------------------------------------------------------
(* Removals run down *)

\* What every call on the stack has still to visit, the call itself counted: a
\* vector as long as the stack is deep.
Left(stack) ==
  [i \in 1 .. MaxDepth |-> IF i <= Len(stack) THEN Len(stack[i].todo) + 1 ELSE 0]

\* Such vectors in the order of the outermost call in which they differ.
LowerThan(u, v) == \E i \in 1 .. MaxDepth : u[i] < v[i] /\ \A j \in 1 .. i - 1 : u[j] = v[j]

\* A vector is of natural numbers.
LEMMA LeftType ==
  ASSUME NEW s \in Seq(Call)
  PROVE  Left(s) \in [1 .. MaxDepth -> Nat]
<1>1. ASSUME NEW i \in 1 .. MaxDepth, i <= Len(s) PROVE Len(s[i].todo) + 1 \in Nat
  <2>1. MaxDepth \in Nat /\ Len(s) \in Nat
    BY Numbers, LenProperties
  <2>2. i \in 1 .. Len(s)
    BY <1>1, <2>1
  <2>3. s[i] \in Call
    BY <2>2, ElementOfSeq
  <2>4. s[i].todo \in Seq(Entry)
    BY <2>3 DEF Call
  <2>5. QED BY <2>4, LenProperties
<1>2. QED BY <1>1 DEF Left

\* The vector is lower when a call has less to visit, or has returned, and the
\* calls around it are as they were.
LEMMA Lowered ==
  ASSUME NEW s \in Seq(Call), Len(s) <= MaxDepth, NEW t \in Seq(Call),
         NEW i \in 1 .. Len(s), i <= Len(t) => Len(t[i].todo) < Len(s[i].todo),
         \A j \in 1 .. i - 1 : j <= Len(t) /\ t[j] = s[j]
  PROVE  LowerThan(Left(t), Left(s))
<1>1. MaxDepth \in Nat /\ Len(s) \in Nat /\ Len(t) \in Nat
  BY Numbers, LenProperties
<1>2. i \in 1 .. MaxDepth /\ i <= Len(s)
  BY <1>1
<1>3. \A j \in 1 .. i - 1 : j \in 1 .. MaxDepth /\ j <= Len(s)
  BY <1>1, <1>2
<1>4. Left(s)[i] = Len(s[i].todo) + 1 /\ Left(s)[i] \in Nat /\ Left(t)[i] \in Nat
  BY <1>2, LeftType DEF Left
<1>5. Left(t)[i] = IF i <= Len(t) THEN Len(t[i].todo) + 1 ELSE 0
  BY <1>2 DEF Left
<1>6. Left(t)[i] < Left(s)[i]
  <2>1. Len(s[i].todo) \in Nat
    <3>1. s[i] \in Call
      BY ElementOfSeq
    <3>2. s[i].todo \in Seq(Entry)
      BY <3>1 DEF Call
    <3>3. QED BY <3>2, LenProperties
  <2>2. CASE i <= Len(t)
    <3>1. t[i] \in Call
      <4>1. i \in 1 .. Len(t)
        BY <1>1, <1>2, <2>2
      <4>2. QED BY <4>1, ElementOfSeq
    <3>2. t[i].todo \in Seq(Entry)
      BY <3>1 DEF Call
    <3>3. Len(t[i].todo) \in Nat
      BY <3>2, LenProperties
    <3>4. QED BY <1>4, <1>5, <2>1, <2>2, <3>3
  <2>3. CASE ~ (i <= Len(t))
    BY <1>4, <1>5, <2>1, <2>3
  <2>4. QED BY <2>2, <2>3
<1>7. \A j \in 1 .. i - 1 : Left(t)[j] = Left(s)[j]
  BY <1>3 DEF Left
<1>8. QED BY <1>2, <1>6, <1>7 DEF LowerThan

\* One step later in its loop the innermost call has less to visit.
LEMMA LoopGoesOn ==
  ASSUME IInv, removing # <<>>, Innermost.todo # <<>>
  PROVE  /\ Visited \in Seq(Call) /\ Len(Visited) = Len(removing) /\ Len(removing) \in Nat \ {0}
         /\ Len(Visited[Len(removing)].todo) < Len(removing[Len(removing)].todo)
         /\ \A j \in 1 .. Len(removing) - 1 : Visited[j] = removing[j]
<1> DEFINE n == Len(removing)
           c == [Innermost EXCEPT !.todo = Tail(@)]
           f == Front(removing)
<1>1. /\ Innermost \in Call /\ f \in Seq(Call) /\ Len(f) = n - 1 /\ n \in Nat \ {0}
      /\ \A j \in 1 .. n - 1 : f[j] = removing[j]
  BY Inner DEF IInv, SafeStack
<1>2. Innermost = removing[n]
  BY DEF Innermost, Last
<1>3. /\ Innermost.todo \in Seq(Entry) /\ Len(Innermost.todo) \in Nat \ {0}
      /\ Tail(Innermost.todo) \in Seq(Entry) /\ Len(Tail(Innermost.todo)) = Len(Innermost.todo) - 1
  <2>1. Innermost.todo \in Seq(Entry)
    BY <1>1 DEF Call
  <2>2. QED BY <2>1, EmptySeq, HeadTailProperties
<1>4. c \in Call /\ c.todo = Tail(Innermost.todo)
  BY <1>1, <1>3 DEF Call
<1>5. Visited = Append(f, c)
  BY DEF Visited
<1> HIDE DEF f, c
<1>6. /\ Visited \in Seq(Call) /\ Len(Visited) = n /\ Visited[n] = c
      /\ \A j \in 1 .. n - 1 : Visited[j] = f[j]
  <2>1. /\ Append(f, c) \in Seq(Call) /\ Len(Append(f, c)) = Len(f) + 1
        /\ Append(f, c)[Len(f) + 1] = c /\ \A j \in 1 .. Len(f) : Append(f, c)[j] = f[j]
    BY <1>1, <1>4, AppendProperties
  <2>2. Len(f) + 1 = n
    BY <1>1
  <2>3. QED BY <1>1, <1>5, <2>1, <2>2
<1>7. Len(Visited[n].todo) < Len(removing[n].todo)
  <2>1. Len(Tail(Innermost.todo)) < Len(Innermost.todo)
    <3> DEFINE k == Len(Innermost.todo)
    <3>1. k \in Nat /\ Len(Tail(Innermost.todo)) = k - 1
      BY <1>3
    <3> HIDE DEF k
    <3>2. Len(Tail(Innermost.todo)) < k
      BY <3>1
    <3>3. QED BY <3>2 DEF k
  <2>2. Visited[n].todo = Tail(Innermost.todo) /\ removing[n].todo = Innermost.todo
    BY <1>2, <1>4, <1>6
  <2>3. QED BY <2>1, <2>2
<1>8. QED BY <1>1, <1>6, <1>7

\* Whatever is done while a removal is under way, its stack runs down.
LEMMA Lowering ==
  ASSUME IInv, Next, removing # <<>>
  PROVE  LowerThan(Left(removing'), Left(removing))
<1> DEFINE n == Len(removing)
<1>1. /\ removing \in Seq(Call) /\ n <= MaxDepth /\ removing' \in Seq(Call)
      /\ n \in Nat \ {0} /\ Front(removing) \in Seq(Call) /\ Len(Front(removing)) = n - 1
      /\ \A j \in 1 .. n - 1 : Front(removing)[j] = removing[j]
  <2>1. IInv'
    BY EveryStep
  <2>2. QED BY <2>1, Inner DEF IInv, Stack, SafeStack
<1>2. making = None /\ ~ Idle
  BY DEF IInv, Making, Idle
<1>3. CASE removing' = <<>>
  <2>1. 1 \in 1 .. n /\ Len(<<>>) = 0
    BY <1>1
  <2>2. \A j \in 1 .. 1 - 1 : j <= Len(removing') /\ removing'[j] = removing[j]
    OBVIOUS
  <2>3. 1 <= Len(removing') => Len(removing'[1].todo) < Len(removing[1].todo)
    BY <1>3, <2>1
  <2>4. QED BY <1>1, <2>1, <2>2, <2>3, Lowered
<1>4. CASE EndRemove
  <2>1. removing' = Front(removing)
    BY <1>4 DEF EndRemove
  <2>2. n \in 1 .. n /\ (n <= Len(removing') => Len(removing'[n].todo) < Len(removing[n].todo))
    BY <1>1, <2>1
  <2>3. \A j \in 1 .. n - 1 : j <= Len(removing') /\ removing'[j] = removing[j]
    BY <1>1, <2>1
  <2>4. QED BY <1>1, <2>2, <2>3, Lowered
<1>5. CASE Innermost.todo # <<>> /\ removing' = Visited
  <2>1. n \in 1 .. n /\ (n <= Len(removing') => Len(removing'[n].todo) < Len(removing[n].todo))
        /\ \A j \in 1 .. n - 1 : j <= Len(removing') /\ removing'[j] = removing[j]
    BY <1>1, <1>5, LoopGoesOn
  <2>2. QED BY <1>1, <2>1, Lowered
<1>6. CASE Innermost.todo # <<>> /\ \E c \in Call : removing' = Append(Visited, c)
  <2>1. PICK c \in Call : removing' = Append(Visited, c)
    BY <1>6
  <2>2. /\ Visited \in Seq(Call) /\ Len(Visited) = n
        /\ Len(Visited[n].todo) < Len(removing[n].todo)
        /\ \A j \in 1 .. n - 1 : Visited[j] = removing[j]
    BY <1>6, LoopGoesOn
  <2>3. Len(removing') = n + 1 /\ \A j \in 1 .. n : removing'[j] = Visited[j]
    <3>1. Len(Append(Visited, c)) = Len(Visited) + 1
          /\ \A j \in 1 .. Len(Visited) : Append(Visited, c)[j] = Visited[j]
      BY <2>2, AppendProperties
    <3>2. QED BY <2>1, <2>2, <3>1
  <2>4. n \in 1 .. n /\ (n <= Len(removing') => Len(removing'[n].todo) < Len(removing[n].todo))
        /\ \A j \in 1 .. n - 1 : j <= Len(removing') /\ removing'[j] = removing[j]
    BY <1>1, <2>2, <2>3
  <2>5. QED BY <1>1, <2>4, Lowered
<1>7. CASE RemoveFile
  BY <1>5, <1>7 DEF RemoveFile, AtEntry
<1>8. CASE RemoveSubdir
  <2> DEFINE e == Head(Innermost.todo)
  <2>1. /\ Innermost.todo # <<>> /\ e.type = "dir"
        /\ IF e.loc = RootLoc THEN removing' = Visited
           ELSE \E c \in Calls(e.loc) : removing' = Append(Visited, c)
    BY <1>8 DEF RemoveSubdir, AtEntry
  <2>2. CASE e.loc = RootLoc
    BY <1>5, <2>1, <2>2
  <2>3. CASE e.loc # RootLoc
    <3>1. PICK c \in Calls(e.loc) : removing' = Append(Visited, c)
      BY <2>1, <2>3
    <3>2. SafeEntry(e, dirs, next)
      BY <2>1, Visiting
    <3> HIDE DEF e
    <3>3. e.loc \in Locs \cup {0} /\ e.loc < next /\ e.loc \notin Lost(dirs)
      BY <2>1, <3>2 DEF SafeEntry, EntryOK, Entry
    <3>4. Sound(dirs, next) /\ next \in Nat \ {0, 1}
      BY NextIsNat DEF IInv
    <3>5. c \in Call
      BY <2>3, <3>1, <3>3, <3>4, CallsSafe
    <3>6. QED BY <1>6, <2>1, <3>1, <3>5
  <2>4. QED BY <2>2, <2>3
<1>9. StackOverflow \/ Crash => removing' = <<>>
  BY DEF StackOverflow, Crash
<1>10. EndRemove \/ RemoveFile \/ RemoveSubdir \/ StackOverflow \/ Crash
  <2>1. ~ WriteNewDir
    BY <1>2 DEF WriteNewDir
  <2>2. ~ Restart
    BY <1>2 DEF Restart
  <2>3. \A t : ~ fs_mkdir(t) /\ ~ b_open(t) /\ ~ cmd_rm(t) /\ ~ fs_rmdir(t) /\ ~ fs_setcwd(t)
    BY <1>2 DEF fs_mkdir, b_open, cmd_rm, fs_rmdir, fs_setcwd
  <2>4. \A a, b : ~ b_move(a, b)
    BY <1>2 DEF b_move
  <2>5. QED BY <2>1, <2>2, <2>3, <2>4 DEF Next, Proceed
<1>11. QED BY <1>3, <1>4, <1>7, <1>8, <1>9, <1>10

\* A removal never goes round in a circle, not even where mv has put a directory
\* below itself: every step taken while it is under way lowers the vector of
\* what its calls have still to visit, in an order in which no vector can be
\* lowered for ever.
THEOREM RemovalRunsDown ==
  Spec => [][removing # <<>> =>
               /\ Left(removing) \in [1 .. MaxDepth -> Nat]
               /\ LowerThan(Left(removing'), Left(removing))]_vars
<1> DEFINE A == removing # <<>> =>
                  /\ Left(removing) \in [1 .. MaxDepth -> Nat]
                  /\ LowerThan(Left(removing'), Left(removing))
<1>1. ASSUME IInv, Next PROVE A
  <2> SUFFICES ASSUME removing # <<>>
               PROVE  /\ Left(removing) \in [1 .. MaxDepth -> Nat]
                      /\ LowerThan(Left(removing'), Left(removing))
    OBVIOUS
  <2>1. removing \in Seq(Call)
    BY <1>1 DEF IInv, Stack
  <2>2. QED BY <1>1, <2>1, LeftType, Lowering
<1> HIDE DEF A
<1>2. IInv /\ [Next]_vars => [A]_vars
  BY <1>1
<1>3. Spec => [][A]_vars
  BY <1>2, Inductive, PTL DEF Spec
<1>4. QED BY <1>3 DEF A
=============================================================================
