----------------------------- MODULE CommandLine -----------------------------
(***************************************************************************)
(* How the shell cuts a line into arguments (fsshell.c, processcommand):   *)
(* in place, with one end of a string for each gap, quotes and escapes     *)
(* kept.  One action per turn of the loop.  Characters count from 1 here   *)
(* and from 0 in the code; a text is a sequence of characters, and a nul   *)
(* ends the string in front of it.                                         *)
(***************************************************************************)
EXTENDS Integers, Sequences

CONSTANTS
  Letters,   \* characters that mean nothing to the shell
  MaxLine    \* bound: the length of a line

Space  == " "
Escape == "\\"
Quotes == {"\"", "'"}
Nul    == "0"
None   == "none"
Typed  == Letters \cup {Space, Escape} \cup Quotes
Lines  == UNION {[1 .. n -> Typed] : n \in 1 .. MaxLine}

ASSUME CommandLineAssumption ==
  /\ MaxLine \in Nat
  /\ Letters \cap ({Space, Escape, Nul} \cup Quotes) = {}

VARIABLES
  pc,     \* "prompt", "scan" within the loop, or how the loop has ended
  line,   \* history: the line as it was typed
  cmd,    \* the line as the loop has changed it
  i,      \* where the loop is, or the loop within it that looks for a quote
  quote,  \* the quote that loop looks for, None outside of it
  cmdv    \* where the arguments begin

vars == <<pc, line, cmd, i, quote, cmdv>>

cmdLen == Len(line)

\* The vector has room for so many pointers.
Room == cmdLen \div 2 + 2

\* Mutant: only one space is passed over.
mut_GapEnd == i

\* The last of the spaces from i on.
GapEnd ==
  CHOOSE j \in i .. cmdLen :
    (\A k \in i + 1 .. j : cmd[k] = Space) /\ (j < cmdLen => cmd[j + 1] # Space)

-----------------------------------------------------------------------------

\* main: a line that is not empty.
ReadLine ==
  /\ pc = "prompt"
  /\ \E text \in Lines : line' = text /\ cmd' = text
  /\ i' = 1 /\ quote' = None /\ cmdv' = <<1>> /\ pc' = "scan"

\* The loop is in front of the character c.
At(c) == pc = "scan" /\ i <= cmdLen /\ cmd[i] = c

\* Mutant: an argument begins behind the last gap, although nothing is there.
mut_Gap ==
  /\ At(Space) /\ quote = None
  /\ cmd' = [cmd EXCEPT ![i] = Nul]
  /\ cmdv' = Append(cmdv, GapEnd + 1)
  /\ i' = GapEnd + 1
  /\ UNCHANGED <<pc, line, quote>>

\* The first space of a gap ends the argument in front of it.
Gap ==
  /\ At(Space) /\ quote = None
  /\ cmd' = [cmd EXCEPT ![i] = Nul]
  /\ cmdv' = IF GapEnd < cmdLen THEN Append(cmdv, GapEnd + 1) ELSE cmdv
  /\ i' = GapEnd + 1
  /\ UNCHANGED <<pc, line, quote>>

\* Mutant: the character behind an escape is not skipped.
mut_Escaped == At(Escape) /\ i' = i + 1 /\ UNCHANGED <<pc, line, cmd, quote, cmdv>>

\* In a quotation and outside of it.
Escaped == At(Escape) /\ i' = i + 2 /\ UNCHANGED <<pc, line, cmd, quote, cmdv>>

\* The quote that begins a quotation, or ends it.
Quote ==
  /\ \E q \in Quotes :
       /\ At(q) /\ quote \in {None, q}
       /\ quote' = IF quote = None THEN q ELSE None
  /\ i' = i + 1
  /\ UNCHANGED <<pc, line, cmd, cmdv>>

\* Letters, and in a quotation spaces and the other quote.
Other ==
  /\ \/ \E c \in Letters : At(c)
     \/ \E c \in {Space} \cup Quotes : At(c) /\ quote \notin {None, c}
  /\ i' = i + 1
  /\ UNCHANGED <<pc, line, cmd, quote, cmdv>>

\* The vector is ended by a null pointer, and the command called.  A line that
\* ends in a quotation is given up.
Dispatch ==
  /\ pc = "scan" /\ i > cmdLen
  /\ pc' = IF quote = None THEN "dispatch" ELSE "unterminated"
  /\ UNCHANGED <<line, cmd, i, quote, cmdv>>

\* The command has returned, whatever it was.
Return ==
  /\ pc \in {"dispatch", "unterminated"}
  /\ pc' = "prompt" /\ line' = <<>> /\ cmd' = <<>> /\ i' = 0 /\ quote' = None /\ cmdv' = <<>>

Init ==
  pc = "prompt" /\ line = <<>> /\ cmd = <<>> /\ i = 0 /\ quote = None /\ cmdv = <<>>

Scan == Gap \/ Escaped \/ Quote \/ Other \/ Dispatch

Next == ReadLine \/ Scan \/ Return

Spec == Init /\ [][Next]_vars

-----------------------------------------------------------------------------
(* Properties *)

\* Every variable has its type.
TypeOK ==
  /\ pc \in {"prompt", "scan", "dispatch", "unterminated"}
  /\ line \in Lines \cup {<<>>}
  /\ DOMAIN cmd = DOMAIN line /\ \A k \in DOMAIN cmd : cmd[k] \in {line[k], Nul}
  /\ i \in 0 .. cmdLen + 2
  /\ quote \in Quotes \cup {None}
  /\ cmdv \in Seq(DOMAIN cmd)

\* The vector has room for every argument and the null pointer behind the last:
\* with half the characters of the line, one and one more.
VectorFits == Len(cmdv) + 1 <= Room

\* What stands in front of a character, by a reading of the line from its
\* start: a quote that is open, or None, and whether an escape is pending.
Reading ==
  LET after(r, c) ==
        CASE r.escaped                          -> [r EXCEPT !.escaped = FALSE]
          [] ~r.escaped /\ c = Escape           -> [r EXCEPT !.escaped = TRUE]
          [] ~r.escaped /\ c \in Quotes /\ r.quote = None -> [r EXCEPT !.quote = c]
          [] ~r.escaped /\ c = r.quote          -> [r EXCEPT !.quote = None]
          [] OTHER                              -> r
      read[k \in 0 .. cmdLen] ==
        IF k = 0 THEN [quote |-> None, escaped |-> FALSE] ELSE after(read[k - 1], line[k])
  IN  read

\* The characters that part words: spaces neither quoted nor escaped.
Parts(k) == line[k] = Space /\ Reading[k - 1] = [quote |-> None, escaped |-> FALSE]

Words ==
  {w \in (1 .. cmdLen) \X (1 .. cmdLen) :
     /\ w[1] <= w[2] /\ \A k \in w[1] .. w[2] : ~Parts(k)
     /\ w[1] = 1 \/ Parts(w[1] - 1)
     /\ w[2] = cmdLen \/ Parts(w[2] + 1)}

\* The string that begins at a place in the line, up to its end.
String(a) ==
  LET ends == {k \in a .. cmdLen : cmd[k] = Nul}
  IN  <<a, IF ends = {} THEN cmdLen ELSE (CHOOSE k \in ends : \A m \in ends : k <= m) - 1>>

\* A line is given up exactly when a quote is left open in it.  Otherwise the
\* arguments the command is called with are the words of the line, each once
\* and in their order, with an empty string in front of them when the line
\* begins with a space: quotes and escapes of either kind keep words together.
ArgumentsAreWords ==
  /\ pc = "unterminated" => Reading[cmdLen].quote # None
  /\ pc = "dispatch" =>
       /\ Reading[cmdLen].quote = None
       /\ {String(cmdv[k]) : k \in DOMAIN cmdv} =
            Words \cup (IF Parts(1) THEN {<<1, 0>>} ELSE {})
       /\ \A k \in 1 .. Len(cmdv) - 1 : cmdv[k] < cmdv[k + 1]
=============================================================================
