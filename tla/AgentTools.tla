----------------------------- MODULE AgentTools -----------------------------
(* What the agent gets to see of a file and of a command's output: the     *)
(* tools read and bash of packages/agent/src/tools/sandbox.ts over the     *)
(* truncation of truncate.ts.  A long file is read in several calls, each  *)
(* naming the offset of the next, while a command left in the background   *)
(* may go on appending to it.                                              *)
(*                                                                         *)
(* A text is the sequence of its lines, a line the sequence of the widths  *)
(* in bytes of its characters.  The empty text has one line, the empty     *)
(* one, as "".split("\n") has.                                             *)
EXTENDS Integers, Sequences, SequencesExt

CONSTANTS
  MaxLines,    \* DEFAULT_MAX_LINES
  MaxBytes,    \* DEFAULT_MAX_BYTES
  Limit,       \* the limits an agent asks a read for
  NoLimit,
  Line,        \* the lines that texts are made of
  MaxFile,     \* bound: lines of the file
  MaxFail      \* bound: commands of the sandbox that fail under a read

ToolsAssumption ==
  /\ MaxLines \in Nat \ {0} /\ MaxBytes \in Nat \ {0}
  /\ Limit \subseteq Nat \ {0} /\ NoLimit \notin Limit
  /\ <<>> \in Line /\ Line \subseteq Seq(Nat \ {0})
  /\ MaxFile \in Nat \ {0} /\ MaxFail \in Nat

VARIABLES
  file,        \* the file's lines
  call,        \* the read under way, between wc and cat, or Idle
  next,        \* the offset the agent goes on with
  got,         \* the lines the agent has read so far
  reading,     \* "on", or how the reading ended
  shown,       \* the last result of a tool
  fails

vars == <<file, call, next, got, reading, shown, fails>>

-----------------------------------------------------------------------------
(* truncate.ts.                                                            *)

AddUp(numbers) ==
  LET upTo[i \in 0 .. Len(numbers)] == IF i = 0 THEN 0 ELSE upTo[i - 1] + numbers[i]
  IN  upTo[Len(numbers)]

Bytes(line) == AddUp(line)

\* Buffer.byteLength of the lines joined by newlines.
Size(lines) ==
  IF lines = <<>> THEN 0
  ELSE AddUp([i \in 1 .. Len(lines) |-> Bytes(lines[i])]) + Len(lines) - 1

\* The loop of both functions: lines are taken until one limit is reached, each
\* but the first with its newline.
TakeNoNewline(taken, line) ==
  LET bytes == taken.bytes + Bytes(line)
  IN  CASE taken.full \/ taken.n >= MaxLines -> taken
        [] ~(taken.full \/ taken.n >= MaxLines) /\ bytes > MaxBytes ->
             [taken EXCEPT !.full = TRUE]
        [] OTHER -> [n |-> taken.n + 1, bytes |-> bytes, full |-> FALSE]

Take(taken, line) ==
  LET bytes == taken.bytes + Bytes(line) + IF taken.n > 0 THEN 1 ELSE 0
  IN  CASE taken.full \/ taken.n >= MaxLines -> taken
        [] ~(taken.full \/ taken.n >= MaxLines) /\ bytes > MaxBytes ->
             [taken EXCEPT !.full = TRUE]
        [] OTHER -> [n |-> taken.n + 1, bytes |-> bytes, full |-> FALSE]

Taken(lines) ==
  LET upTo[i \in 0 .. Len(lines)] ==
        IF i = 0 THEN [n |-> 0, bytes |-> 0, full |-> FALSE] ELSE Take(upTo[i - 1], lines[i])
  IN  upTo[Len(lines)]

Whole(lines) == Len(lines) <= MaxLines /\ Size(lines) <= MaxBytes

Result(content, by, partial, tooLong) ==
  [content |-> content, by |-> by, partial |-> partial, tooLong |-> tooLong]

By(taken) == IF taken.full THEN "bytes" ELSE "lines"

truncateHead(lines) ==
  LET taken == Taken(lines)
  IN  CASE Whole(lines) -> Result(lines, "none", FALSE, FALSE)
        [] ~Whole(lines) /\ Bytes(lines[1]) > MaxBytes ->
             Result(<<>>, "bytes", FALSE, TRUE)
        [] OTHER -> Result(SubSeq(lines, 1, taken.n), By(taken), FALSE, FALSE)

\* The end of a line, from the first character that begins within the limit.
truncateStringToBytesFromEnd(line) ==
  LET i == CHOOSE j \in 1 .. Len(line) + 1 :
             /\ Bytes(SubSeq(line, j, Len(line))) <= MaxBytes
             /\ j > 1 => Bytes(SubSeq(line, j - 1, Len(line))) > MaxBytes
  IN  SubSeq(line, i, Len(line))

truncateTail(lines) ==
  LET taken == Taken(Reverse(lines))
  IN  CASE Whole(lines) -> Result(lines, "none", FALSE, FALSE)
        [] ~Whole(lines) /\ taken.n = 0 ->
             Result(<<truncateStringToBytesFromEnd(Last(lines))>>, "bytes", TRUE, FALSE)
        [] OTHER ->
             Result(SubSeq(lines, Len(lines) - taken.n + 1, Len(lines)), By(taken),
                    FALSE, FALSE)

-----------------------------------------------------------------------------
(* The file, and what the commands of the sandbox answer.                  *)

Text(n) == UNION {[1 .. k -> Line] : k \in 1 .. n}
Empty == << <<>> >>

\* wc -l counts newlines, one less than there are lines, and read adds one.
Total(lines) == Len(lines)

\* cat, or tail -n +start.
From(start) == IF start > Len(file) THEN Empty ELSE SubSeq(file, start, Len(file))

Idle == [at |-> "idle"]

Init ==
  /\ file \in Text(MaxFile)
  /\ call = Idle /\ next = 1 /\ got = <<>> /\ reading = "on"
  /\ shown = [tool |-> "none"] /\ fails = 0

-----------------------------------------------------------------------------
(* read (sandbox.ts).                                                      *)

\* The offset named after n lines shown from start: endLineDisplay + 1.
NextOffsetSkips(start, n) == start + n + 1
NextOffsetStays(start, n) == start
NextOffset(start, n) == start + n

\* Whether the caller's limit left lines of the file out.
RemainOffByOne(c, n) == c.start + n < c.total
Remain(c, n) == c.start - 1 + n < c.total

\* Where a read leaves the reading.
OutcomeIgnoresLong(t, goesOn) == IF goesOn THEN "on" ELSE "end"
Outcome(t, goesOn) == IF t.tooLong THEN "long" ELSE IF goesOn THEN "on" ELSE "end"

\* wc -l, and the check of the offset, which throws.
Count ==
  /\ call = Idle /\ reading = "on"
  /\ IF next > Total(file)
     THEN reading' = "beyond" /\ UNCHANGED call
     ELSE /\ \E limit \in Limit \union {NoLimit} :
               call' = [at |-> "counted", start |-> next, limit |-> limit,
                        total |-> Total(file)]
          /\ UNCHANGED reading
  /\ UNCHANGED <<file, next, got, shown, fails>>

\* The lines, cut to the caller's limit and then truncated; a notice names the
\* offset to go on with.
Show ==
  /\ call.at = "counted"
  /\ LET all      == From(call.start)
         limited  == call.limit # NoLimit /\ call.limit < Len(all)
         selected == IF limited THEN SubSeq(all, 1, call.limit) ELSE all
         t        == truncateHead(selected)
         goesOn   == t.by # "none" \/ (call.limit # NoLimit /\ Remain(call, Len(selected)))
     IN  /\ shown' = [tool |-> "read", lines |-> selected, result |-> t]
         /\ got' = got \o t.content
         /\ reading' = Outcome(t, goesOn)
         /\ next' = IF reading' = "on" THEN NextOffset(call.start, Len(t.content)) ELSE next
  /\ call' = Idle
  /\ UNCHANGED <<file, fails>>

Fail ==
  /\ call.at = "counted" /\ fails < MaxFail
  /\ fails' = fails + 1
  /\ call' = Idle
  /\ UNCHANGED <<file, next, got, reading, shown>>

\* A command in the background goes on with the file's last line, or ends it.
Grow ==
  /\ \/ \E more \in Line \ {<<>>} :
          /\ Last(file) \o more \in Line
          /\ file' = [file EXCEPT ![Len(file)] = @ \o more]
     \/ Len(file) < MaxFile /\ file' = Append(file, <<>>)
  /\ UNCHANGED <<call, next, got, reading, shown, fails>>

-----------------------------------------------------------------------------
(* bash (sandbox.ts).                                                      *)

Joined(out, err) ==
  IF out = Empty THEN err ELSE IF err = Empty THEN out ELSE out \o err

\* A command that prints the file, and may complain of something.  The executor
\* of Daytona has one stream, and returns it as both when the command fails.
Bash ==
  /\ call = Idle
  /\ \E err \in Text(1) \union {file} :
       LET output == Joined(file, err)
       IN  shown' = [tool |-> "bash", lines |-> output, result |-> truncateTail(output)]
  /\ UNCHANGED <<file, call, next, got, reading, fails>>

-----------------------------------------------------------------------------
Next == Count \/ Show \/ Fail \/ Grow \/ Bash

Spec == Init /\ [][Next]_vars

-----------------------------------------------------------------------------
(* Properties.                                                             *)

\* The state has its shape.  (sandbox.ts)
TypeOK ==
  /\ file \in Text(MaxFile)
  /\ call = Idle \/ (/\ call.at = "counted" /\ call.start \in 1 .. call.total
                     /\ call.limit \in Limit \union {NoLimit}
                     /\ call.total \in 1 .. MaxFile)
  /\ next \in 1 .. MaxFile
  /\ Len(got) <= MaxFile
  /\ reading \in {"on", "end", "long", "beyond"}
  /\ shown.tool \in {"none", "read", "bash"}
  /\ fails \in 0 .. MaxFail

\* What an agent reads by following the offsets is the file, each line once:
\* neither a limit, a truncation, a call repeated nor a file that grows in the
\* meantime loses a line or shows one twice.  The very last line may have grown
\* since.  (read)
NoLineLost ==
  /\ Len(got) <= Len(file)
  /\ \A i \in 1 .. Len(got) :
       \/ got[i] = file[i]
       \/ i = Len(got) /\ reading # "on" /\ IsPrefix(got[i], file[i])

\* A read never sends the agent to an offset the next one refuses.  (read)
OffsetExists == reading # "beyond"

\* A reading that ended without a notice got to the end of the file the last
\* call counted.  (read)
EndIsReached == call # Idle /\ reading' = "end" => Len(got') >= call.total

\* What a tool shows keeps to both limits, and one more line would not: the end
\* of a command's output, the beginning of a file, and whole lines unless the
\* output's last line does not fit by itself.  (truncateHead, truncateTail)
AsMuchAsFits ==
  LET t == shown.result
      n == Len(t.content)
      all == shown.lines
      head == shown.tool = "read"
      more == IF head THEN SubSeq(all, 1, n + 1) ELSE SubSeq(all, Len(all) - n, Len(all))
  IN  shown.tool # "none" =>
        /\ n <= MaxLines /\ Size(t.content) <= MaxBytes
        /\ ~t.partial => IF head THEN IsPrefix(t.content, all) ELSE IsSuffix(t.content, all)
        /\ t.partial => IsSuffix(t.content[1], Last(all)) /\ Bytes(Last(all)) > MaxBytes
        /\ n < Len(all) /\ ~t.partial => ~Whole(more)
        /\ t.by = "lines" => n = MaxLines

\* A read that answers and names an offset to go on with has moved on, so that
\* following the offsets gets through any file.  (read)
Advances == call # Idle /\ call' = Idle /\ fails' = fails /\ reading' = "on" => next' > next

\* Following the offsets reads the file, as much at a time as fits.  (read)
ReadsOn == EndIsReached /\ Advances /\ (NoLineLost /\ OffsetExists /\ AsMuchAsFits)'
=============================================================================
