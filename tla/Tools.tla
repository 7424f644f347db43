---------------------------------- MODULE Tools ----------------------------------
(***************************************************************************)
(* The tools that page through files and search results, and the retried   *)
(* shell command (packages/runtime/src/bridge/tools.ts, infra/retry.ts).   *)
(*                                                                         *)
(* file_read and grep answer with one page and a footer that names the     *)
(* offset of the next.  A model that follows the footers should see all    *)
(* there is.  Of a line the model keeps its length, of a search result     *)
(* whether it lies in a sensitive file.                                    *)
(***************************************************************************)
EXTENDS Integers, Sequences, FiniteSets, Functions

CONSTANTS
  MaxReadLines,  \* MAX_READ_LINES
  MaxReadBytes,  \* MAX_READ_BYTES
  HeadLimit,     \* head_limit of grep
  MaxLines,      \* bound: the lines of the file or of the search result
  Sizes,         \* bound: the lengths of lines, line number and newline included
  MaxAttempts    \* maxAttempts of the shell command

ASSUME ToolsAssumption ==
  /\ {MaxReadLines, HeadLimit, MaxAttempts} \subseteq Nat \ {0}
  /\ MaxReadBytes \in Nat /\ MaxLines \in Nat
  /\ Sizes \subseteq Nat \ {0}

VARIABLES
  tool,      \* the tool that is called: file_read, grep or bash
  lines,     \* the lengths of the lines; for grep, 0 for a result in a sensitive file
  offset,    \* the offset of the next page
  shown,     \* history: the numbers of the lines shown so far
  attempt,   \* the attempt of withRetry
  command    \* what the shell command does

toolVars == <<tool, lines, offset, shown, attempt, command>>

Smaller(a, b) == IF a <= b THEN a ELSE b

\* A page lists its lines in order.
Page(S) ==
  [n \in 1 .. Cardinality(S) |-> CHOOSE i \in S : Cardinality({j \in S : j < i}) = n - 1]

\* The bytes of the lines first to last.
Bytes(first, last) ==
  LET sum[i \in first - 1 .. Len(lines)] == IF i < first THEN 0 ELSE sum[i - 1] + lines[i]
  IN  sum[last]

\* The last line of the slice, and of what is left of it when the slice is too long.
SliceEnd == Smaller(offset - 1 + MaxReadLines, Len(lines))

MayEnd(e) ==
  Bytes(offset, e) <= MaxReadBytes /\ (e < SliceEnd => Bytes(offset, e + 1) > MaxReadBytes)

CutEnd ==
  IF Bytes(offset, SliceEnd) - 1 <= MaxReadBytes
  THEN SliceEnd ELSE CHOOSE e \in offset - 1 .. SliceEnd : MayEnd(e)

\* Mutant: the footer counts the lines before the cut.
OfSlice == SliceEnd - offset + 1

\* displayed: an empty text, too, splits into one line.
Displayed == IF CutEnd < offset THEN 1 ELSE CutEnd - offset + 1

\* shouldRetry for the errors of a command: one that says it timed out or lost the network.
Transient(failure) == failure = "transient"

Exhausted == attempt >= MaxAttempts

-----------------------------------------------------------------------------
ToolsInit ==
  /\ tool \in {"file_read", "grep", "bash"}
  /\ \E n \in 0 .. MaxLines :
       lines \in [1 .. n -> IF tool = "grep" THEN {0, 1}
                            ELSE IF tool = "file_read" THEN Sizes ELSE {1}]
  /\ offset = 1
  /\ shown = <<>>
  /\ attempt = 0 /\ command = "ready"

\* file_read from the offset of the last footer, while the footer says there is more.
ReadPage ==
  /\ tool = "file_read" /\ offset <= Len(lines)
  /\ shown' = shown \o Page(offset .. CutEnd)
  /\ offset' = offset + Displayed
  /\ UNCHANGED <<tool, lines, attempt, command>>

\* grep: the page is cut first, the sensitive results are taken out of it afterwards.
GrepPage ==
  /\ tool = "grep" /\ offset <= Len(lines)
  /\ shown' = shown \o Page({i \in offset .. Smaller(offset - 1 + HeadLimit, Len(lines)) :
                              lines[i] > 0})
  /\ offset' = offset + HeadLimit
  /\ UNCHANGED <<tool, lines, attempt, command>>

\* withRetry begins an attempt.
RunCommand ==
  /\ tool = "bash" /\ command \in {"ready", "waiting"}
  /\ attempt' = attempt + 1 /\ command' = "running"
  /\ UNCHANGED <<tool, lines, offset, shown>>

CommandSucceeds ==
  /\ command = "running"
  /\ command' = "succeeded"
  /\ UNCHANGED <<tool, lines, offset, shown, attempt>>

\* The command fails, and is tried again after a pause if the failure looks transient.
CommandFails(failure) ==
  /\ command = "running"
  /\ command' = IF Transient(failure) /\ ~Exhausted THEN "waiting" ELSE "failed"
  /\ UNCHANGED <<tool, lines, offset, shown, attempt>>

ToolsNext ==
  \/ ReadPage \/ GrepPage \/ RunCommand \/ CommandSucceeds
  \/ \E failure \in {"transient", "lasting"} : CommandFails(failure)

ToolsSpec == ToolsInit /\ [][ToolsNext]_toolVars
-----------------------------------------------------------------------------
\* Every variable has its type; a command is run MaxAttempts times at most.
ToolsTypeOK ==
  /\ tool \in {"file_read", "grep", "bash"}
  /\ lines \in Seq(Nat) /\ Len(lines) <= MaxLines /\ offset \in Nat \ {0}
  /\ shown \in Seq(1 .. MaxLines)
  /\ attempt \in 0 .. MaxAttempts
  /\ command \in {"ready", "running", "waiting", "succeeded", "failed"}

\* A line the reader may see: no longer than a page, and not in a sensitive file.
Showable(i) == lines[i] > 0 /\ (tool = "file_read" => lines[i] <= MaxReadBytes)

\* Whoever follows the footers has seen each line before the offset once and in order, of
\* those that fit a page or are not in a sensitive file: no page overlaps the one before
\* and none leaves a gap, wherever the caps on lines and bytes cut; and of the sensitive
\* results none is seen (file_read and grep).
PagedOnce ==
  LET past == 1 .. Smaller(offset - 1, Len(lines))
  IN  /\ \A i, j \in DOMAIN shown : i < j => shown[i] < shown[j]
      /\ Range(shown) \subseteq past
      /\ {i \in past : Showable(i)} \subseteq Range(shown)
      /\ tool = "grep" => \A i \in Range(shown) : lines[i] > 0

\* The tools' state is well formed, a command is not run too often, and following the
\* footers shows each line once (file_read, grep and bash).
ToolsInv == ToolsTypeOK /\ PagedOnce
=============================================================================
