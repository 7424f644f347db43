------------------------------------ MODULE Recall ------------------------------------
(***************************************************************************)
(* What a call of the model is reminded of: buildContextBlock              *)
(* (packages/runtime/src/bridge/prompt-assembly.ts) chooses among the      *)
(* Session's recorded turns (packages/core/src/session/context-select.ts)  *)
(* and among the files of the repository (repo-file-index.ts), which are   *)
(* read once, when they are first needed.                                  *)
(*                                                                         *)
(* A text is the set of its words.  The scores are kept as integers: the   *)
(* quotients of the code have their common denominators multiplied out,    *)
(* and ties of its floating-point numbers are those of the quotients.      *)
(***************************************************************************)
EXTENDS Naturals, FiniteSets, SequencesExt

CONSTANTS
  Words,        \* bound: the words
  Texts,        \* bound: the texts of turns
  Long,         \* those of at least four characters
  RepoFiles,    \* bound: the files, numbers in the order of their names
  TokensOf,     \* the words that a file's name is made of
  Inside,       \* the words that occur in a file's name otherwise
  SourceFiles,  \* the files with the extension of a source
  Skipped,      \* those in an ignored directory, of an ignored extension, or too large
  TurnBudget,   \* budget of the turns, ten in the code
  FileBudget,   \* budget of the files, ten in the code
  MaxRecorded   \* bound: the turns on the tape

ASSUME RecallAssumption ==
  /\ IsFiniteSet(Words) /\ Long \subseteq Words /\ Texts \subseteq SUBSET Words
  /\ IsFiniteSet(RepoFiles) /\ RepoFiles \subseteq Nat /\ Skipped \subseteq RepoFiles
  /\ {TokensOf, Inside} \subseteq [RepoFiles -> SUBSET Words]
  /\ TurnBudget \in Nat \ {0} /\ FileBudget \in Nat \ {0} /\ MaxRecorded \in Nat

VARIABLES
  recorded,   \* the turns of the Session on the tape, each the words of it
  onDisk,     \* the files that are there
  scanned,    \* scanned of the index
  indexed,    \* files of the index
  prompt      \* what the latest call was told: the tape's length then, the query, both lists

recallVars == <<recorded, onDisk, scanned, indexed, prompt>>

NoPrompt == [n |-> 0, query |-> {}, turns |-> <<>>, files |-> <<>>]

Shared(k, query) == Cardinality(recorded[k] \cap query)

\* The size of the union in the Jaccard coefficient.
United(k, query) == Cardinality(recorded[k] \cup query)

\* Mutant: the older a turn, the more it is worth.
Ancient(k) == Len(recorded) - k

\* recency times the number of turns: all of them for the latest.
Recent(k) == IF Len(recorded) > 1 THEN k ELSE 1

\* score + recencyBoost of a turn, times ten times the turns, times the union.
Combined(k, query) ==
  10 * Shared(k, query) * Len(recorded) + 3 * Recent(k) * United(k, query)

\* minScore is a twentieth.
Relevant(query) ==
  {k \in DOMAIN recorded :
     2 * Combined(k, query) >= United(k, query) * Len(recorded)}

\* The order of the sort: by score, then the newer first.
Before_(k, j, query) ==
  LET a == Combined(k, query) * United(j, query)
      b == Combined(j, query) * United(k, query)
  IN  a > b \/ (a = b /\ k > j)

\* sort and slice: the first n, or all, by how many come before each.
FirstOf(before, n) ==
  LET all == Cardinality(DOMAIN before)
  IN  [i \in 1 .. (IF all < n THEN all ELSE n) |-> CHOOSE x \in DOMAIN before : before[x] = i - 1]

\* selectRelevantTurns: positions on the tape.  Nothing asked for, the latest in order.
selectRelevantTurns(query) ==
  IF query = {}
  THEN LET first == IF Len(recorded) < TurnBudget THEN 0 ELSE Len(recorded) - TurnBudget
       IN  [i \in 1 .. Len(recorded) - first |-> first + i]
  ELSE LET relevant == Relevant(query)
       IN  FirstOf([k \in relevant |-> Cardinality({j \in relevant : Before_(j, k, query)})],
                   TurnBudget)

\* Ten times the score of a file for a query.
ScoreOf(f, query) ==
  LET tokens == query \cap TokensOf[f]
      inside == (query \cap Inside[f]) \ TokensOf[f]
  IN  (4 * Cardinality(tokens \cap Long) + 2 * Cardinality(tokens \ Long)
         + Cardinality(inside))
        * (IF f \in SourceFiles THEN 6 ELSE 5)

\* The files of the index that score, and their order: by score, then by name.
Hits(files, query) ==
  IF query = {} THEN files \cap SourceFiles ELSE {f \in files : ScoreOf(f, query) > 0}

Precedes(f, g, query) ==
  \/ ScoreOf(f, query) > ScoreOf(g, query)
  \/ ScoreOf(f, query) = ScoreOf(g, query) /\ f < g

\* search of the index that is there after the scan.
search(files, query) ==
  LET hits == Hits(files, query)
  IN  FirstOf([f \in hits |-> Cardinality({g \in hits : Precedes(g, f, query)})], FileBudget)
-----------------------------------------------------------------------------
RecallInit ==
  /\ recorded = <<>>
  /\ onDisk \in SUBSET RepoFiles
  /\ scanned = FALSE /\ indexed = {}
  /\ prompt = NoPrompt

\* A turn of the Session is recorded.
RecordTurn(text) ==
  /\ Len(recorded) < MaxRecorded
  /\ recorded' = Append(recorded, text)
  /\ UNCHANGED <<onDisk, scanned, indexed, prompt>>

\* A file comes or goes.  Left out once the scan is made: nobody looks again.
ChangeFile(f) ==
  /\ ~scanned
  /\ onDisk' = IF f \in onDisk THEN onDisk \ {f} ELSE onDisk \cup {f}
  /\ UNCHANGED <<recorded, scanned, indexed, prompt>>

\* A plugin's hook builds the context: nothing else is looked at.
HookBuilds ==
  /\ prompt' = NoPrompt
  /\ UNCHANGED <<recorded, onDisk, scanned, indexed>>

\* buildContextBlock: the index is scanned when it is asked first.
BuildContext(query) ==
  /\ scanned' = TRUE
  /\ indexed' = IF scanned THEN indexed ELSE onDisk \ Skipped
  /\ prompt' = [n |-> Len(recorded), query |-> query,
                turns |-> selectRelevantTurns(query), files |-> search(indexed', query)]
  /\ UNCHANGED <<recorded, onDisk>>

RecallNext ==
  \/ \E text \in Texts : RecordTurn(text)
  \/ \E query \in SUBSET Words : BuildContext(query)
  \/ \E f \in RepoFiles : ChangeFile(f)
  \/ HookBuilds

RecallSpec == RecallInit /\ [][RecallNext]_recallVars
-----------------------------------------------------------------------------
\* Every variable has its type.
RecallTypeOK ==
  /\ recorded \in Seq(Texts) /\ Len(recorded) <= MaxRecorded
  /\ onDisk \subseteq RepoFiles /\ indexed \subseteq RepoFiles \ Skipped
  /\ scanned \in BOOLEAN
  /\ prompt \in [n : 0 .. Len(recorded), query : SUBSET Words,
                turns : Seq(Nat), files : Seq(RepoFiles)]
  /\ Range(prompt.turns) \subseteq 1 .. prompt.n /\ Len(prompt.turns) <= TurnBudget
  /\ Range(prompt.files) \subseteq indexed /\ Len(prompt.files) <= FileBudget

\* The latest turn is forgotten only for as many turns as there is room for, each of which
\* has a word in common with what is asked (scoreTurn: recency against relevance).
LatestOrBetter ==
  prompt.n > 0 /\ prompt.n \notin Range(prompt.turns) =>
    /\ Len(prompt.turns) = TurnBudget
    /\ \A k \in Range(prompt.turns) : recorded[k] \cap prompt.query # {}

\* Where no turn has to do with what is asked, the latest ones are taken without a gap, and
\* so whole stretches of the conversation are not dropped from its middle
\* (selectRelevantTurns: "Falls back to last-N").
NoGapInFallback ==
  prompt # NoPrompt /\ (\A k \in 1 .. prompt.n : recorded[k] \cap prompt.query = {}) =>
    Range(prompt.turns) = (prompt.n - Len(prompt.turns) + 1) .. prompt.n

\* Of two turns with the same words, the newer is never left out for the older.
NewerOfEquals ==
  \A j, k \in 1 .. prompt.n :
    j < k /\ recorded[j] = recorded[k] /\ j \in Range(prompt.turns) =>
      k \in Range(prompt.turns)

\* A source whose name is made of all the words asked for is left out only for others of
\* that kind (search: weights of tokens and the boost of sources).
FullMatchFirst ==
  LET Full(f) == prompt.query \subseteq TokensOf[f] /\ f \in SourceFiles
  IN  prompt.query # {} =>
        \A f \in indexed :
          Full(f) /\ f \notin Range(prompt.files) =>
            Len(prompt.files) = FileBudget /\ \A g \in Range(prompt.files) : Full(g)

\* The lists are well formed, in bounds, and leave out nothing better.
RecallInv ==
  RecallTypeOK /\ LatestOrBetter /\ NoGapInFallback /\ NewerOfEquals /\ FullMatchFirst
=============================================================================
