---------------------------------- MODULE Memory ----------------------------------
(***************************************************************************)
(* The project's memory, phus.md: one file of sections and notes, read     *)
(* and rewritten as a whole by every write (infra/memory/store.ts), by the *)
(* tool memory_write and by the reflection after a turn.                   *)
(*                                                                         *)
(* The file is what stands before its first heading, and then one block    *)
(* for each heading line, with the notes under it.  A note is its number   *)
(* and its age: how often a compaction has reduced it to its first line.   *)
(* A heading is its level, its name and how often it carries the label of  *)
(* a summary; behind it is written the authority that asserts it.  Of the  *)
(* other two fields, category and time, nothing is ever read.              *)
(***************************************************************************)
EXTENDS Naturals, FiniteSets, SequencesExt

CONSTANTS
  HeadingNames,  \* names of headings
  InitialFiles,  \* what a person may have left in the file
  Writable,      \* sections the tool memory_write is given
  Authorities,   \* authorities it is given, "unsaid" where the call names none
  MaxWrites,     \* bound on the notes written
  MaxDeletes,    \* bound on the deletions
  MaxCompactions,\* bound on the compactions
  KeepLast,      \* entries a compaction keeps as they are (5)
  MaxOlder,      \* first lines it keeps of the others (8)
  PromptBudget,  \* sections of a prompt (4)
  MaxPerTurn,    \* notes of one reflection
  MemoryBlocks   \* what the memory block of the configuration may say

Asserters == {"user", "system", "agent", "tape"}
Keys == [level : Nat, name : HeadingNames, label : Nat]
Entries == [id : Nat, age : Nat]
Blocks == [key : Keys, authority : Asserters, body : Seq(Entries)]
Files == [head : Seq(Entries), blocks : Seq(Blocks)]

Heading(level, name, label) == [level |-> level, name |-> name, label |-> label]
Entry(id, age) == [id |-> id, age |-> age]
Block(key, authority, body) == [key |-> key, authority |-> authority, body |-> body]

Aged(body) == {e \in Range(body) : e.age > 0}

ASSUME MemoryBoundsAreNatural ==
  {MaxWrites, MaxDeletes, MaxCompactions, KeepLast, MaxOlder, PromptBudget, MaxPerTurn}
    \subseteq Nat

\* What a person leaves has not been compacted.
ASSUME MemoryAssumption ==
  /\ KeepLast > 0
  /\ Writable \cup {"Notes", "ExternalReferences", "KnownFailures"} \subseteq HeadingNames
  /\ Authorities \subseteq Asserters \cup {"unsaid"}
  /\ InitialFiles \subseteq Files
  /\ \A f \in InitialFiles : \A i \in DOMAIN f.blocks : Aged(f.blocks[i].body) = {}

VARIABLES
  file,          \* phus.md
  wrote,         \* notes written so far, the number of the last one
  deletes,       \* deletions so far
  compactions,   \* compactions so far
  autonomy,      \* the configuration of the gate and of the reflection
  touched,       \* the headings the last step wrote under
  given          \* history: the notes given to a heading since it was replaced,
                 \* deleted or written to from another section's note

memoryVars == <<file, wrote, deletes, compactions, autonomy, touched, given>>

-----------------------------------------------------------------------------
\* Reading and writing the file.

\* The function f with the value v for x.
With(f, x, v) == [y \in DOMAIN f \cup {x} |-> IF y = x THEN v ELSE f[y]]

Known(p, key) == key \in DOMAIN p.sections

BodyOf(p, key) == IF Known(p, key) THEN p.sections[key].body ELSE <<>>

\* The section key, known or not, with this authority and this body.
WithSection(p, key, authority, body) ==
  [headings |-> IF Known(p, key) THEN p.headings ELSE Append(p.headings, key),
   sections |-> With(p.sections, key, [authority |-> authority, body |-> body])]

\* A heading opens its section, or goes on with it where it is known; its authority is
\* the one of its last occurrence.
WithBlock(p, block) ==
  WithSection(p, block.key, block.authority, BodyOf(p, block.key) \o block.body)

NoSections == [headings |-> <<>>, sections |-> [k \in {} |-> <<>>]]

splitSections(f) ==
  LET parsed[n \in 0 .. Len(f.blocks)] ==
        IF n = 0 THEN NoSections ELSE WithBlock(parsed[n - 1], f.blocks[n])
  IN parsed[Len(f.blocks)]

\* The file f with the sections p.
serialize(f, p) ==
  [head |-> f.head,
   blocks |-> [i \in 1 .. Len(p.headings) |->
     LET key == p.headings[i]
     IN Block(key, p.sections[key].authority, p.sections[key].body)]]

\* A section is always addressed at the second level.
normalizeSection(name) == Heading(2, name, 0)

\* Who asserts the section after a write: the writer, or who did before.
Asserted(p, key, authority) ==
  IF authority # "unsaid" THEN authority
    ELSE IF Known(p, key) THEN p.sections[key].authority ELSE "agent"

Appended(p, key, body, authority) ==
  WithSection(p, key, Asserted(p, key, authority), BodyOf(p, key) \o body)

Replaced(p, key, body, authority) ==
  WithSection(p, key, Asserted(p, key, authority), body)

PositionOf(p, key) == CHOOSE i \in DOMAIN p.headings : p.headings[i] = key

\* Mutant: a section is deleted at every level.
DeletedByName(p, key) ==
  [headings |-> SelectSeq(p.headings, LAMBDA k : k.name # key.name),
   sections |-> [k \in {h \in DOMAIN p.sections : h.name # key.name} |-> p.sections[k]]]

Deleted(p, key) ==
  [headings |-> RemoveAt(p.headings, PositionOf(p, key)),
   sections |-> [k \in DOMAIN p.sections \ {key} |-> p.sections[k]]]

-----------------------------------------------------------------------------
\* Compaction.

\* Mutant: the first entries are kept instead of the last.
KeptFirst(body) == SubSeq(body, 1, KeepLast)

Kept(body) == SubSeq(body, Len(body) - KeepLast + 1, Len(body))

Dropped(body) == SubSeq(body, 1, Len(body) - KeepLast)

\* A set of numbers in its order.
Listing(S) ==
  [i \in 1 .. Cardinality(S) |-> CHOOSE x \in S : Cardinality({y \in S : y < x}) = i - 1]

\* Where something stands in s for the first time.
FirstPlaces(s) == {i \in DOMAIN s : \A j \in 1 .. i - 1 : s[j] # s[i]}

\* The first lines of the dropped entries, each once and as many as are kept.
summarizeDropped(dropped) ==
  LET places == Listing(FirstPlaces(dropped))
  IN [i \in 1 .. (IF Len(places) < MaxOlder THEN Len(places) ELSE MaxOlder) |->
       Entry(dropped[places[i]].id, dropped[places[i]].age + 1)]

\* A count of what was compacted is an entry without a number.
CountEntry == Entry(0, 0)

Summary(body) == <<CountEntry>> \o summarizeDropped(Dropped(body))

TooLong(p, key) == Len(p.sections[key].body) > KeepLast
SummaryOf(key) == [key EXCEPT !.label = @ + 1]

\* One heading of the pass, which goes over the headings there were at its start:
\* the section is rebuilt, and its summary is pinned under a heading of its own
\* unless that heading exists.
CompactOne(p, key) ==
  LET section == p.sections[key]
      summary == Summary(section.body)
      rebuilt == WithSection(p, key, section.authority, summary \o Kept(section.body))
  IN CASE ~TooLong(p, key) -> p
       [] TooLong(p, key) /\ Known(p, SummaryOf(key)) -> rebuilt
       [] OTHER -> WithSection(rebuilt, SummaryOf(key), "agent", summary)

compact(p) ==
  LET pass[n \in 0 .. Len(p.headings)] ==
        IF n = 0 THEN p ELSE CompactOne(pass[n - 1], p.headings[n])
  IN pass[Len(p.headings)]

-----------------------------------------------------------------------------
\* What a prompt shows of the memory.

\* A section's score, in thousandths of what the places are counted in: the share of the
\* query's words it contains (here a half, or none) and the share of its own words they
\* are, a word in the heading, its place in the file, its authority.
Weight(authority) ==
  CASE authority = "user" -> 100 [] authority = "system" -> 80
    [] authority = "agent" -> 50 [] authority = "tape" -> 30

Places(p) == IF Len(p.headings) > 1 THEN Len(p.headings) - 1 ELSE 1
Recency(p, i) == IF Len(p.headings) > 1 THEN (i - 1) * 100 ELSE 100

scoreSection(p, query, i) ==
  Recency(p, i)
    + Places(p) * (Weight(p.sections[p.headings[i]].authority)
                     + (IF i \in query.half THEN 500 + query.share ELSE 0)
                     + (IF i \in query.heading THEN 350 ELSE 0))

MinScore(p) == 180 * Places(p)

Strong(p, query) == {i \in DOMAIN p.headings : scoreSection(p, query, i) >= MinScore(p)}

\* The best of the strong ones, or the latest sections where none is strong.
Selected(p, query) ==
  LET strong == Strong(p, query)
      pool == IF strong = {} THEN DOMAIN p.headings ELSE strong
      Score(i) == IF strong = {} THEN 0 ELSE scoreSection(p, query, i)
      Before(i) == {j \in pool : \/ Score(j) > Score(i)
                                  \/ (Score(j) = Score(i) /\ j > i)}
  IN {i \in pool : Cardinality(Before(i)) < PromptBudget}

-----------------------------------------------------------------------------

\* Which kinds of writes pass without a question.  A mode the block does not say, or
\* says wrongly, is propose; what it lists to ask for is asked for in every mode.
AutonomyModes == {"propose", "approval-list", "yolo"}

parseMemoryConfig(block) ==
  [mode |-> IF block.mode \in AutonomyModes THEN block.mode ELSE "propose",
   autoApprove |-> block.autoApprove, requireApproval |-> block.requireApproval,
   reflect |-> block.reflect = "true"]

decide(kind) ==
  CASE kind \in autonomy.requireApproval -> "approve"
    [] autonomy.mode = "yolo" -> "auto"
    [] autonomy.mode = "approval-list" /\ kind \in autonomy.autoApprove -> "auto"
    [] OTHER -> "approve"

MemoryInit ==
  /\ file \in InitialFiles
  /\ autonomy \in {parseMemoryConfig(b) : b \in MemoryBlocks}
  /\ wrote = 0 /\ deletes = 0 /\ compactions = 0
  /\ touched = {}
  /\ given = [k \in {} |-> <<>>]

GivenTo(g, key) == IF key \in DOMAIN g THEN g[key] ELSE <<>>

\* A memory is the file with what is said of it; an append of n notes to it.
Appending(m, key, n, authority) ==
  [file |-> serialize(m.file,
     Appended(splitSections(m.file), key, [i \in 1 .. n |-> Entry(m.wrote + i, 0)], authority)),
   wrote |-> m.wrote + n,
   touched |-> m.touched \cup {key},
   given |-> With(m.given, key, GivenTo(m.given, key) \o [i \in 1 .. n |-> m.wrote + i])]

Current == [file |-> file, wrote |-> wrote, touched |-> {}, given |-> given]

Becomes(m) ==
  /\ m.wrote <= MaxWrites
  /\ file' = m.file /\ wrote' = m.wrote /\ touched' = m.touched /\ given' = m.given
  /\ UNCHANGED <<deletes, compactions, autonomy>>

\* memory_write: append.
AppendNote(name, authority) ==
  Becomes(Appending(Current, normalizeSection(name), 1, authority))

\* The same with a body that has a heading line of its own, and one more note under it.
AppendHeading(name, authority, inner) ==
  LET key == normalizeSection(name)
      m == Appending(Current, key, 1, authority)
      after == PositionOf([headings |-> [i \in DOMAIN m.file.blocks |-> m.file.blocks[i].key]], key)
      brought == Block(inner, "agent", <<Entry(m.wrote + 1, 0)>>)
  IN /\ inner # key
     /\ Becomes([file |-> [m.file EXCEPT !.blocks = InsertAt(@, after + 1, brought)],
                 wrote |-> m.wrote + 1,
                 touched |-> m.touched \cup {inner},
                 given |-> With(m.given, inner, <<>>)])

\* memory_write: replace.
ReplaceSection(name, authority) ==
  LET key == normalizeSection(name) IN
  /\ wrote < MaxWrites
  /\ file' = serialize(file,
               Replaced(splitSections(file), key, <<Entry(wrote + 1, 0)>>, authority))
  /\ wrote' = wrote + 1
  /\ touched' = {key}
  /\ given' = With(given, key, <<wrote + 1>>)
  /\ UNCHANGED <<deletes, compactions, autonomy>>

\* memory_write: delete, an error where the section is not there.
DeleteSection(name) ==
  LET key == normalizeSection(name)
      p == splitSections(file)
  IN /\ deletes < MaxDeletes
     /\ Known(p, key)
     /\ file' = serialize(file, Deleted(p, key))
     /\ deletes' = deletes + 1
     /\ touched' = {key}
     /\ given' = With(given, key, <<>>)
     /\ UNCHANGED <<wrote, compactions, autonomy>>

\* What the reflector looks for in a turn, in its order: what the user wants remembered,
\* addresses, tool errors.
Reflections == <<[section |-> "Notes", authority |-> "user"],
                 [section |-> "ExternalReferences", authority |-> "agent"],
                 [section |-> "KnownFailures", authority |-> "tape"]>>

\* Those a turn with so many of each is worth, as many as one turn may write.
reflect(found) ==
  {i \in 1 .. 3 :
     found[i] > 0 /\ Cardinality({j \in 1 .. i - 1 : found[j] > 0}) < MaxPerTurn}

\* After a turn the notes are appended one after the other, where the gate lets an
\* append pass; nobody is asked for the others.
TurnOver(found) ==
  LET Apply(m, i) ==
        IF i \in reflect(found)
          THEN Appending(m, normalizeSection(Reflections[i].section), found[i],
                         Reflections[i].authority)
          ELSE m
  IN /\ autonomy.reflect /\ reflect(found) # {}
     /\ decide("append") = "auto"
     /\ Becomes(Apply(Apply(Apply(Current, 1), 2), 3))

Compact ==
  LET p == splitSections(file)
      long == {k \in DOMAIN p.sections : TooLong(p, k)}
  IN /\ compactions < MaxCompactions
     /\ long # {}
     /\ file' = serialize(file, compact(p))
     /\ compactions' = compactions + 1
     /\ touched' = long \cup {SummaryOf(k) : k \in long}
     /\ UNCHANGED <<wrote, deletes, autonomy, given>>

MemoryNext ==
  \/ \E n \in Writable, a \in Authorities :
        \/ AppendNote(n, a)
        \/ \E m \in Writable : AppendHeading(n, a, normalizeSection(m))
        \/ ReplaceSection(n, a)
  \/ \E n \in Writable : DeleteSection(n)
  \/ \E found \in [1 .. 3 -> 0 .. 1] : TurnOver(found)
  \/ Compact

MemorySpec == MemoryInit /\ [][MemoryNext]_memoryVars

-----------------------------------------------------------------------------
\* The lines under a heading, wherever in the file it stands.
Under(f, key) ==
  LET read[n \in 0 .. Len(f.blocks)] ==
        IF n = 0 THEN <<>>
          ELSE IF f.blocks[n].key = key THEN read[n - 1] \o f.blocks[n].body
                 ELSE read[n - 1]
  IN read[Len(f.blocks)]

Headed(f, key) == {b.authority : b \in {c \in Range(f.blocks) : c.key = key}}

Headings(f) == {b.key : b \in Range(f.blocks)}

\* The file is one of headings and notes, and only what is known to be written to is touched.
MemoryTypeOK ==
  /\ file \in Files
  /\ wrote \in 0 .. MaxWrites /\ deletes \in 0 .. MaxDeletes
  /\ compactions \in 0 .. MaxCompactions
  /\ autonomy.mode \in AutonomyModes /\ autonomy.reflect \in BOOLEAN
  /\ touched \subseteq DOMAIN given \cup Headings(file)

\* The latest notes given to a section are in it as they were given, last and in
\* their order, whatever was written or compacted elsewhere since: every write
\* reads and rewrites the whole file.
NotesKept ==
  \A key \in DOMAIN given :
    LET ids == given[key]
        n == IF Len(ids) < KeepLast THEN Len(ids) ELSE KeepLast
        body == Under(file, key)
    IN /\ Len(body) >= n
       /\ \A i \in 1 .. n : body[Len(body) - n + i] = Entry(ids[Len(ids) - n + i], 0)

\* A compaction drops no note without leaving its first line behind, as long as
\* there is room for one.
NothingSilentlyDropped ==
  \A key \in DOMAIN given :
    LET body == Under(file, key) IN
    \A i \in DOMAIN given[key] :
      \/ \E e \in Range(body) : e.id = given[key][i]
      \/ Cardinality(Aged(body)) = MaxOlder

\* A step writes under the headings it names and leaves every other section, with
\* the authority that asserts it, and what stands before the first heading as it is.
OthersUntouched ==
  [][/\ file'.head = file.head
     /\ \A key \in Headings(file) \ touched' :
          /\ Under(file', key) = Under(file, key)
          /\ Cardinality(Headed(file, key)) = 1
               => Headed(file', key) = Headed(file, key)]_memoryVars

\* Of the sections that hold half of a query's words, as many are in the prompt as
\* it has room for.
MatchesShown ==
  LET p == splitSections(file) IN
  \A half \in SUBSET DOMAIN p.headings : Cardinality(half) <= PromptBudget =>
    \A heading \in SUBSET half, share \in {1, 150} :
      half \subseteq Selected(p, [half |-> half, heading |-> heading, share |-> share])

\* The file is well formed, the latest notes given to a section are kept in it, compaction
\* leaves a trace of the others, and what matches a query is shown (apply, compact and
\* toPromptContext).
MemoryInv == MemoryTypeOK /\ NotesKept /\ NothingSilentlyDropped /\ MatchesShown
=============================================================================
