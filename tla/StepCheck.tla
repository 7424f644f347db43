--------------------------------- MODULE StepCheck ---------------------------------
(***************************************************************************)
(* The verifier (packages/runtime/src/core/runtime/verifier/index.ts) and  *)
(* the loop of the executor that asks it (core/runtime/executor/index.ts): *)
(* the attempts at one step, what each brings, and what is made of it.     *)
(*                                                                         *)
(* A JSON value is null, a leaf, an object or a list.  Of a text the model *)
(* keeps whether it is empty and whether it has what the step expects.     *)
(***************************************************************************)
EXTENDS Naturals, Sequences, FiniteSets, Functions

CONSTANTS
  Values,       \* bound: the JSON values in play, with all their parts
  Shapes,       \* bound: those of them that steps expect
  Depth,        \* bound: how many values a shape has one inside the other
  RetryLimit,   \* maxRetries of the executor
  Enough        \* the retries after which the verifier gives up

Null == [type |-> "null"]
Leaf == [type |-> "leaf"]
Object(fields) == [type |-> "object", fields |-> fields]
List(items) == [type |-> "list", items |-> items]

\* A label says how a value lies in another: under a key, or among the items.
Labels ==
  {<<>>} \cup UNION {{<<k>> : k \in DOMAIN v.fields} : v \in {v \in Values : v.type = "object"}}

Under(v, label) ==
  CASE v.type = "object" -> {v.fields[k] : k \in {k \in DOMAIN v.fields : label = <<k>>}}
    [] v.type = "list" -> IF label = <<>> THEN Range(v.items) ELSE {}
    [] OTHER -> {}

\* The ways from v inwards along the labels of a path.
Walks(v, path) ==
  {w \in [1 .. Len(path) + 1 -> Values] :
     w[1] = v /\ \A i \in 1 .. Len(path) : w[i + 1] \in Under(w[i], path[i])}

ASSUME CheckAssumption ==
  /\ RetryLimit \in Nat /\ Enough \in Nat /\ Depth \in Nat
  /\ Shapes \subseteq Values /\ Object(<<>>) \in Values
  /\ \A v \in Values :
       /\ v.type \in {"null", "leaf", "object", "list"}
       /\ v.type = "list" => v.items \in Seq(Values)
       /\ \A label \in Labels : Under(v, label) \subseteq Values

ASSUME DepthAssumption ==
  \A w \in [1 .. Depth + 1 -> Values] :
    w[1] \in Shapes =>
      \E i \in 1 .. Depth : \A label \in Labels : w[i + 1] \notin Under(w[i], label)

VARIABLES
  expected,     \* expectedOutput of the step
  useLlm,       \* requireLLMVerify
  retryCount,   \* retryCount
  attempts,     \* history: how often the step was run
  result,       \* the latest result
  settled       \* how the step ended, if it has

checkVars == <<expected, useLlm, retryCount, attempts, result, settled>>

\* What expectedOutput may be: nothing, a shape, something that only begins like one, a
\* regular expression, another text.
Expectations ==
  {[rule |-> r] : r \in {"none", "broken", "regex", "text"}}
    \cup {[rule |-> "shape", shape |-> s] : s \in Shapes}

\* What a tool or a sub-agent may bring.  has: whether the text has what is expected.
Payloads ==
  {[form |-> "empty"]}
    \cup {[form |-> "text", has |-> h] : h \in BOOLEAN}
    \cup {[form |-> "json", has |-> h, value |-> v] : h \in BOOLEAN, v \in Values}

Results ==
  {[from |-> "error", why |-> w] : w \in {"timeout", "permission", "other"}}
    \cup {[from |-> "tool", isError |-> e, payload |-> p] : e \in BOOLEAN, p \in Payloads}
    \cup {[from |-> "subagent", payload |-> p] : p \in Payloads}

\* Whatever was thrown and whatever a tool reported are objects, without a key a step
\* would expect.
AsObject == [form |-> "json", has |-> FALSE, value |-> Object(<<>>)]

Failed(r) == r.from = "error" \/ (r.from = "tool" /\ r.isError)
-----------------------------------------------------------------------------
\* shapeMatchesRecursive, by what it says of the parts: a key is looked up with "in", which
\* throws where the value is none that has keys; what is left of every and some is not
\* evaluated any more.
Verdict(parts, actual, shape) ==
  CASE shape.type = "null" -> IF actual.type = "null" THEN "yes" ELSE "no"
    [] shape.type = "leaf" -> IF actual.type # "null" THEN "yes" ELSE "no"
    [] shape.type = "list" ->
         IF actual.type # "list" THEN "no"
         ELSE LET Fit(i, j) == parts[<<actual.items[j], shape.items[i]>>]
                  \* The first item that fits, or throws, decides.
                  Some(i) ==
                    LET deciding == {j \in DOMAIN actual.items : Fit(i, j) # "no"}
                    IN  IF deciding = {} THEN "no"
                        ELSE Fit(i, CHOOSE j \in deciding : \A k \in deciding : j <= k)
                  Wrong == {i \in DOMAIN shape.items : Some(i) # "yes"}
              IN  IF Wrong = {} THEN "yes" ELSE Some(CHOOSE i \in Wrong : \A k \in Wrong : i <= k)
    [] OTHER ->
         LET keys == DOMAIN shape.fields
             Has(k) == actual.type = "object" /\ k \in DOMAIN actual.fields
             Field(k) == IF Has(k) THEN parts[<<actual.fields[k], shape.fields[k]>>] ELSE "no"
         IN  IF keys = {} THEN "yes"
             ELSE IF actual.type \in {"null", "leaf"} THEN "throws"
             ELSE IF \A k \in keys : Field(k) = "yes" THEN "yes"
             ELSE IF \E k \in keys : Field(k) = "throws" THEN "throws" ELSE "no"

\* What it returns for shapes of up to d values one inside the other.
Matches[d \in 0 .. Depth] ==
  IF d = 0 THEN [p \in Values \X Values |-> "no"]
  ELSE LET parts == Matches[d - 1]
       IN  [p \in Values \X Values |-> Verdict(parts, p[1], p[2])]

\* jsonShapeMatches: what throws is no match.
FitsShape(actual, shape) == Matches[Depth][<<actual, shape>>] = "yes"

\* matchesExpected.
MatchOf(p) ==
  CASE expected.rule = "broken" -> "mismatch"
    [] expected.rule = "shape" ->
         IF p.form = "json" /\ FitsShape(p.value, expected.shape) THEN "match" ELSE "mismatch"
    [] expected.rule = "regex" -> IF p.has THEN "match" ELSE "mismatch"
    [] OTHER -> IF p.has THEN "match" ELSE "no-rule"

\* Mutant: the verifier never gives up.
Insists == "retry"

\* What is asked for after a failure that may be gone the next time.
Again == IF retryCount >= Enough THEN "abort" ELSE "retry"

\* staticVerify.
StaticVerify(p) ==
  IF p.form = "empty" THEN Again
  ELSE IF expected.rule # "none" /\ MatchOf(p) = "mismatch" THEN Again
  ELSE "proceed"

\* classifyError.
ClassifyError(why) == IF why = "permission" THEN "abort" ELSE Again

\* verify.
Verify(r) ==
  CASE r.from = "error" -> ClassifyError(r.why)
    [] r.from = "tool" -> IF r.isError THEN Again ELSE StaticVerify(r.payload)
    [] OTHER -> StaticVerify(r.payload)

\* llmVerify: the model says anything.  Without something to expect, and when the model
\* fails, the static rules get the result as it is, be it an error.
LlmVerify(r) ==
  (IF expected.rule = "none" THEN {}
   ELSE {"proceed", "retry", "replan", "escalate", "abort"})
    \cup {StaticVerify(IF r.from = "subagent" THEN r.payload ELSE AsObject)}

\* verifyStrict and verify, as executeStep chooses.
VerdictsOf(r) == IF useLlm THEN LlmVerify(r) ELSE {Verify(r)}
-----------------------------------------------------------------------------
CheckInit ==
  /\ expected \in Expectations
  /\ useLlm \in BOOLEAN
  /\ retryCount = 0 /\ attempts = 0
  /\ result = [from |-> "subagent", payload |-> [form |-> "empty"]]
  /\ settled = "no"

\* One turn of the loop of executeStep: the step is run and its result is verified.
Attempt(r, verdict) ==
  /\ settled = "no" /\ retryCount <= RetryLimit
  /\ verdict \in VerdictsOf(r)
  /\ result' = r
  /\ attempts' = attempts + 1
  /\ IF verdict = "retry" THEN retryCount' = retryCount + 1 /\ UNCHANGED settled
     ELSE /\ settled' = (IF verdict = "proceed" THEN "completed" ELSE verdict)
          /\ UNCHANGED retryCount
  /\ UNCHANGED <<expected, useLlm>>

\* The loop has used its retries up.
OutOfRetries ==
  /\ settled = "no" /\ retryCount > RetryLimit
  /\ settled' = "failed"
  /\ UNCHANGED <<expected, useLlm, retryCount, attempts, result>>

CheckNext ==
  \/ \E r \in Results, verdict \in {"proceed", "retry", "replan", "escalate", "abort"} :
       Attempt(r, verdict)
  \/ OutOfRetries

CheckSpec == CheckInit /\ [][CheckNext]_checkVars
-----------------------------------------------------------------------------
\* Every variable has its type.
CheckTypeOK ==
  /\ expected \in Expectations /\ useLlm \in BOOLEAN
  /\ retryCount \in 0 .. RetryLimit + 1 /\ attempts \in 0 .. RetryLimit + 1
  /\ result \in Results
  /\ settled \in {"no", "completed", "failed", "replan", "escalate", "abort"}

\* A step is run at most once more than the verifier's patience, whatever fails in between,
\* and under a model that is never content at most once more than the executor's (verify,
\* executeStep).
AttemptsBounded ==
  attempts <= 1 + (IF useLlm \/ RetryLimit < Enough THEN RetryLimit ELSE Enough)

\* By the static rules a step is never completed by an error, a tool's failure or nothing at
\* all (verify and staticVerify).
ErrorsNeverPass ==
  settled = "completed" /\ ~useLlm =>
    ~Failed(result) /\ result.payload.form # "empty"

\* Where the shape ends, null is null, a leaf is something, a list is a list.
Alike(actual, shape) ==
  /\ shape.type \in {"null", "list"} => actual.type = shape.type
  /\ shape.type = "leaf" => actual.type # "null"

\* A step that expects a shape is completed, by the static rules, only with a JSON value: every
\* way into the shape leads, by the same keys, into the value, to something of the kind that is
\* expected there, however deep (shapeMatchesRecursive).
ShapeHolds ==
  settled = "completed" /\ ~useLlm /\ expected.rule = "shape" =>
    /\ result.payload.form = "json"
    /\ \A n \in 0 .. Depth : \A path \in [1 .. n -> Labels] :
         \A s \in Walks(expected.shape, path) :
           \E a \in Walks(result.payload.value, path) : Alike(a[n + 1], s[n + 1])

\* The attempts are well formed, end, and are completed only by what was expected.
CheckInv == CheckTypeOK /\ AttemptsBounded /\ ErrorsNeverPass /\ ShapeHolds
=============================================================================
