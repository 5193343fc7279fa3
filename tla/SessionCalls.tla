----------------------------- MODULE SessionCalls -----------------------------
(***************************************************************************)
(* What SessionArchive calls the model step, call by call: the rendered    *)
(* records of a session are cut into windows (windows.py), the session is  *)
(* priced before its first call (pipeline.py, projected), each window is   *)
(* summarized, and the summaries are merged in rounds of groups until one  *)
(* is left (summarize.py).  A call is retried while the service is out of  *)
(* reach; every answer is charged to the run's ledger before it is judged. *)
(*                                                                         *)
(* Sizes are in one unit for bytes and tokens, prices one a token each     *)
(* way.  A summary is the range of windows it speaks of and its size; size *)
(* 0 is the blank summary.                                                 *)
(***************************************************************************)
EXTENDS Naturals, Sequences, FiniteSets, SequencesExt

CONSTANTS RecordSizes, MaxRecords,     \* the renderings a session may have
          WindowSize, Overlap,         \* windows.split: size, overlap
          AnswerSizes,                 \* sizes of the model's summaries
          MergeInput, MergeOutput,     \* MERGE_INPUT_TOKENS, MERGE_OUTPUT_TOKENS
          Overhead, WindowOutput,      \* merge_overhead, OUTPUT_TOKENS
          Around,                      \* a window call's system prompt and tail
          Attempts, RunCap             \* ATTEMPTS, run_cap_usd

ASSUME CallsAssumption ==
  /\ RecordSizes \subseteq Nat \ {0} /\ AnswerSizes \subseteq Nat
  /\ {MaxRecords, WindowSize, Overlap, Attempts, RunCap} \subseteq Nat
  \* As with the source's 40,000 tokens: a pair of summaries of the asked-for
  \* size fits a merge call.
  /\ {MergeInput, MergeOutput, Overhead, WindowOutput, Around} \subseteq Nat
  /\ Overhead + 2 * MergeOutput <= MergeInput /\ WindowOutput <= MergeOutput

VARIABLES
  stage,        \* "render", "window", "merge", "over"
  verdict,      \* why it is over
  records,      \* the sizes of the rendered records, in order
  windows,      \* the windows they were cut into
  quote,        \* the price projected before the first call
  parts,        \* the summaries so far: of windows, or of the round under way
  queue,        \* the groups of the round that wait for their merge
  attempt,      \* of the call under way, 0 when there is none
  ledger,       \* what the store's ledger has for the session
  modest        \* every answer kept the size asked for, and no merge was cut

plan == <<records, windows, quote>>
money == <<ledger, modest>>
callsVars == <<stage, verdict, plan, parts, queue, attempt, money>>

CallsInit ==
  /\ stage = "render" /\ verdict = "none" /\ records = <<>>
  /\ windows = <<>> /\ quote = 0
  /\ parts = <<>> /\ queue = <<>> /\ attempt = 0
  /\ ledger = 0 /\ modest = TRUE

Total(s) ==
  LET sum[i \in 0..Len(s)] == IF i = 0 THEN 0 ELSE sum[i - 1] + s[i]
  IN sum[Len(s)]
SizesOf(group) == Total([i \in DOMAIN group |-> group[i].size])

-----------------------------------------------------------------------------
(* windows.py.  A window is the interval from..to of records it holds.      *)

\* The newline-joined text of records i..j.
Joined(sizes, i, j) == IF i > j THEN 0 ELSE Total(SubSeq(sizes, i, j)) + (j - i)

\* tail: where the last records that fit in the overlap begin.
TailFrom(sizes, i, j) ==
  CHOOSE k \in i..(j + 1) :
    /\ Joined(sizes, k, j) <= Overlap
    /\ \A m \in i..(k - 1) : Joined(sizes, m, j) > Overlap

\* Mutant: the tail is kept even when the next record does not fit beside it.
WindowBesideTail(sizes, acc, r) ==
  IF acc.from < r /\ Joined(sizes, acc.from, r) > WindowSize
    THEN [from |-> TailFrom(sizes, acc.from, r - 1),
          cut |-> Append(acc.cut, [from |-> acc.from, to |-> r - 1])]
    ELSE acc

\* The windows cut before record r, and where the one that takes it begins.
Window(sizes, acc, r) ==
  IF acc.from < r /\ Joined(sizes, acc.from, r) > WindowSize
    THEN LET t == TailFrom(sizes, acc.from, r - 1)
         IN [from |-> IF Joined(sizes, t, r) > WindowSize THEN r ELSE t,
             cut |-> Append(acc.cut, [from |-> acc.from, to |-> r - 1])]
    ELSE acc

Split(sizes) ==
  LET n == Len(sizes)
      at[r \in 0..n] == IF r = 0 THEN [from |-> 1, cut |-> <<>>] ELSE Window(sizes, at[r - 1], r)
  IN IF n = 0 THEN <<>> ELSE Append(at[n].cut, [from |-> at[n].from, to |-> n])

WindowText(w) == Joined(records, w.from, w.to)

-----------------------------------------------------------------------------
(* Grouping and price.  A group is an interval of summaries.                *)

\* Mutant: a group may take a single summary.
GroupAlone(sizes, acc, i) ==
  IF acc.from < i /\ Overhead + Total(SubSeq(sizes, acc.from, i)) > MergeInput
    THEN [from |-> i, cut |-> Append(acc.cut, [from |-> acc.from, to |-> i - 1])]
    ELSE acc

\* A group is full when it holds two at least and the next would not fit.
Group(sizes, acc, i) ==
  IF acc.from + 1 < i /\ Overhead + Total(SubSeq(sizes, acc.from, i)) > MergeInput
    THEN [from |-> i, cut |-> Append(acc.cut, [from |-> acc.from, to |-> i - 1])]
    ELSE acc

Grouped(sizes) ==
  LET n == Len(sizes)
      at[i \in 0..n] == IF i = 0 THEN [from |-> 1, cut |-> <<>>] ELSE Group(sizes, at[i - 1], i)
  IN IF n = 0 THEN <<>> ELSE Append(at[n].cut, [from |-> at[n].from, to |-> n])

\* A round of merging, every answer of the size asked for; a group of one
\* needs no call.
Merged(sizes) ==
  LET groups == Grouped(sizes)
  IN [g \in DOMAIN groups |-> IF groups[g].from < groups[g].to THEN MergeOutput ELSE sizes[groups[g].from]]
RoundCalls(sizes) ==
  LET groups == Grouped(sizes) IN Cardinality({g \in DOMAIN groups : groups[g].from < groups[g].to})

\* Mutant: the rounds after the first are not counted.
MergeCallsOnce(count, size) == RoundCalls([i \in 1..count |-> size])

\* What is left of the summaries and the calls made so far, one round later.
NextRound(last) ==
  IF Len(last.sizes) <= 1 THEN last
  ELSE [sizes |-> Merged(last.sizes), calls |-> last.calls + RoundCalls(last.sizes)]

\* From count summaries of one size: no more than count rounds, since each
\* leaves fewer.
Rounds(count, size) ==
  LET after[k \in 0..count] ==
        IF k = 0 THEN [sizes |-> [i \in 1..count |-> size], calls |-> 0] ELSE NextRound(after[k - 1])
  IN after

\* The merge calls that count summaries of one size will need.
MergeCalls(count, size) == Rounds(count, size)[count].calls

Price(input, output) == input + output

LargestText(sizes, cut) ==
  LET texts == {Joined(sizes, cut[i].from, cut[i].to) : i \in DOMAIN cut}
  IN CHOOSE x \in texts : \A y \in texts : y <= x

Projected(sizes, cut) ==
  Len(cut) * Price(LargestText(sizes, cut), WindowOutput)
  + MergeCalls(Len(cut), WindowOutput) * Price(MergeInput, MergeOutput)

-----------------------------------------------------------------------------
(* The session.                                                             *)

\* The summaries so far are let go.
Over(why) ==
  stage' = "over" /\ verdict' = why /\ attempt' = 0 /\ parts' = <<>> /\ queue' = <<>> /\ UNCHANGED plan

\* Rendered, cut into windows and priced: a session too dear for any run is
\* held, one too dear for what this run has left waits.
Plan(sizes, left) ==
  /\ records' = sizes /\ windows' = Split(sizes)
  /\ quote' = IF sizes = <<>> THEN 0 ELSE Projected(sizes, windows')
  /\ verdict' = CASE sizes = <<>> -> "unreadable"
                  [] sizes # <<>> /\ quote' > RunCap -> "too_large"
                  [] sizes # <<>> /\ quote' \in (left + 1)..RunCap -> "capped"
                  [] OTHER -> "none"
  /\ stage' = IF verdict' = "none" THEN "window" ELSE "over"
  /\ UNCHANGED <<parts, queue, attempt, money>>

\* The next call: a window's, in order, or a group's that has two at least.
Waiting ==
  /\ attempt = 0
  /\ \/ stage = "window" /\ Len(parts) < Len(windows)
     \/ stage = "merge" /\ queue # <<>> /\ Len(Head(queue).group) > 1

Ask ==
  /\ Waiting /\ attempt' = 1
  /\ UNCHANGED <<stage, verdict, plan, parts, queue, money>>

LastOne == stage = "merge" /\ queue = <<>> /\ Len(parts) = 1

\* A file of the work folder cannot be written: before the first call, when a
\* window's answer is saved, or the last summary.
WorkFails ==
  /\ attempt = 0
  /\ stage = "window" \/ LastOne
  /\ Over("work_error") /\ UNCHANGED money

\* A prompt cannot be read: the run ends with the error, and holds nothing.
PromptGone ==
  /\ attempt = 0 /\ stage = "window" /\ (Len(parts) < Len(windows) \/ Len(windows) > 1)
  /\ Over("error") /\ UNCHANGED money

\* SIGTERM: the session in flight is held, and a call under way is lost.
Interrupted == stage # "over" /\ Over("timeout") /\ UNCHANGED money

Transient == {"busy"}                         \* http 429 and 5xx, no network
Refused == {"denied", "bad"}                  \* http 401, 403, 404; other ones
UnavailableErrors == Transient \cup {"denied"}

\* A SummarizeError: the service's failure ends the run; the second time in a
\* row (again) it is the session's.
Raise(detail) ==
  \E again \in BOOLEAN :
    Over(IF detail \in UnavailableErrors /\ ~again THEN "model_unavailable"
         ELSE IF detail = "unparsable" THEN "unparsable" ELSE "model_error")

\* A response there is none of, or that is no message; it costs nothing.
Fails(failure) ==
  /\ attempt > 0
  /\ IF failure \in Transient /\ attempt < Attempts
       THEN /\ attempt' = attempt + 1
            /\ UNCHANGED <<stage, verdict, plan, parts, queue>>
       ELSE Raise(failure)
  /\ UNCHANGED money

-----------------------------------------------------------------------------
(* Answers: a stop reason, what the text parses to, and its size.           *)

\* It ended, and its text conforms to the schema or does not; or it was cut.
Endings == {"fits", "other", "max_tokens"}

\* What the call under way speaks of, and its input.
Spoken ==
  IF stage = "window" THEN LET n == Len(parts) + 1 IN [from |-> n, to |-> n]
  ELSE LET g == Head(queue).group IN [from |-> g[1].from, to |-> g[Len(g)].to]
Input ==
  IF stage = "window" THEN Around + WindowText(windows[Len(parts) + 1])
  ELSE Overhead + SizesOf(Head(queue).group)
Asked == IF stage = "window" THEN WindowOutput ELSE MergeOutput

\* max_tokens on a group of three or more, once.
MayHalve(ending) ==
  stage = "merge" /\ ending = "max_tokens" /\ Head(queue).split /\ Len(Head(queue).group) > 2

\* charge sees every answer first, those that fail too.
Charge(ending, cost) == ledger' = ledger + cost

\* Mutant: the second half leaves out the part in the middle.
HalvesApart(g) ==
  LET half == Len(g) \div 2
  IN << [group |-> SubSeq(g, 1, half), split |-> FALSE],
        [group |-> SubSeq(g, half + 2, Len(g)), split |-> FALSE] >>

Halves(g) ==
  LET half == Len(g) \div 2
  IN << [group |-> SubSeq(g, 1, half), split |-> FALSE],
        [group |-> SubSeq(g, half + 1, Len(g)), split |-> FALSE] >>

\* checked: the summary of an answer that ended and fits the schema.
Keep(size) ==
  /\ parts' = Append(parts, [from |-> Spoken.from, to |-> Spoken.to, size |-> size])
  /\ queue' = IF stage = "merge" THEN Tail(queue) ELSE queue
  /\ attempt' = 0 /\ UNCHANGED <<stage, verdict, plan>>

Halve ==
  /\ queue' = Halves(Head(queue).group) \o Tail(queue)
  /\ attempt' = 0 /\ UNCHANGED <<stage, verdict, plan, parts>>

Answered(ending, size) ==
  /\ attempt > 0
  /\ Charge(ending, Price(Input, size))
  /\ modest' = (modest /\ size <= Asked /\ ~MayHalve(ending))
  /\ CASE MayHalve(ending) -> Halve
       [] ending = "max_tokens" /\ ~MayHalve(ending) -> Raise("cut")
       [] ending = "other" -> Raise("unparsable")
       [] ending = "fits" -> Keep(size)

-----------------------------------------------------------------------------
(* Merging.                                                                 *)

WindowsDone ==
  /\ stage = "window" /\ attempt = 0 /\ Len(parts) = Len(windows)
  /\ stage' = "merge"
  /\ UNCHANGED <<verdict, plan, parts, queue, attempt, money>>

\* A group of one is its own answer.
PassOn ==
  /\ stage = "merge" /\ queue # <<>> /\ Len(Head(queue).group) = 1
  /\ parts' = Append(parts, Head(queue).group[1]) /\ queue' = Tail(queue)
  /\ UNCHANGED <<stage, verdict, plan, attempt, money>>

Round ==
  /\ stage = "merge" /\ queue = <<>> /\ Len(parts) > 1
  /\ LET groups == Grouped([i \in DOMAIN parts |-> parts[i].size])
     IN queue' = [g \in DOMAIN groups |->
                    [group |-> SubSeq(parts, groups[g].from, groups[g].to), split |-> TRUE]]
  /\ parts' = <<>>
  /\ UNCHANGED <<stage, verdict, plan, attempt, money>>

\* One summary is left; a blank one holds the session.
Finish ==
  /\ LastOne
  /\ stage' = "over" /\ verdict' = IF parts[1].size = 0 THEN "unparsable" ELSE "summarized"
  /\ UNCHANGED <<plan, parts, queue, attempt, money>>

CallsNext ==
  \/ stage = "render" /\ \E sizes \in BoundedSeq(RecordSizes, MaxRecords), left \in {RunCap, RunCap \div 2} :
                            Plan(sizes, left)
  \/ Ask \/ WorkFails \/ PromptGone \/ Interrupted
  \/ \E failure \in Transient \cup Refused : Fails(failure)
  \/ \E ending \in Endings, size \in AnswerSizes : Answered(ending, size)
  \/ WindowsDone \/ PassOn \/ Round \/ Finish

CallsSpec == CallsInit /\ [][CallsNext]_callsVars /\ WF_callsVars(CallsNext)

-----------------------------------------------------------------------------
(* What the calls promise.                                                  *)

\* windows.py: the windows hold every record, in order; each but the first
\* opens with at most Overlap of the one before; each is within the size
\* unless one record alone is longer; and none ends before it must.
WindowsCoverSession ==
  LET w == windows IN
    /\ (w = <<>>) <=> (records = <<>>)
    /\ w # <<>> => w[1].from = 1 /\ w[Len(w)].to = Len(records)
    /\ \A i \in DOMAIN w :
         /\ w[i].from <= w[i].to
         /\ WindowText(w[i]) <= WindowSize \/ w[i].from = w[i].to
    /\ \A i \in 2..Len(w) :
         /\ w[i - 1].to < w[i].to /\ w[i].from <= w[i - 1].to + 1
         /\ Joined(records, w[i].from, w[i - 1].to) <= Overlap
         /\ Joined(records, w[i - 1].from, w[i - 1].to + 1) > WindowSize

\* merge: through every round and every halving the summaries speak of each
\* window once and in order; what is left at the end speaks of all of them.
SummaryCoversSession ==
  stage \in {"window", "merge"} \/ verdict = "summarized" =>
    LET line == parts \o FlattenSeq([g \in DOMAIN queue |-> queue[g].group])
    IN /\ \A i \in DOMAIN line : line[i].from = IF i = 1 THEN 1 ELSE line[i - 1].to + 1
       /\ stage # "window" => line # <<>> /\ line[Len(line)].to = Len(windows)

\* pipeline.py, projected: while the answers keep the size the prompts ask for
\* and none is cut, a session never costs more than it was let in for, but for
\* the prompt around each window, which the projection leaves out.
ProjectionIsConservative ==
  modest => ledger <= quote + Len(windows) * Around

\* Whatever the service does, the calls for a session come to an end.
SessionEnds == stage # "render" ~> stage = "over"
=============================================================================
