------------------------------- MODULE Bench -------------------------------
(***************************************************************************)
(* The two benches that measure the LLM before its results are trusted     *)
(* (app/scoring): exception_bench scores a corpus of cases at several      *)
(* temperatures and says how often the passes disagree; contradiction_     *)
(* bench runs the variants of a prompt over a corpus with planted          *)
(* contradictions and clean controls, and counts findings and calls.       *)
(*                                                                         *)
(* The cases of the first are scored one after another, by passes that     *)
(* run together.  All cases of a run of the second are asked together,     *)
(* under a semaphore; its answers come in any order.                       *)
(***************************************************************************)
EXTENDS Dedup, Radar

CONSTANTS
    Corpus,       \* the cases of the exception bench, a sequence of [quality]
    BenchGrid,    \* the grid whose keys are scored
    PassOutputs,  \* what a pass can give: scores, or None when it fails
    Sweeps,       \* the sequences of temperatures of --sweep; <<None>> without it
    Wrapped,      \* [provider -> the providers it wraps]
    Tempered,     \* those with a temperature of their own
    Provider,     \* the one of get_llm
    Arguments,    \* the command lines: [variants, runs, cases, use_context, use_dedup]
    Outputs,      \* what a call of the contradiction bench can give, None when it fails
    Permits       \* asyncio.Semaphore(4)

ASSUME BenchAssumption ==
    /\ Permits \in Nat \ {0}
    /\ Wrapped \in [DOMAIN Wrapped -> SUBSET DOMAIN Wrapped] /\ Provider \in DOMAIN Wrapped /\ Tempered \subseteq DOMAIN Wrapped

Tiers == {"thin", "medium", "rich"}

\* Lists are sequences, and a case is tagged with its tier; the temperatures of --sweep are numbers,
\* and without it there is one, None.
ASSUME CorpusAssumption ==
    /\ Corpus \in Seq(ToSet(Corpus)) /\ \A i \in DOMAIN Corpus : Corpus[i].quality \in Tiers
    /\ BenchGrid.scale \in Nat \ {0} /\ BenchGrid.axes \in Seq(ToSet(BenchGrid.axes))
    /\ \A temps \in Sweeps : temps \in Seq(ToSet(temps)) /\ (temps = <<None>> \/ None \notin ToSet(temps))

VARIABLES
    sweep,        \* the temperatures that are left
    temperature,  \* [Tempered -> the temperature that was forced, or None]
    results,      \* the cases scored at the current temperature
    aggregates,   \* one for each temperature
    args,         \* the command line of the contradiction bench
    turn,         \* [variant, run]: which variant, and which of its runs
    detect,       \* [the cases of args -> what _detect has done in this run]
    counter,      \* the calls of this variant
    per_run,      \* the pairs of detected and false_pos of this variant
    summary       \* a row for each variant

exceptionVars == <<sweep, temperature, results, aggregates>>
contradictionVars == <<args, turn, detect, counter, per_run, summary>>
benchVars == <<exceptionVars, contradictionVars>>

-----------------------------------------------------------------------------
(* exception_bench.py                                                      *)

\* A pass that failed, that misses a key or is out of range is not a pass.
ValidPasses(raw) ==
    Only(raw, {out \in PassOutputs : out # None /\ Consensual(BenchGrid, <<out>>)})

\* Two passes are needed to measure a divergence; a case with fewer is excluded.
CaseResult(case, raw, asked_at) ==
    LET passes == ValidPasses(raw)
        cons == Consensus(BenchGrid, passes) IN
    IF Len(passes) < 2
    THEN [quality |-> case.quality, kept_passes |-> Len(passes), uncertain_axes |-> {}, confidence |-> 0,
          needs_review |-> TRUE, error |-> TRUE, asked_at |-> asked_at]
    ELSE [quality |-> case.quality, kept_passes |-> Len(passes), uncertain_axes |-> UncertainAxes(cons.spread, BenchGrid.scale),
          confidence |-> cons.confidence, needs_review |-> cons.needs_review, error |-> FALSE,
          asked_at |-> asked_at]

\* The providers that a temperature is forced on: the chain, and all it wraps.
Chain == {Provider} \cup UNION {Wrapped[p] : p \in {Provider} \cup Wrapped[Provider]}
\* Mutant: what a wrapper wraps keeps its temperature.
SetTemperatureOfOne(t) == [p \in Tempered |-> IF p = Provider THEN t ELSE temperature[p]]
SetTemperature(t) == [p \in Tempered |-> IF p \in Chain /\ t # None THEN t ELSE temperature[p]]

NextTemperature ==
    /\ sweep # <<>> /\ results = None
    /\ temperature' = SetTemperature(Head(sweep))
    /\ results' = <<>>
    /\ UNCHANGED <<sweep, aggregates, contradictionVars>>

\* Each pass is answered by one of the providers: asked_at says at which temperatures.
ScoreCase ==
    /\ results # None /\ Len(results) < Len(Corpus)
    /\ \E raw \in [1..3 -> PassOutputs], by \in SUBSET (Tempered \cap Chain) \ {{}} :
        results' = Append(results, CaseResult(Corpus[Len(results) + 1], raw, {temperature[p] : p \in by}))
    /\ UNCHANGED <<sweep, temperature, aggregates, contradictionVars>>

\* In thousandths; a rate of nothing is 0.
Rate(n, d) == IF d = 0 THEN 0 ELSE RoundHalfEven(1000 * n, d)
Uncertain(cases) == Total([i \in cases |-> Cardinality(results[i].uncertain_axes)])

Aggregate ==
    LET measured == {i \in DOMAIN results : ~ results[i].error}
        Tier(q) == {i \in measured : results[i].quality = q}
        axes == Cardinality(Keys(BenchGrid)) IN
    [temperature |-> Head(sweep), n_cases_total |-> Len(results), n_cases_measured |-> Cardinality(measured),
     dimension_exception_rate |-> Rate(Uncertain(measured), axes * Cardinality(measured)),
     project_review_rate |-> Rate(Cardinality({i \in measured : results[i].needs_review}), Cardinality(measured)),
     per_dimension |-> [k \in Keys(BenchGrid) |-> Cardinality({i \in measured : k \in results[i].uncertain_axes})],
     by_quality |-> [q \in {results[i].quality : i \in measured} \cap Tiers |-> Rate(Uncertain(Tier(q)), axes * Cardinality(Tier(q)))],
     excluded |-> DOMAIN results \ measured, cases |-> [i \in measured |-> results[i]]]

EndTemperature ==
    /\ results # None /\ Len(results) = Len(Corpus)
    /\ aggregates' = Append(aggregates, Aggregate)
    /\ sweep' = Tail(sweep)
    /\ results' = None
    /\ UNCHANGED <<temperature, contradictionVars>>

-----------------------------------------------------------------------------
(* contradiction_bench.py                                                  *)

VARIANTS == <<"v1", "v2a", "v2abis", "v2b", "v2cfr", "v2c">>
TYPES == <<"arithmetic", "temporal", "capacity", "market", "internal", "regulatory">>
Grounding == {"v2c", "v2cfr"}

\* With --runs 0 the command fails on its first average; an output has entries, an entry has findings.
ASSUME ArgumentsAssumption ==
    \A line \in Arguments :
        /\ line.variants \in Seq(ToSet(VARIANTS)) /\ line.cases \in Seq(ToSet(line.cases))
        /\ line.runs \in Nat \ {0} /\ {line.use_context, line.use_dedup} \subseteq BOOLEAN
ASSUME OutputsAssumption ==
    \A out \in Outputs : out # None /\ out.listed =>
        /\ out.entries \in Seq(ToSet(out.entries))
        /\ \A entry \in ToSet(out.entries) \ {None} :
            /\ entry.findings \in Seq(ToSet(entry.findings))
            /\ \A raw \in ToSet(entry.findings) :
                DOMAIN raw = {"type", "quote_a", "quote_b", "severity"} /\ {raw.quote_a, raw.quote_b} \subseteq Quotes \cup {None}

\* The prompts that a variant asks of a case together.
PromptsOf(variant) == IF variant = "v2b" THEN Len(TYPES) ELSE IF variant \in Grounding THEN 2 ELSE 1

Running == turn.variant <= Len(args.variants)
Variant == args.variants[turn.variant]
HasContext(variant) == variant \in Grounding /\ args.use_context

Ask(n) == [i \in 1..n |-> [status |-> "waiting", out |-> None]]
NewDetect(variant) ==
    [c \in DOMAIN args.cases |->
        IF HasContext(variant) THEN [stage |-> "context", asks |-> Ask(1), found |-> <<>>, error |-> None]
        ELSE [stage |-> "passes", asks |-> Ask(PromptsOf(variant)), found |-> <<>>, error |-> None]]
NoDetect == <<>>

InFlight == Cardinality({ask \in UNION {{c} \X DOMAIN detect[c].asks : c \in DOMAIN detect} : detect[ask[1]].asks[ask[2]].status = "asking"})

\* A run begins: gather starts _detect for every case.
\* Mutant: the counter is that of the whole command.
StartRunCounting ==
    /\ Running /\ detect = NoDetect
    /\ detect' = NewDetect(Variant)
    /\ UNCHANGED <<args, turn, counter, per_run, summary, exceptionVars>>
StartRun ==
    /\ Running /\ detect = NoDetect
    /\ detect' = NewDetect(Variant)
    /\ counter' = IF turn.run = 1 THEN 0 ELSE counter
    /\ UNCHANGED <<args, turn, per_run, summary, exceptionVars>>

\* _ask, with a permit.
StartAsk(c, i) ==
    /\ detect[c].asks[i].status = "waiting" /\ InFlight < Permits
    /\ detect' = [detect EXCEPT ![c].asks[i].status = "asking"]
    /\ counter' = counter + 1
    /\ UNCHANGED <<args, turn, per_run, summary, exceptionVars>>

EndAsk(c, i) ==
    /\ detect[c].asks[i].status = "asking"
    /\ \E out \in Outputs : detect' = [detect EXCEPT ![c].asks[i] = [status |-> "answered", out |-> out]]
    /\ UNCHANGED <<args, turn, counter, per_run, summary, exceptionVars>>

AllAnswered(c) == \A i \in DOMAIN detect[c].asks : detect[c].asks[i].status = "answered"

\* The country and the currency are known, or not: the passes are asked in both cases.
KnowContext(c) ==
    /\ detect[c].stage = "context" /\ AllAnswered(c)
    /\ detect' = [detect EXCEPT ![c].stage = "passes", ![c].asks = Ask(PromptsOf(Variant))]
    /\ UNCHANGED <<args, turn, counter, per_run, summary, exceptionVars>>

\* An output is [listed, entries]: without its list it has no finding.
Listed(out) == out # None /\ out.listed
Entries(out) == IF Listed(out) THEN out.entries ELSE <<>>
Joined(lists) == FoldLeft(LAMBDA all, list : all \o list, <<>>, lists)
Raws(out) == Joined([e \in DOMAIN Entries(out) |-> IF Entries(out)[e] = None THEN <<>> ELSE Entries(out)[e].findings])

\* _flatten_analyse: a finding has the type of its entry, whatever it says itself.
FlattenAnalyse(entries) ==
    [e \in DOMAIN entries |-> LET entry == entries[e] IN
        IF entry = None THEN None
        ELSE [type |-> entry.type,
              findings |-> [n \in DOMAIN entry.findings |-> [entry.findings[n] EXCEPT !.type = entry.type]]]]

\* Of each variant, the findings before they are deduplicated.
Parsed(variant, outs) ==
    Joined([i \in DOMAIN outs |->
        LET raws == Raws(outs[i]) IN
        CASE variant = "v1"  -> ParseFindings(raws, None)
          [] variant = "v2b" -> ParseFindings([n \in DOMAIN raws |-> [raws[n] EXCEPT !.type = TYPES[i]]], None)
          [] variant \in Grounding -> ParseAnalysis(Entries(outs[i]))
          [] OTHER           -> ParseAnalysis(FlattenAnalyse(Entries(outs[i])))])

\* All passes failed, or the list is missing from the only one.
InError(variant, outs) ==
    \/ \A i \in DOMAIN outs : outs[i] = None
    \/ variant \in {"v1", "v2a", "v2abis"} /\ ~ Listed(outs[1])

\* Mutant: the quotes are not looked for in the narrative.
DetectedUngrounded(variant, outs) == Parsed(variant, outs)
Detected(variant, outs) ==
    LET findings == IF variant \in Grounding THEN KeepGrounded(Parsed(variant, outs)) ELSE Parsed(variant, outs) IN
    IF args.use_dedup THEN Deduplicate(findings) ELSE findings

EndDetect(c) ==
    /\ detect[c].stage = "passes" /\ AllAnswered(c)
    /\ LET outs == [i \in DOMAIN detect[c].asks |-> detect[c].asks[i].out]
           failed == {i \in DOMAIN outs : outs[i] = None} IN
       detect' = [detect EXCEPT ![c] =
            IF InError(Variant, outs) THEN [stage |-> "done", asks |-> <<>>, found |-> <<>>, error |-> "error"]
            ELSE [stage |-> "done", asks |-> <<>>, found |-> Detected(Variant, outs), error |-> IF failed = {} THEN None ELSE "note"]]
    /\ UNCHANGED <<args, turn, counter, per_run, summary, exceptionVars>>

DetectedIn(cases) == Total([c \in cases |-> Len(detect[c].found)])
Controls == {c \in DOMAIN args.cases : args.cases[c].controle_propre}

\* The last of gather; the run is counted, and the variant after its last run.
EndRun ==
    /\ detect # NoDetect /\ \A c \in DOMAIN detect : detect[c].stage = "done"
    /\ LET runs == Append(per_run, [detected |-> DetectedIn(DOMAIN detect), false_pos |-> DetectedIn(Controls)])
           last == turn.run = args.runs IN
        /\ per_run' = IF last THEN <<>> ELSE runs
        /\ summary' = IF last THEN Append(summary, [variant |-> Variant, calls |-> counter, per_run |-> runs]) ELSE summary
        /\ turn' = IF last THEN [variant |-> turn.variant + 1, run |-> 1] ELSE [turn EXCEPT !.run = @ + 1]
    /\ detect' = NoDetect
    /\ UNCHANGED <<args, counter, exceptionVars>>

-----------------------------------------------------------------------------
BenchInit ==
    /\ sweep \in Sweeps /\ temperature = [p \in Tempered |-> None] /\ results = None /\ aggregates = <<>>
    /\ args \in Arguments /\ turn = [variant |-> 1, run |-> 1]
    /\ detect = NoDetect /\ counter = 0 /\ per_run = <<>> /\ summary = <<>>

ExceptionNext == NextTemperature \/ ScoreCase \/ EndTemperature
ContradictionNext ==
    \/ StartRun \/ EndRun
    \/ \E c \in DOMAIN detect :
        \/ KnowContext(c) \/ EndDetect(c)
        \/ \E i \in DOMAIN detect[c].asks : StartAsk(c, i) \/ EndAsk(c, i)
BenchNext == ExceptionNext \/ ContradictionNext
BenchSpec == BenchInit /\ [][BenchNext]_benchVars

\* The types of the two commands.
BenchTypeOK ==
    /\ results # None => Len(results) <= Len(Corpus)
    /\ \A a \in DOMAIN aggregates : aggregates[a].dimension_exception_rate \in 0..1000 /\ aggregates[a].project_review_rate \in 0..1000
    /\ counter \in Nat /\ turn.run \in 1..args.runs
    /\ \A c \in DOMAIN detect : detect[c].stage \in {"context", "passes", "done"}

-----------------------------------------------------------------------------

\* An aggregate is of one temperature: every provider that may have answered was set to it,
\* the ones behind a fallback too (_set_temperature).
OneTemperature ==
    \A a \in DOMAIN aggregates : \A i \in DOMAIN aggregates[a].cases :
        aggregates[a].cases[i].asked_at \subseteq {aggregates[a].temperature}

\* The rates are those of the cases that could be measured, however the passes failed: the rate
\* of the corpus is within those of its tiers, and a project that is not sent to a human was
\* scored by three passes that agree on every dimension.
RatesAreHonest ==
    \A a \in DOMAIN aggregates : LET agg == aggregates[a]  tiers == {agg.by_quality[q] : q \in DOMAIN agg.by_quality} IN
        /\ tiers # {} => Min(tiers) <= agg.dimension_exception_rate /\ agg.dimension_exception_rate <= Max(tiers)
        /\ \A i \in DOMAIN agg.cases : ~ agg.cases[i].needs_review =>
            agg.cases[i].kept_passes = 3 /\ agg.cases[i].uncertain_axes = {}

\* The calls of a variant are the prompts it sent, whatever failed and in whatever order the
\* answers came; at most Permits were in flight.
CallsAreCounted ==
    /\ InFlight <= Permits
    /\ \A r \in DOMAIN summary : LET v == summary[r].variant IN
        summary[r].calls = args.runs * Len(args.cases) * (PromptsOf(v) + IF HasContext(v) THEN 1 ELSE 0)

\* A false positive is a finding of a control, and no finding of the variants of the product
\* quotes what the narrative does not say.
FindingsAreReal ==
    /\ \A r \in DOMAIN summary, n \in 1..args.runs :
        /\ summary[r].per_run[n].false_pos <= summary[r].per_run[n].detected
        /\ Controls = {} => summary[r].per_run[n].false_pos = 0
    /\ \A c \in DOMAIN detect : Running /\ Variant \in Grounding =>
        \A n \in DOMAIN detect[c].found : IsGrounded(detect[c].found[n])

\* What the benches measure is what they say they measure.
BenchIsSound == OneTemperature /\ RatesAreHonest /\ CallsAreCounted /\ FindingsAreReal
=============================================================================
