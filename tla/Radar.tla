------------------------------- MODULE Radar -------------------------------
(***************************************************************************)
(* The pure functions of the Radar: the grid and what is computed from     *)
(* scores (app/scoring: constants, engine, ensemble, actions), and the     *)
(* view of a dimension that the memory of a project gives                  *)
(* (app/project_memory: domain, evaluation).                               *)
(*                                                                         *)
(* A grid is [scale, axes, weights]: axes is a sequence of records [key,   *)
(* pillar, anchors, lever, question], weights maps a category to the       *)
(* tenths of its keys.  Scores are maps from keys to integers; confidences *)
(* and priorities are in thousandths.                                      *)
(***************************************************************************)
EXTENDS Rounding, FiniteSets, FiniteSetsExt

-----------------------------------------------------------------------------
(* The grid of the seed.                                                   *)

Axes == <<"d1", "d2", "d3", "d4", "d5", "d6", "d7", "d8", "d9", "d10", "d11", "d12">>
PILLARS == <<"sens", "viabilite", "scalabilite", "execution">>
Bands == {<<0, 4>>, <<4, 7>>, <<7, 9>>, <<9, 10>>}
Lever(key) ==
    CASE key = "d3"  -> "pitchsim"
      [] key = "d7"  -> "document"
      [] key = "d10" -> "mentor"
      [] OTHER       -> "academy"
CATEGORY_WEIGHTS ==
    [fintech  |-> [d6 |-> 15, d12 |-> 13, d5 |-> 12],
     agritech |-> [d7 |-> 13, d4 |-> 12, d9 |-> 12],
     edtech   |-> [d7 |-> 13, d3 |-> 12, d8 |-> 12],
     sante    |-> [d12 |-> 14, d10 |-> 13, d2 |-> 12],
     commerce |-> [d6 |-> 13, d7 |-> 12, d9 |-> 12]]
MATURITY_LEVELS == <<<<0, 25>>, <<26, 45>>, <<46, 60>>, <<61, 75>>, <<76, 85>>, <<86, 100>>>>

AXES == [i \in DOMAIN Axes |->
    [key |-> Axes[i], pillar |-> PILLARS[(i + 2) \div 3], anchors |-> Bands, lever |-> Lever(Axes[i]), question |-> TRUE]]
RadarV2 == [scale |-> 10, axes |-> AXES, weights |-> CATEGORY_WEIGHTS]

\* The level of a score in percent; the last one when there is a hole.
MaturityLevel(pct) ==
    LET fit == {i \in DOMAIN MATURITY_LEVELS : MATURITY_LEVELS[i][1] <= pct /\ pct <= MATURITY_LEVELS[i][2]} IN
    IF fit = {} THEN Len(MATURITY_LEVELS) ELSE Min(fit)

-----------------------------------------------------------------------------
(* engine.py                                                               *)

Keys(grid) == {grid.axes[i].key : i \in DOMAIN grid.axes}

\* The band of a value: the upper edge is outside, but for the highest one.
FindAnchor(axis, value) ==
    LET top == Max({b[2] : b \in axis.anchors}) IN
    {b \in axis.anchors : (b[1] <= value /\ value < b[2]) \/ (value = top /\ b[2] = top)}

\* Sorted by their lower edge, the bands touch one another from 0 to the top.
AnchorsCoverRange(axis, scale) ==
    /\ axis.anchors # {}
    /\ LET sorted == SetToSortSeq(axis.anchors, LAMBDA a, b : a[1] < b[1]) IN
        /\ sorted[1][1] = 0 /\ sorted[Len(sorted)][2] = scale
        /\ \A i \in 1..(Len(sorted) - 1) : sorted[i][2] = sorted[i + 1][1]

ValidGrid(grid) == grid.axes # <<>> /\ \A i \in DOMAIN grid.axes : AnchorsCoverRange(grid.axes[i], grid.scale)

\* validate_axes: the keys of the grid, in range and on an anchor.
ValidAxes(grid, scores) ==
    /\ DOMAIN scores = Keys(grid)
    /\ \A i \in DOMAIN grid.axes : LET value == scores[grid.axes[i].key] IN
        value \in 0..grid.scale /\ FindAnchor(grid.axes[i], value) # {}

Get(scores, key) == IF key \in DOMAIN scores THEN scores[key] ELSE 0

PillarScores(grid, scores) ==
    LET Of(p) == {i \in DOMAIN grid.axes : grid.axes[i].pillar = p} IN
    [p \in {grid.axes[i].pillar : i \in DOMAIN grid.axes} |->
        RoundHalfEven(MapThenSumSet(LAMBDA i : Get(scores, grid.axes[i].key), Of(p)), Cardinality(Of(p)))]

Weight(grid, category, key) ==
    IF category \in DOMAIN grid.weights /\ key \in DOMAIN grid.weights[category]
    THEN grid.weights[category][key] ELSE 10

Weights(grid, category) == [k \in Keys(grid) |-> Weight(grid, category, k)]
Weighted(grid, category, scores) == [k \in Keys(grid) |-> Get(scores, k) * Weight(grid, category, k)]
Total(values) == FoldFunction(+, 0, values)

\* Mutant: the total of the weights is taken for the number of the axes.
WeightedOverallUnweighted(grid, category, scores) ==
    RoundHalfEven(Total(Weighted(grid, category, scores)), 10 * Cardinality(Keys(grid)))
WeightedOverall(grid, category, scores) ==
    LET total == Total(Weights(grid, category)) IN
    IF total = 0 THEN 0 ELSE RoundHalfEven(Total(Weighted(grid, category, scores)), total)

-----------------------------------------------------------------------------
(* ensemble.py: passes is a sequence of scores that cover the keys.        *)

Values(passes, key) == [i \in DOMAIN passes |-> passes[i][key]]
Spread(values) == Max({values[i] : i \in DOMAIN values}) - Min({values[i] : i \in DOMAIN values})

\* What consensus refuses: no pass, a key that is missing, a value out of the range.
Consensual(grid, passes) ==
    /\ passes # <<>>
    /\ \A i \in DOMAIN passes : Keys(grid) \subseteq DOMAIN passes[i]
        /\ \A k \in Keys(grid) : passes[i][k] \in 0..grid.scale

\* mean_spread in hundredths, and the confidence that it leaves, in thousandths.
MeanSpread(spread) == RoundHalfEven(100 * Total(spread), Cardinality(DOMAIN spread))
Confidence(meanSpread, scale) == Max({0, RoundHalfEven(1000 * (50 * scale - meanSpread), 50 * scale)})

MinConfidence == 600

\* Mutant: the tolerance is absolute, that of a grid on a scale of 100.
UncertainAxesAbsolute(spread, scale) == {k \in DOMAIN spread : spread[k] > 20}
\* The axes whose passes are further apart than 20 % of the scale.
UncertainAxes(spread, scale) == {k \in DOMAIN spread : 5 * spread[k] > scale}

\* Mutant: the mean of the passes instead of their median.
ConsensusAxisMean(values) == RoundHalfEven(FoldSeq(LAMBDA v, sum : sum + v, 0, values), Len(values))
ConsensusAxis(values) == RoundedMedian(values)

Consensus(grid, passes) ==
    LET axes == [k \in Keys(grid) |-> ConsensusAxis(Values(passes, k))]
        spread == [k \in Keys(grid) |-> Spread(Values(passes, k))]
        confidence == Confidence(MeanSpread(spread), grid.scale) IN
    [axes |-> axes, spread |-> spread, confidence |-> confidence, n_passes |-> Len(passes),
     needs_review |-> UncertainAxes(spread, grid.scale) # {} \/ confidence < MinConfidence \/ Len(passes) < 3]

-----------------------------------------------------------------------------
(* actions.py                                                              *)

Strong == 8
MaxActions == 3

\* The axes to work on: weak for their weight first, then in the order of the grid.
NextActions(grid, category, scores) ==
    LET Priority(i) == (grid.scale - Get(scores, grid.axes[i].key)) * Weight(grid, category, grid.axes[i].key)
        weak == {i \in DOMAIN grid.axes : Get(scores, grid.axes[i].key) < Strong /\ grid.axes[i].lever # "none"}
        ranked == SetToSortSeq(weak, LAMBDA i, j : Priority(i) > Priority(j) \/ (Priority(i) = Priority(j) /\ i < j)) IN
    [n \in 1..Min({MaxActions, Len(ranked)}) |->
        [key |-> grid.axes[ranked[n]].key,
         severity |-> IF Get(scores, grid.axes[ranked[n]].key) < 5 THEN "faible" ELSE "moyen"]]

-----------------------------------------------------------------------------
(* domain.py: the states of evidence.                                      *)

EVIDENCE_STRENGTH == <<"unknown", "inferred", "declared", "supported", "verified">>
EvidenceState == {EVIDENCE_STRENGTH[i] : i \in 1..5} \cup {"stale"}
MemoryItemType == {"hypothesis", "fact", "declaration", "contradiction", "evidence", "decision"}
DefaultState(item_type) ==
    CASE item_type = "hypothesis" -> "inferred"
      [] item_type = "evidence"   -> "supported"
      [] item_type = "decision"   -> "verified"
      [] OTHER                    -> "declared"

StrongestEvidence(states) ==
    LET usable == {i \in 1..5 : EVIDENCE_STRENGTH[i] \in states} IN
    IF usable = {} THEN "unknown" ELSE EVIDENCE_STRENGTH[Max(usable)]
EffectiveState(state, expired) == IF expired THEN "stale" ELSE state

-----------------------------------------------------------------------------
(* evaluation.py: a run is a score run, or NoRun; items are the active     *)
(* items of the memory, [dimension, item_type, evidence_state, expired].   *)

NoRun == [source |-> "none"]
CONTRADICTION_CONFIDENCE_CAP == 500

\* What the passes agree on; what a human says is worth 900.
AxisConfidence(run, key, scale) ==
    IF run = NoRun THEN 0
    ELSE IF key \in DOMAIN run.spread THEN Confidence(100 * run.spread[key], scale)
    ELSE IF run.source = "human" THEN 900 ELSE run.confidence

\* Mutant: the contradictions are listed, and the confidence stays.
CappedForgetting(confidence, contradictions) == confidence
Capped(confidence, contradictions) ==
    IF contradictions = {} THEN confidence ELSE Min({confidence, CONTRADICTION_CONFIDENCE_CAP})

\* The projection of one axis; the score is -1 when there is none.
Projection(axis, run, items, scale) ==
    LET mine == {x \in items : x.dimension = axis.key}
        score == IF run # NoRun /\ axis.key \in DOMAIN run.axes THEN run.axes[axis.key] ELSE -1
        evidence == StrongestEvidence({EffectiveState(x.evidence_state, x.expired) : x \in mine})
        shown == IF evidence = "unknown" /\ score >= 0 THEN "inferred" ELSE evidence
        contradictions == {x \in mine : x.item_type = "contradiction"}
        confidence == Capped(AxisConfidence(run, axis.key, scale), contradictions) IN
    [score |-> score, confidence |-> confidence, evidence_state |-> shown, contradictions |-> contradictions,
     missing |-> axis.question /\ (score <= 6 \/ confidence < MinConfidence \/ contradictions # {}
                   \/ shown \in {"unknown", "inferred", "declared", "stale"})]

DimensionProjections(grid, run, items) ==
    [k \in Keys(grid) |-> Projection(grid.axes[CHOOSE i \in DOMAIN grid.axes : grid.axes[i].key = k], run, items, grid.scale)]

EvidenceGap(state) ==
    CASE state = "unknown"  -> 1000 [] state = "inferred"  -> 800 [] state = "declared" -> 550
      [] state = "supported" -> 200 [] state = "verified"  -> 0   [] state = "stale"    -> 900

QuestionPriority(p) ==
    (IF p.score < 0 THEN 1000 ELSE 100 * (10 - p.score)) + (1000 - p.confidence)
        + EvidenceGap(p.evidence_state) + (IF p.contradictions = {} THEN 0 ELSE 500)

\* select_adaptive_questions: the three dimensions about which the least is known.
AdaptiveQuestions(projections) ==
    LET asked == {k \in DOMAIN projections : projections[k].missing} IN
    {k \in asked : Cardinality({x \in asked : QuestionPriority(projections[x]) > QuestionPriority(projections[k])}) < 3}
=============================================================================
