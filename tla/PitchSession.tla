---------------------------- MODULE PitchSession ----------------------------
(***************************************************************************)
(* A rehearsal in front of the « silent committee » (app/pitchsim): the    *)
(* founder narrates, the judges question him in turn, deliberate and score *)
(* him.                                                                    *)
(*                                                                         *)
(* Every request runs in a transaction of its own: it loads the row of the *)
(* session (`tx` is what it loaded), decides on it, and at its commit the  *)
(* ORM writes the attributes that changed, `orch` as one JSON value, and   *)
(* inserts the turns.  A deliberation writes its phase first, so it holds  *)
(* the lock of the row while the judges' verdicts and the scoring are      *)
(* asked from the LLM.  Only requests that pass their checks are modelled: *)
(* the others change nothing.                                              *)
(***************************************************************************)
EXTENDS Integers, Sequences, FiniteSets

CONSTANTS
    Sessions,       \* the sessions of one project
    NoSession,      \* what an idle request works on
    Requests,       \* the requests being served: the founder's tabs, and retries
    Order,          \* qa_order, the judges in the order of the committee
    Obsession,      \* [judges -> axes]
    Pool,           \* ANGLE_POOL: the angles of an axis, none shared by two axes
    Assessable,     \* the axes assess_weakness can find weak
    Quota,          \* qa_questions_per_agent
    Overlap,        \* may two requests work on one session at the same time?
    MaxNarrations   \* a bound on the founder

Judges == {Order[i] : i \in 1..Len(Order)}
Axes == {Obsession[p] : p \in Judges}
Angles == UNION {Pool[x] : x \in Axes}

ASSUME CommitteeAssumption ==
    /\ Order \in Seq(Judges) /\ Len(Order) > 0
    /\ \A i, k \in 1..Len(Order) : Order[i] = Order[k] => i = k
    /\ \A x, y \in Axes : x # y => Pool[x] \cap Pool[y] = {}
    /\ \A x \in Axes : Pool[x] # {} /\ IsFiniteSet(Pool[x])
ASSUME PitchAssumption ==
    /\ NoSession \notin Sessions /\ Overlap \in BOOLEAN /\ Quota \in Nat \ {0}
    /\ MaxNarrations \in Nat

VARIABLES
    phase,    \* [Sessions -> Phase]
    status,   \* [Sessions -> Status]
    orch,     \* [Sessions -> Orch], the memory of the committee
    turns,    \* [Sessions -> Seq(turns)], in the order of their commits
    runs,     \* [Sessions -> Nat], the PitchRuns of the session
    tx        \* [Requests -> Request], what the request has loaded

rows == <<phase, status, orch, turns, runs>>
pitchVars == <<rows, tx>>

\* "NONE" is a session that is not created yet.  No transaction commits DELIBERATING.
Phase == {"NONE", "BRIEFING", "PITCHING", "QA", "FREE_ROUND", "COMPLETED"}
Status == {"IN_PROGRESS", "COMPLETED", "ABANDONED"}

\* `floor` is qa_index (from 1), `ready` whether the keys of the Q&A are there.
Orch == [convictions : [Judges -> -2..2], ready : BOOLEAN, floor : 1..(Len(Order) + 1),
         askedHere : 0..Quota, asked : SUBSET Angles, history : SUBSET Angles]

Blank == [convictions |-> [p \in Judges |-> 0], ready |-> FALSE, floor |-> 1,
          askedHere |-> 0, asked |-> {}, history |-> {}]

Operations == {"start", "narrate", "end", "respond", "deliberate", "abandon"}
Idle == [op |-> "none", session |-> NoSession, locked |-> FALSE, phase |-> "NONE",
         status |-> "IN_PROGRESS", orch |-> Blank, seq |-> 0]
Request == [op : Operations \cup {"none"}, session : Sessions \cup {NoSession},
            locked : BOOLEAN, phase : Phase, status : Status, orch : Orch, seq : Nat]

\* What is compared of a turn: its rank, its kind, the angle of a question, the axes found
\* weak in a narration.
Turn == [seq : Nat, kind : {"system", "narration", "question", "answer", "free_round", "verdict"},
         angle : SUBSET Angles, weak : SUBSET Assessable]

PitchTypeOK ==
    /\ phase \in [Sessions -> Phase]
    /\ status \in [Sessions -> Status]
    /\ orch \in [Sessions -> Orch]
    /\ turns \in [Sessions -> Seq(Turn)]
    /\ runs \in [Sessions -> Nat]
    /\ tx \in [Requests -> Request]

PitchInit ==
    /\ phase = [s \in Sessions |-> "NONE"]
    /\ status = [s \in Sessions |-> "IN_PROGRESS"]
    /\ orch = [s \in Sessions |-> Blank]
    /\ turns = [s \in Sessions |-> <<>>]
    /\ runs = [s \in Sessions |-> 0]
    /\ tx = [r \in Requests |-> Idle]

-----------------------------------------------------------------------------
(* The orchestrator, app/pitchsim/orchestrator.py.                         *)

\* Mutant: when history covers an axis, it is the angles of this session that are given up.
FreshRepeating(o) ==
    LET pool == IF o.floor > Len(Order) THEN {} ELSE Pool[Obsession[Order[o.floor]]]
        new == (pool \ o.asked) \ o.history
    IN  IF new # {} THEN new ELSE pool

\* pick_angle: an angle never asked in this session, nor in an earlier one if possible.
Fresh(o) ==
    LET left == IF o.floor > Len(Order) THEN {} ELSE Pool[Obsession[Order[o.floor]]] \ o.asked
        new == left \ o.history
    IN  IF new # {} THEN new ELSE left

\* _serve_question, once its angle is picked.
Served(o, a) == [o EXCEPT !.asked = @ \cup {a}, !.askedHere = @ + 1]

\* Mutant: the index is moved twice.
AdvancedTwice(o) ==
    LET later == {k \in o.floor + 2 .. Len(Order) : Fresh([o EXCEPT !.floor = k]) # {}}
    IN  [o EXCEPT !.askedHere = 0,
                  !.floor = IF later = {} THEN Len(Order) + 1
                            ELSE CHOOSE k \in later : \A l \in later : k <= l]

\* Mutant: the next judge inherits the count of the one before him.
AdvancedKeepingCount(o) ==
    LET later == {k \in o.floor + 1 .. Len(Order) : Fresh([o EXCEPT !.floor = k]) # {}}
    IN  [o EXCEPT !.floor = IF later = {} THEN Len(Order) + 1
                            ELSE CHOOSE k \in later : \A l \in later : k <= l]

\* _advance_qa: the floor goes to the next judge who has a question left, if any.
Advanced(o) ==
    LET later == {k \in o.floor + 1 .. Len(Order) : Fresh([o EXCEPT !.floor = k]) # {}}
    IN  [o EXCEPT !.askedHere = 0,
                  !.floor = IF later = {} THEN Len(Order) + 1
                            ELSE CHOOSE k \in later : \A l \in later : k <= l]

Clamp(n) == IF n < -2 THEN -2 ELSE IF n > 2 THEN 2 ELSE n

\* update_convictions: one step down for a weakness on the judge's obsession, else one up.
Moved(convictions, weak) ==
    [p \in Judges |-> Clamp(convictions[p] + IF Obsession[p] \in weak THEN -1 ELSE 1)]

\* free_round: the most sceptical judge, then the most convinced if it is another one.
Exchanges(convictions) ==
    IF \A p, q \in Judges : convictions[p] = convictions[q] THEN 1 ELSE 2

\* project_question_angles: the questions of every session of the project.
QuestionsAsked ==
    UNION {UNION {t.angle : t \in {turns[s][i] : i \in 1..Len(turns[s])}} : s \in Sessions}

\* The transaction of another request holds the lock of the session's row.
Writable(r) == \A q \in Requests : tx[q].locked /\ tx[q].session = tx[r].session => q = r

\* What the ORM writes of an attribute: nothing when it is what was loaded.
Flushed(loaded, new, row) == IF new = loaded THEN row ELSE new

Close(r) == tx' = [tx EXCEPT ![r] = Idle]

Say(seq, kind) == [seq |-> seq, kind |-> kind, angle |-> {}, weak |-> {}]

\* Mutant: the turn before, not flushed yet, is not counted.
AskUncounted(seq, a) == [seq |-> seq - 1, kind |-> "question", angle |-> {a}, weak |-> {}]
Ask(seq, a) == [seq |-> seq, kind |-> "question", angle |-> {a}, weak |-> {}]

-----------------------------------------------------------------------------
(* The requests.                                                           *)

\* start_session, with the turn that presents the committee.
StartSession(s) ==
    /\ phase[s] = "NONE"
    /\ phase' = [phase EXCEPT ![s] = "BRIEFING"]
    /\ turns' = [turns EXCEPT ![s] = <<Say(0, "system")>>]
    /\ UNCHANGED <<status, orch, runs, tx>>

Narrations(s) == Cardinality({i \in 1..Len(turns[s]) : turns[s][i].kind = "narration"})

\* Mutant: a session that is over may be rehearsed again, over the same row.
OpenInAgain == [start |-> {"BRIEFING", "COMPLETED"}, narrate |-> {"PITCHING"},
                end |-> {"PITCHING"}, respond |-> {"QA"}, deliberate |-> {"QA", "FREE_ROUND"},
                abandon |-> Phase \ {"NONE"}]

\* Mutant: an answer is still taken in the free round.
OpenInFreeRound == [start |-> {"BRIEFING"}, narrate |-> {"PITCHING"}, end |-> {"PITCHING"},
                    respond |-> {"QA", "FREE_ROUND"}, deliberate |-> {"QA", "FREE_ROUND"},
                    abandon |-> Phase \ {"NONE"}]

\* Mutant: a session may be deliberated again.
OpenInVerdict == [start |-> {"BRIEFING"}, narrate |-> {"PITCHING"}, end |-> {"PITCHING"},
                  respond |-> {"QA"}, deliberate |-> {"QA", "FREE_ROUND", "COMPLETED"},
                  abandon |-> Phase \ {"NONE"}]

\* The phases in which each operation is accepted.  abandon looks at none.
OpenIn == [start |-> {"BRIEFING"}, narrate |-> {"PITCHING"}, end |-> {"PITCHING"},
           respond |-> {"QA"}, deliberate |-> {"QA", "FREE_ROUND"},
           abandon |-> Phase \ {"NONE"}]

\* A request loads the session and passes its checks.  end_pitch wants a narration; a Q&A
\* whose keys were lost answers every respond with a 500.
Load(r, op, s) ==
    /\ tx[r].op = "none"
    /\ Overlap \/ \A q \in Requests : tx[q].session # s
    /\ phase[s] \in OpenIn[op]
    /\ op = "narrate" => Narrations(s) < MaxNarrations
    /\ op = "end" => Narrations(s) > 0
    /\ op = "respond" => orch[s].ready
    /\ tx' = [tx EXCEPT ![r] = [op |-> op, session |-> s, locked |-> FALSE, phase |-> phase[s],
                                status |-> status[s], orch |-> orch[s], seq |-> Len(turns[s])]]
    /\ UNCHANGED rows

StartPitch(r) ==
    /\ tx[r].op = "start" /\ Writable(r)
    /\ phase' = [phase EXCEPT ![tx[r].session] = "PITCHING"]
    /\ Close(r)
    /\ UNCHANGED <<status, orch, turns, runs>>

\* Mutant: a narration without a weakness moves nobody.
NarrateForgetting(r, weak) ==
    /\ tx[r].op = "narrate" /\ Writable(r)
    /\ LET s == tx[r].session
           new == IF weak = {} THEN tx[r].orch
                  ELSE [tx[r].orch EXCEPT !.convictions = Moved(@, weak)]
       IN  /\ orch' = [orch EXCEPT ![s] = Flushed(tx[r].orch, new, @)]
           /\ turns' = [turns EXCEPT ![s] =
                  Append(@, [Say(tx[r].seq, "narration") EXCEPT !.weak = weak])]
    /\ Close(r)
    /\ UNCHANGED <<phase, status, runs>>

\* Convictions that do not change leave `orch` as it is, and the row is not written.
Narrate(r, weak) ==
    /\ tx[r].op = "narrate"
    /\ LET s == tx[r].session
           new == [tx[r].orch EXCEPT !.convictions = Moved(@, weak)]
       IN  /\ new = tx[r].orch \/ Writable(r)
           /\ orch' = [orch EXCEPT ![s] = Flushed(tx[r].orch, new, @)]
           /\ turns' = [turns EXCEPT ![s] =
                  Append(@, [Say(tx[r].seq, "narration") EXCEPT !.weak = weak])]
    /\ Close(r)
    /\ UNCHANGED <<phase, status, runs>>

\* end_pitch opens the Q&A and serves the first question.
EndPitch(r) ==
    /\ tx[r].op = "end" /\ Writable(r)
    /\ LET s == tx[r].session
           opened == [Blank EXCEPT !.convictions = tx[r].orch.convictions, !.ready = TRUE,
                                   !.history = QuestionsAsked]
       IN  /\ phase' = [phase EXCEPT ![s] = "QA"]
           /\ \E a \in Fresh(opened) :
                 /\ orch' = [orch EXCEPT ![s] = Served(opened, a)]
                 /\ turns' = [turns EXCEPT ![s] = Append(@, Ask(tx[r].seq, a))]
    /\ Close(r)
    /\ UNCHANGED <<status, runs>>

\* respond: the judge keeps the floor until he has asked his quota or has no angle left; after
\* the last one, the free round.
Respond(r) ==
    /\ tx[r].op = "respond" /\ Writable(r)
    /\ LET s == tx[r].session
           o == tx[r].orch
           next == IF o.askedHere < Quota /\ Fresh(o) # {} THEN o ELSE Advanced(o)
           answered == Append(turns[s], Say(tx[r].seq, "answer"))
       IN  \/ /\ Fresh(next) = {}
              /\ phase' = [phase EXCEPT ![s] = "FREE_ROUND"]
              /\ orch' = [orch EXCEPT ![s] = Flushed(o, next, @)]
              /\ turns' = [turns EXCEPT ![s] = answered]
           \/ \E a \in Fresh(next) :
              /\ orch' = [orch EXCEPT ![s] = Served(next, a)]
              /\ turns' = [turns EXCEPT ![s] = Append(answered, Ask(tx[r].seq + 1, a))]
              /\ UNCHANGED phase
    /\ Close(r)
    /\ UNCHANGED <<status, runs>>

\* deliberate writes its phase before it asks the LLM: from here on the row is locked.
Deliberate(r) ==
    /\ tx[r].op = "deliberate" /\ ~ tx[r].locked /\ Writable(r)
    /\ tx' = [tx EXCEPT ![r].locked = TRUE, ![r].seq = Len(turns[tx[r].session])]
    /\ UNCHANGED rows

\* Mutant: the session is completed although its scoring failed.
DeliberationFailsHalfway(r) ==
    /\ tx[r].op = "deliberate" /\ tx[r].locked
    /\ phase' = [phase EXCEPT ![tx[r].session] = "COMPLETED"]
    /\ Close(r)
    /\ UNCHANGED <<status, orch, turns, runs>>

\* Mutant: the verdicts are committed one by one, before the scoring fails.
DeliberationFailsAfterVerdicts(r) ==
    /\ tx[r].op = "deliberate" /\ tx[r].locked
    /\ turns' = [turns EXCEPT ![tx[r].session] = @ \o
                    [i \in 1..Len(Order) |-> Say(tx[r].seq + i - 1, "verdict")]]
    /\ Close(r)
    /\ UNCHANGED <<phase, status, orch, runs>>

\* Mutant: the error is answered, the transaction stays open.
DeliberationFailsOpen(r) ==
    /\ tx[r].op = "deliberate" /\ tx[r].locked
    /\ tx' = [tx EXCEPT ![r] = [Idle EXCEPT !.session = tx[r].session, !.locked = TRUE]]
    /\ UNCHANGED rows

\* The LLM fails or gives no valid axes, or no rubric is active: all is rolled back.
DeliberationFails(r) ==
    /\ tx[r].op = "deliberate" /\ tx[r].locked
    /\ Close(r)
    /\ UNCHANGED rows

\* The exchanges, one verdict for each judge and the PitchRun are committed with the end of the session.
Completes(r) ==
    /\ tx[r].op = "deliberate" /\ tx[r].locked
    /\ LET s == tx[r].session
           n == Exchanges(tx[r].orch.convictions)
       IN  /\ turns' = [turns EXCEPT ![s] = @ \o
                  [i \in 1..(n + Len(Order)) |->
                      Say(tx[r].seq + i - 1, IF i <= n THEN "free_round" ELSE "verdict")]]
           /\ runs' = [runs EXCEPT ![s] = @ + 1]
           /\ phase' = [phase EXCEPT ![s] = "COMPLETED"]
           /\ status' = [status EXCEPT ![s] = Flushed(tx[r].status, "COMPLETED", @)]
    /\ Close(r)
    /\ UNCHANGED orch

\* abandon writes the status, whatever it was, and leaves the phase alone.
Abandon(r) ==
    /\ tx[r].op = "abandon"
    /\ tx[r].status = "ABANDONED" \/ Writable(r)
    /\ status' = [status EXCEPT ![tx[r].session] = Flushed(tx[r].status, "ABANDONED", @)]
    /\ Close(r)
    /\ UNCHANGED <<phase, orch, turns, runs>>

Serve(r) ==
    \/ StartPitch(r) \/ EndPitch(r) \/ Respond(r)
    \/ \E weak \in SUBSET Assessable : Narrate(r, weak)
    \/ Deliberate(r) \/ DeliberationFails(r) \/ Completes(r)
    \/ Abandon(r)

PitchNext ==
    \/ \E s \in Sessions : StartSession(s)
    \/ \E r \in Requests :
        \/ Serve(r)
        \/ \E op \in Operations, s \in Sessions : Load(r, op, s)

PitchSpec == PitchInit /\ [][PitchNext]_pitchVars

\* Every request is carried to its end (LLM calls time out), and those that wait for the lock of a row
\* get it in their turn.
PitchFairSpec == PitchSpec /\ \A r \in Requests : SF_pitchVars(Serve(r))

-----------------------------------------------------------------------------
(* Properties of a session of which one request is served at a time.       *)

Count(s, kind) == Cardinality({i \in 1..Len(turns[s]) : turns[s][i].kind = kind})

\* A session moves along PHASE_TRANSITIONS only, a deliberation in one step.
PhaseMoves == {<<"NONE", "BRIEFING">>, <<"BRIEFING", "PITCHING">>, <<"PITCHING", "QA">>,
               <<"QA", "FREE_ROUND">>, <<"QA", "COMPLETED">>, <<"FREE_ROUND", "COMPLETED">>}
PhaseMachine ==
    [][\A s \in Sessions : phase'[s] # phase[s] => <<phase[s], phase'[s]>> \in PhaseMoves]_pitchVars

\* The committee never asks the same thing twice (the hard « anti-doublon » of pick_angle): the
\* memory in orch and the questions of the timeline agree, and no angle comes back.
NoQuestionTwice ==
    \A s \in Sessions :
        /\ Count(s, "question") = Cardinality(orch[s].asked)
        /\ orch[s].asked = UNION {turns[s][i].angle : i \in 1..Len(turns[s])}

\* Questions and answers alternate: one question is open during the Q&A, none is when the free
\* round begins by itself.
QaBalance ==
    \A s \in Sessions :
        /\ phase[s] = "QA" => Count(s, "question") = Count(s, "answer") + 1
        /\ phase[s] = "FREE_ROUND" => Count(s, "question") = Count(s, "answer")

\* When the free round begins, each judge has asked his quota, or his axis has no angle left:
\* nobody was skipped who had something to ask.
NobodySkipped ==
    \A s \in Sessions : phase[s] = "FREE_ROUND" =>
        \A x \in Axes :
            LET judges == {p \in Judges : Obsession[p] = x}
                asked == Pool[x] \cap orch[s].asked
            IN  asked = Pool[x] \/ Cardinality(asked) = Quota * Cardinality(judges)

\* The Q&A is fair, whatever the judges' obsessions and the angles left: no question comes
\* twice, each is answered before the next, and each judge has his turns.
QaIsFair == NoQuestionTwice /\ QaBalance /\ NobodySkipped

\* The timeline can be replayed: each narration moved the convictions once, in its order.
Replayed(s) ==
    LET after[i \in 0..Len(turns[s])] ==
            IF i = 0 THEN [p \in Judges |-> 0]
            ELSE IF turns[s][i].kind = "narration" THEN Moved(after[i - 1], turns[s][i].weak)
            ELSE after[i - 1]
    IN  after[Len(turns[s])]
ConvictionsReplayed == \A s \in Sessions : orch[s].convictions = Replayed(s)

\* The timeline of the post-mortem is ordered by seq, which numbers the turns without a gap.
TimelineOrdered == \A s \in Sessions : \A i \in 1..Len(turns[s]) : turns[s][i].seq = i - 1

\* What a post-mortem shows does not change afterwards: one run, one timeline.
NothingFollows ==
    \A s \in Sessions : phase[s] = "COMPLETED" => turns'[s] = turns[s] /\ runs'[s] = runs[s]
VerdictIsLast == [][NothingFollows]_pitchVars

\* What a founder comes back to read is the record of what happened: the turns in their order
\* and without a gap, and nothing added once the verdict is given.
PostMortemKept == [][TimelineOrdered' /\ NothingFollows]_pitchVars

-----------------------------------------------------------------------------
(* Properties whatever overlaps.                                           *)

\* A completed session has its post-mortem, whatever its requests overwrite of one another: its run
\* is committed with its end.
CompletedHasRun ==
    \A s \in Sessions : phase[s] = "COMPLETED" \/ status[s] = "COMPLETED" => runs[s] > 0

\* The words of each judge are in the timeline once for each run, so a run is never without them.
RunsHaveVerdicts == \A s \in Sessions : Count(s, "verdict") = runs[s] * Len(Order)

\* No request waits for ever, be it for the lock that a deliberation holds during its calls of the LLM.
EveryRequestEnds == \A r \in Requests : tx[r].session # NoSession ~> tx[r].session = NoSession

\* ABANDONED is terminal (app/pitchsim/models.py).
AbandonedIsTerminal ==
    [][\A s \in Sessions : status[s] = "ABANDONED" => status'[s] = "ABANDONED"]_pitchVars
=============================================================================
