--------------------------- MODULE WaitingProofs ----------------------------
(***************************************************************************)
(* What holds of a pitch rehearsal (PitchSession) for any committee, any   *)
(* number of sessions and any number of requests; and of the calls to      *)
(* providers that fail (Resilience) for every length of the chain, every   *)
(* number of callers and of requests, and every limit.                     *)
(***************************************************************************)
EXTENDS PitchSession, Resilience, FoldLemmas

-----------------------------------------------------------------------------
(* The orchestrator stays within its types.                                *)

LEMMA OrderLength == Len(Order) \in Nat \ {0}
  BY CommitteeAssumption

\* pick_angle picks among the angles of the committee.
LEMMA FreshAngles == ASSUME NEW o \in Orch PROVE Fresh(o) \subseteq Angles
<1>1. CASE o.floor > Len(Order)
  BY <1>1 DEF Fresh
<1>2. CASE ~ o.floor > Len(Order)
  <2>1. o.floor \in 1..Len(Order)
    BY <1>2, OrderLength DEF Orch
  <2>2. Pool[Obsession[Order[o.floor]]] \subseteq Angles
    BY <2>1 DEF Angles, Axes, Judges
  <2> QED BY <1>2, <2>2 DEF Fresh
<1> QED BY <1>1, <1>2

LEMMA BlankType == Blank \in Orch
  BY OrderLength, PitchAssumption DEF Blank, Orch

LEMMA MovedType ==
  ASSUME NEW c \in [Judges -> -2..2], NEW weak
  PROVE  Moved(c, weak) \in [Judges -> -2..2]
  BY DEF Moved, Clamp

\* _advance_qa leaves the floor to a judge of the committee, or one past the last.
LEMMA AdvancedType ==
  ASSUME NEW o \in Orch
  PROVE  Advanced(o) \in Orch /\ Advanced(o).askedHere = 0
<1> DEFINE later == {k \in o.floor + 1 .. Len(Order) : Fresh([o EXCEPT !.floor = k]) # {}}
           to == IF later = {} THEN Len(Order) + 1
                 ELSE CHOOSE k \in later : \A l \in later : k <= l
<1>1. o.floor \in 1..(Len(Order) + 1) /\ Len(Order) \in Nat
  BY OrderLength DEF Orch
<1>2. later \subseteq 1..Len(Order) /\ later \in SUBSET Nat
  BY <1>1
<1>3. to \in 1..(Len(Order) + 1)
  <2>1. CASE later = {}
    BY <1>1, <2>1
  <2>2. CASE later # {}
    <3> HIDE DEF later
    <3>1. \E k \in later : \A l \in later : k <= l
      BY <1>2, <2>2, SmallestOf
    <3>2. to \in later
      BY <2>2, <3>1
    <3> HIDE DEF to
    <3> QED BY <1>1, <1>2, <3>2
  <2> QED BY <2>1, <2>2
<1>4. Advanced(o) = [o EXCEPT !.askedHere = 0, !.floor = to]
  BY DEF Advanced
<1> HIDE DEF to, later
<1>5. 0 \in 0..Quota
  BY PitchAssumption
<1> QED BY <1>3, <1>4, <1>5 DEF Orch

LEMMA IdleType == Idle \in Request
  BY BlankType DEF Idle, Request, Phase, Status

LEMMA SayType ==
  ASSUME NEW n \in Nat,
         NEW kind \in {"system", "narration", "question", "answer", "free_round", "verdict"}
  PROVE  Say(n, kind) \in Turn
  BY DEF Say, Turn

LEMMA AskType ==
  ASSUME NEW n \in Nat, NEW a \in Angles
  PROVE  Ask(n, a) \in Turn
  BY DEF Ask, Turn

LEMMA ServedType ==
  ASSUME NEW o \in Orch, o.askedHere < Quota, NEW a \in Angles
  PROVE  Served(o, a) \in Orch
<1>1. o.askedHere + 1 \in 0..Quota
  BY PitchAssumption DEF Orch
<1>2. o.asked \cup {a} \in SUBSET Angles
  BY DEF Orch
<1> QED BY <1>1, <1>2 DEF Served, Orch

\* A request that is open works on a session.
TypeInv == PitchTypeOK /\ \A r \in Requests : tx[r].op # "none" => tx[r].session \in Sessions

-----------------------------------------------------------------------------
(* Type correctness.                                                       *)

LEMMA TypeInit == PitchInit => TypeInv
<1> SUFFICES ASSUME PitchInit PROVE TypeInv
  OBVIOUS
<1>1. orch \in [Sessions -> Orch] /\ tx \in [Requests -> Request]
  BY BlankType, IdleType DEF PitchInit
<1>2. \A r \in Requests : tx[r].op = "none"
  BY DEF PitchInit, Idle
<1> QED BY <1>1, <1>2 DEF PitchInit, TypeInv, PitchTypeOK, Phase, Status

\* The request is answered: the rest of TypeInv is about the rows.
LEMMA TypeClose ==
  ASSUME TypeInv, NEW r \in Requests, Close(r),
         phase' \in [Sessions -> Phase], status' \in [Sessions -> Status],
         orch' \in [Sessions -> Orch], turns' \in [Sessions -> Seq(Turn)],
         runs' \in [Sessions -> Nat]
  PROVE  TypeInv'
<1>1. tx' \in [Requests -> Request]
  BY IdleType DEF Close, TypeInv, PitchTypeOK
<1>2. \A q \in Requests : tx'[q].op # "none" => tx'[q].session \in Sessions
  BY DEF Close, TypeInv, PitchTypeOK, Idle
<1> QED BY <1>1, <1>2 DEF TypeInv, PitchTypeOK

LEMMA TypeStart == ASSUME TypeInv, NEW s \in Sessions, StartSession(s) PROVE TypeInv'
<1>1. <<Say(0, "system")>> \in Seq(Turn)
  BY SayType
<1> QED BY <1>1 DEF StartSession, TypeInv, PitchTypeOK, Phase

LEMMA TypeLoad ==
  ASSUME TypeInv, NEW r \in Requests, NEW op \in Operations, NEW s \in Sessions, Load(r, op, s)
  PROVE  TypeInv'
<1> DEFINE q == [op |-> op, session |-> s, locked |-> FALSE, phase |-> phase[s],
                 status |-> status[s], orch |-> orch[s], seq |-> Len(turns[s])]
<1>1. q \in Request
  BY DEF TypeInv, PitchTypeOK, Request
<1>2. tx' = [tx EXCEPT ![r] = q] /\ UNCHANGED rows
  BY DEF Load
<1>3. q.session \in Sessions
  OBVIOUS
<1> HIDE DEF q
<1> QED BY <1>1, <1>2, <1>3 DEF TypeInv, PitchTypeOK, rows

LEMMA TypeStartPitch == ASSUME TypeInv, NEW r \in Requests, StartPitch(r) PROVE TypeInv'
<1>1. phase' \in [Sessions -> Phase]
  BY DEF StartPitch, TypeInv, PitchTypeOK, Phase
<1> QED BY <1>1, TypeClose DEF StartPitch, TypeInv, PitchTypeOK

LEMMA TypeNarrate ==
  ASSUME TypeInv, NEW r \in Requests, NEW weak \in SUBSET Assessable, Narrate(r, weak)
  PROVE  TypeInv'
<1> DEFINE s == tx[r].session
           new == [tx[r].orch EXCEPT !.convictions = Moved(@, weak)]
           said == [Say(tx[r].seq, "narration") EXCEPT !.weak = weak]
<1>1. s \in Sessions /\ tx[r].orch \in Orch /\ tx[r].seq \in Nat
  BY DEF Narrate, TypeInv, PitchTypeOK, Request
<1>2. new \in Orch
  <2>1. Moved(tx[r].orch.convictions, weak) \in [Judges -> -2..2]
    BY <1>1, MovedType DEF Orch
  <2> QED BY <1>1, <2>1 DEF Orch
<1>3. said \in Turn
  BY <1>1, SayType DEF Turn
<1>4. /\ orch' = [orch EXCEPT ![s] = Flushed(tx[r].orch, new, @)]
      /\ turns' = [turns EXCEPT ![s] = Append(@, said)]
      /\ Close(r) /\ UNCHANGED <<phase, status, runs>>
  BY DEF Narrate
<1> HIDE DEF s, new, said
<1>5. orch' \in [Sessions -> Orch]
  BY <1>1, <1>2, <1>4 DEF TypeInv, PitchTypeOK, Flushed
<1>6. turns' \in [Sessions -> Seq(Turn)]
  BY <1>1, <1>3, <1>4 DEF TypeInv, PitchTypeOK
<1> QED BY <1>4, <1>5, <1>6, TypeClose DEF TypeInv, PitchTypeOK

\* The angles of a question that is in a timeline are angles of the committee.
LEMMA QuestionsAskedType == ASSUME TypeInv PROVE QuestionsAsked \subseteq Angles
<1>1. ASSUME NEW s \in Sessions, NEW i \in 1..Len(turns[s]) PROVE turns[s][i].angle \subseteq Angles
  <2>1. turns[s][i] \in Turn
    BY <1>1 DEF TypeInv, PitchTypeOK
  <2> QED BY <2>1 DEF Turn
<1> QED BY <1>1 DEF QuestionsAsked

LEMMA OpenedType ==
  ASSUME TypeInv, NEW o \in Orch
  PROVE  LET opened == [Blank EXCEPT !.convictions = o.convictions, !.ready = TRUE,
                                     !.history = QuestionsAsked]
         IN  opened \in Orch /\ opened.askedHere < Quota
<1>1. QuestionsAsked \in SUBSET Angles /\ o.convictions \in [Judges -> -2..2]
  BY QuestionsAskedType DEF Orch
<1>2. Blank \in Orch /\ Blank.askedHere < Quota
  BY BlankType, PitchAssumption DEF Blank
<1> QED BY <1>1, <1>2 DEF Orch

LEMMA TypeEndPitch == ASSUME TypeInv, NEW r \in Requests, EndPitch(r) PROVE TypeInv'
<1> DEFINE s == tx[r].session
           opened == [Blank EXCEPT !.convictions = tx[r].orch.convictions, !.ready = TRUE,
                                   !.history = QuestionsAsked]
<1>1. s \in Sessions /\ tx[r].orch \in Orch /\ tx[r].seq \in Nat
  BY DEF EndPitch, TypeInv, PitchTypeOK, Request
<1>2. opened \in Orch /\ opened.askedHere < Quota
  BY <1>1, OpenedType
<1>3. PICK a \in Fresh(opened) :
        /\ orch' = [orch EXCEPT ![s] = Served(opened, a)]
        /\ turns' = [turns EXCEPT ![s] = Append(@, Ask(tx[r].seq, a))]
  BY DEF EndPitch
<1>4. /\ phase' = [phase EXCEPT ![s] = "QA"]
      /\ Close(r) /\ UNCHANGED <<status, runs>>
  BY DEF EndPitch
<1> HIDE DEF s, opened
<1>5. a \in Angles
  BY <1>2, <1>3, FreshAngles
<1>6. orch' \in [Sessions -> Orch]
  BY <1>1, <1>2, <1>3, <1>5, ServedType DEF TypeInv, PitchTypeOK
<1>7. turns' \in [Sessions -> Seq(Turn)]
  BY <1>1, <1>3, <1>5, AskType DEF TypeInv, PitchTypeOK
<1>8. phase' \in [Sessions -> Phase]
  BY <1>4 DEF TypeInv, PitchTypeOK, Phase
<1> QED BY <1>4, <1>6, <1>7, <1>8, TypeClose DEF TypeInv, PitchTypeOK

\* What the committee remembers once the judge who holds the floor is known.
AfterAnswer(o) == IF o.askedHere < Quota /\ Fresh(o) # {} THEN o ELSE Advanced(o)

LEMMA AfterAnswerType ==
  ASSUME NEW o \in Orch
  PROVE  AfterAnswer(o) \in Orch /\ AfterAnswer(o).askedHere < Quota
  BY AdvancedType, PitchAssumption DEF AfterAnswer, Orch

\* respond does one of two things: the free round begins, or a judge asks.
LEMMA RespondCases ==
  ASSUME TypeInv, NEW r \in Requests, Respond(r)
  PROVE  LET s == tx[r].session
             next == AfterAnswer(tx[r].orch)
             answered == Append(turns[s], Say(tx[r].seq, "answer"))
         IN  /\ \/ /\ phase' = [phase EXCEPT ![s] = "FREE_ROUND"]
                   /\ orch' = [orch EXCEPT ![s] = Flushed(tx[r].orch, next, @)]
                   /\ turns' = [turns EXCEPT ![s] = answered]
                \/ \E a \in Fresh(next) :
                   /\ orch' = [orch EXCEPT ![s] = Served(next, a)]
                   /\ turns' = [turns EXCEPT ![s] = Append(answered, Ask(tx[r].seq + 1, a))]
                   /\ UNCHANGED phase
             /\ Close(r) /\ UNCHANGED <<status, runs>>
  BY DEF Respond, AfterAnswer

LEMMA TypeRespond == ASSUME TypeInv, NEW r \in Requests, Respond(r) PROVE TypeInv'
<1> DEFINE s == tx[r].session
           o == tx[r].orch
           next == AfterAnswer(o)
           answered == Append(turns[s], Say(tx[r].seq, "answer"))
<1>1. s \in Sessions /\ o \in Orch /\ tx[r].seq \in Nat
  BY DEF Respond, TypeInv, PitchTypeOK, Request
<1>2. next \in Orch /\ next.askedHere < Quota
  BY <1>1, AfterAnswerType
<1>3. answered \in Seq(Turn)
  BY <1>1, SayType DEF TypeInv, PitchTypeOK
<1>4. Close(r) /\ UNCHANGED <<status, runs>>
  BY DEF Respond
<1>5. CASE /\ phase' = [phase EXCEPT ![s] = "FREE_ROUND"]
           /\ orch' = [orch EXCEPT ![s] = Flushed(o, next, @)]
           /\ turns' = [turns EXCEPT ![s] = answered]
  <2> HIDE DEF s, o, next, answered
  <2>1. orch' \in [Sessions -> Orch]
    BY <1>1, <1>2, <1>5 DEF TypeInv, PitchTypeOK, Flushed
  <2>2. turns' \in [Sessions -> Seq(Turn)] /\ phase' \in [Sessions -> Phase]
    BY <1>3, <1>5 DEF TypeInv, PitchTypeOK, Phase
  <2> QED BY <1>4, <2>1, <2>2, TypeClose DEF TypeInv, PitchTypeOK
<1>6. CASE \E a \in Fresh(next) :
             /\ orch' = [orch EXCEPT ![s] = Served(next, a)]
             /\ turns' = [turns EXCEPT ![s] = Append(answered, Ask(tx[r].seq + 1, a))]
             /\ UNCHANGED phase
  <2>1. PICK a \in Fresh(next) :
          /\ orch' = [orch EXCEPT ![s] = Served(next, a)]
          /\ turns' = [turns EXCEPT ![s] = Append(answered, Ask(tx[r].seq + 1, a))]
          /\ UNCHANGED phase
    BY <1>6
  <2> HIDE DEF s, o, next, answered
  <2>2. a \in Angles
    BY <1>2, <2>1, FreshAngles
  <2>3. orch' \in [Sessions -> Orch]
    BY <1>1, <1>2, <2>1, <2>2, ServedType DEF TypeInv, PitchTypeOK
  <2>4. Ask(tx[r].seq + 1, a) \in Turn
    BY <1>1, <2>2, AskType
  <2>5. Append(answered, Ask(tx[r].seq + 1, a)) \in Seq(Turn)
    BY <1>3, <2>4
  <2>6. turns' \in [Sessions -> Seq(Turn)]
    BY <2>1, <2>5 DEF TypeInv, PitchTypeOK
  <2> QED BY <1>4, <2>1, <2>3, <2>6, TypeClose DEF TypeInv, PitchTypeOK
<1> QED BY <1>5, <1>6, RespondCases

\* What a deliberation adds to the timeline: the free round, then the verdicts.
Deliberation(n, seq) ==
    [i \in 1..(n + Len(Order)) |-> Say(seq + i - 1, IF i <= n THEN "free_round" ELSE "verdict")]

LEMMA ExchangesType == ASSUME NEW c PROVE Exchanges(c) \in Nat
  BY DEF Exchanges

LEMMA DeliberationType ==
  ASSUME NEW n \in Nat, NEW seq \in Nat
  PROVE  Deliberation(n, seq) \in Seq(Turn) /\ Len(Deliberation(n, seq)) = n + Len(Order)
<1>1. n + Len(Order) \in Nat
  BY OrderLength
<1>2. ASSUME NEW i \in 1..(n + Len(Order))
      PROVE  Say(seq + i - 1, IF i <= n THEN "free_round" ELSE "verdict") \in Turn
  <2>1. seq + i - 1 \in Nat
    BY <1>1
  <2> QED BY <2>1, SayType
<1> QED BY <1>1, <1>2 DEF Deliberation

LEMMA TypeCompletes == ASSUME TypeInv, NEW r \in Requests, Completes(r) PROVE TypeInv'
<1> DEFINE s == tx[r].session
           n == Exchanges(tx[r].orch.convictions)
<1>1. s \in Sessions /\ tx[r].seq \in Nat /\ n \in Nat
  BY ExchangesType DEF Completes, TypeInv, PitchTypeOK, Request
<1>2. /\ turns' = [turns EXCEPT ![s] = @ \o Deliberation(n, tx[r].seq)]
      /\ runs' = [runs EXCEPT ![s] = @ + 1]
      /\ phase' = [phase EXCEPT ![s] = "COMPLETED"]
      /\ status' = [status EXCEPT ![s] = Flushed(tx[r].status, "COMPLETED", @)]
      /\ Close(r) /\ UNCHANGED orch
  BY DEF Completes, Deliberation
<1> HIDE DEF s, n
<1>3. turns[s] \o Deliberation(n, tx[r].seq) \in Seq(Turn)
  <2>1. turns[s] \in Seq(Turn)
    BY <1>1 DEF TypeInv, PitchTypeOK
  <2>2. Deliberation(n, tx[r].seq) \in Seq(Turn)
    BY <1>1, DeliberationType
  <2> QED BY <2>1, <2>2, ConcatProperties
<1>4. turns' \in [Sessions -> Seq(Turn)]
  BY <1>2, <1>3 DEF TypeInv, PitchTypeOK
<1>5. runs' \in [Sessions -> Nat] /\ phase' \in [Sessions -> Phase] /\ status' \in [Sessions -> Status]
  BY <1>1, <1>2 DEF TypeInv, PitchTypeOK, Phase, Status, Flushed
<1> QED BY <1>2, <1>4, <1>5, TypeClose DEF TypeInv, PitchTypeOK

LEMMA TypeDeliberate == ASSUME TypeInv, NEW r \in Requests, Deliberate(r) PROVE TypeInv'
<1>1. tx[r].session \in Sessions /\ tx[r] \in Request /\ tx[r].op = "deliberate"
  BY DEF Deliberate, TypeInv, PitchTypeOK
<1>2. Len(turns[tx[r].session]) \in Nat
  BY <1>1 DEF TypeInv, PitchTypeOK
<1> DEFINE q == [tx[r] EXCEPT !.locked = TRUE, !.seq = Len(turns[tx[r].session])]
<1>3. q \in Request /\ q.session \in Sessions
  BY <1>1, <1>2 DEF Request
<1>4. tx' = [tx EXCEPT ![r] = q] /\ UNCHANGED rows
  BY DEF Deliberate, TypeInv, PitchTypeOK
<1> HIDE DEF q
<1> QED BY <1>3, <1>4 DEF TypeInv, PitchTypeOK, rows

LEMMA TypeAbandon == ASSUME TypeInv, NEW r \in Requests, Abandon(r) PROVE TypeInv'
<1>1. status' \in [Sessions -> Status]
  BY DEF Abandon, TypeInv, PitchTypeOK, Status, Flushed
<1> QED BY <1>1, TypeClose DEF Abandon, TypeInv, PitchTypeOK

LEMMA TypeStep == TypeInv /\ [PitchNext]_pitchVars => TypeInv'
<1> SUFFICES ASSUME TypeInv, [PitchNext]_pitchVars PROVE TypeInv'
  OBVIOUS
<1>1. ASSUME NEW r \in Requests, DeliberationFails(r) PROVE TypeInv'
  BY <1>1, TypeClose DEF DeliberationFails, rows, TypeInv, PitchTypeOK
<1>2. CASE UNCHANGED pitchVars
  BY <1>2 DEF pitchVars, rows, TypeInv, PitchTypeOK
<1> QED
  BY <1>1, <1>2, TypeStart, TypeLoad, TypeStartPitch, TypeNarrate, TypeEndPitch, TypeRespond,
     TypeDeliberate, TypeCompletes, TypeAbandon
  DEF PitchNext, Serve

\* The rows, the timelines and what the requests have loaded are always of their types; the count
\* of the questions of a judge stays within his quota and the convictions within -2..2, whatever
\* requests overlap.
THEOREM PitchTypeCorrect == PitchSpec => []PitchTypeOK
<1>1. PitchSpec => []TypeInv
  BY TypeInit, TypeStep, PTL DEF PitchSpec
<1>2. TypeInv => PitchTypeOK
  BY DEF TypeInv
<1> QED BY <1>1, <1>2, PTL

-----------------------------------------------------------------------------
(* The post-mortems, whatever overlaps.                                    *)

VerdictsIn(q) == {i \in 1..Len(q) : q[i].kind = "verdict"}

LEMMA VerdictsFinite ==
  ASSUME NEW q \in Seq(Turn)
  PROVE  IsFiniteSet(VerdictsIn(q)) /\ Cardinality(VerdictsIn(q)) \in Nat
<1>1. IsFiniteSet(1..Len(q))
  BY FS_Interval
<1>2. VerdictsIn(q) \in SUBSET (1..Len(q))
  BY DEF VerdictsIn
<1> QED BY <1>1, <1>2, FS_Subset, FS_CardinalityType

\* Any other turn leaves the verdicts where they are.
LEMMA VerdictsAppend ==
  ASSUME NEW q \in Seq(Turn), NEW t \in Turn, t.kind # "verdict"
  PROVE  VerdictsIn(Append(q, t)) = VerdictsIn(q)
<1>1. Len(q) \in Nat /\ Len(Append(q, t)) = Len(q) + 1 /\ Append(q, t)[Len(q) + 1] = t
  OBVIOUS
<1>2. \A i \in 1..Len(q) : Append(q, t)[i] = q[i]
  OBVIOUS
<1> QED BY <1>1, <1>2 DEF VerdictsIn

\* A deliberation adds the words of each judge, once.
LEMMA VerdictsDeliberated ==
  ASSUME NEW q \in Seq(Turn), NEW n \in Nat, NEW seq \in Nat
  PROVE  Cardinality(VerdictsIn(q \o Deliberation(n, seq))) = Cardinality(VerdictsIn(q)) + Len(Order)
<1> DEFINE d == Deliberation(n, seq)
           new == (Len(q) + n + 1)..(Len(q) + n + Len(Order))
<1>1. d \in Seq(Turn) /\ Len(d) = n + Len(Order)
  BY DeliberationType
<1>2. Len(q) \in Nat /\ Len(Order) \in Nat /\ Len(Order) > 0
  BY OrderLength
<1>3. \A i \in 1..(n + Len(Order)) : d[i].kind = "verdict" <=> i > n
  BY <1>2 DEF Deliberation, Say
<1> HIDE DEF d
<1>4. /\ Len(q \o d) = Len(q) + n + Len(Order)
      /\ \A i \in 1..Len(q) : (q \o d)[i] = q[i]
      /\ \A i \in (Len(q) + 1)..(Len(q) + n + Len(Order)) : (q \o d)[i] = d[i - Len(q)]
  BY <1>1, <1>2
<1>5. \A i \in (Len(q) + 1)..(Len(q) + n + Len(Order)) :
         (q \o d)[i].kind = "verdict" <=> i - Len(q) > n
  BY <1>2, <1>3, <1>4
<1>6. VerdictsIn(q \o d) = VerdictsIn(q) \cup new
  BY <1>2, <1>4, <1>5 DEF VerdictsIn
<1>7. VerdictsIn(q) \cap new = {}
  BY <1>2 DEF VerdictsIn
<1>8. IsFiniteSet(new) /\ Cardinality(new) = Len(Order)
  <2>1. DEFINE a == Len(q) + n + 1
               b == Len(q) + n + Len(Order)
  <2>2. a \in Int /\ b \in Int /\ ~ a > b /\ b - a + 1 = Len(Order)
    BY <1>2
  <2> HIDE DEF a, b
  <2>3. IsFiniteSet(a..b) /\ Cardinality(a..b) = Len(Order)
    BY <2>2, FS_Interval
  <2> QED BY <2>3 DEF a, b
<1> HIDE DEF new
<1>9. Cardinality(VerdictsIn(q \o d)) = Cardinality(VerdictsIn(q)) + Cardinality(new) - Cardinality({})
  BY <1>6, <1>7, <1>8, VerdictsFinite, FS_Union
<1>10. Cardinality(VerdictsIn(q)) \in Nat /\ Cardinality({}) = 0
  BY VerdictsFinite, FS_EmptySet
<1> QED BY <1>2, <1>8, <1>9, <1>10 DEF d

\* The invariant of the runs: a session that is not created has none.
RunInv ==
    /\ CompletedHasRun
    /\ \A s \in Sessions : Cardinality(VerdictsIn(turns[s])) = runs[s] * Len(Order)
    /\ \A s \in Sessions : phase[s] = "NONE" => runs[s] = 0

\* A step of which no post-mortem comes out.
Quiet ==
    /\ runs' = runs
    /\ \A s \in Sessions :
          /\ VerdictsIn(turns'[s]) = VerdictsIn(turns[s])
          /\ phase'[s] # phase[s] => phase'[s] \notin {"NONE", "COMPLETED"}
          /\ status'[s] # status[s] => status'[s] # "COMPLETED"

LEMMA QuietKeepsRuns == ASSUME TypeInv, RunInv, Quiet PROVE RunInv'
<1>1. CompletedHasRun'
  BY DEF TypeInv, PitchTypeOK, RunInv, Quiet, CompletedHasRun
<1>2. \A s \in Sessions : phase'[s] = "NONE" => runs'[s] = 0
  BY DEF RunInv, Quiet
<1>3. \A s \in Sessions : Cardinality(VerdictsIn(turns'[s])) = runs'[s] * Len(Order)
  BY DEF RunInv, Quiet
<1> QED BY <1>1, <1>2, <1>3 DEF RunInv, VerdictsIn

LEMMA QuietSteps ==
  ASSUME TypeInv, RunInv, [PitchNext]_pitchVars,
         \A s \in Sessions : ~ StartSession(s), \A r \in Requests : ~ Completes(r)
  PROVE  Quiet
<1>1. ASSUME NEW r \in Requests, NEW op \in Operations, NEW s \in Sessions, Load(r, op, s) PROVE Quiet
  BY <1>1 DEF Load, Quiet, rows
<1>2. ASSUME NEW r \in Requests, StartPitch(r) PROVE Quiet
  BY <1>2 DEF StartPitch, Quiet, TypeInv, PitchTypeOK
<1>3. ASSUME NEW r \in Requests, NEW weak \in SUBSET Assessable, Narrate(r, weak) PROVE Quiet
  <2> DEFINE said == [Say(tx[r].seq, "narration") EXCEPT !.weak = weak]
  <2>1. tx[r].seq \in Nat
    BY <1>3 DEF TypeInv, PitchTypeOK, Request
  <2>2. said \in Turn /\ said.kind # "verdict"
    BY <2>1, SayType DEF Turn, Say
  <2>3. /\ turns' = [turns EXCEPT ![tx[r].session] = Append(@, said)]
        /\ UNCHANGED <<phase, status, runs>>
    BY <1>3 DEF Narrate
  <2> HIDE DEF said
  <2>4. \A s \in Sessions : turns'[s] = turns[s] \/ turns'[s] = Append(turns[s], said)
    BY <2>3 DEF TypeInv, PitchTypeOK
  <2>5. \A s \in Sessions : VerdictsIn(turns'[s]) = VerdictsIn(turns[s])
    BY <2>2, <2>4, VerdictsAppend DEF TypeInv, PitchTypeOK
  <2> QED BY <2>3, <2>5 DEF Quiet
<1>4. ASSUME NEW r \in Requests, EndPitch(r) PROVE Quiet
  <2>1. tx[r].seq \in Nat /\ tx[r].orch \in Orch
    BY <1>4 DEF TypeInv, PitchTypeOK, Request
  <2> DEFINE opened == [Blank EXCEPT !.convictions = tx[r].orch.convictions, !.ready = TRUE,
                                     !.history = QuestionsAsked]
  <2>2. PICK a \in Fresh(opened) : turns' = [turns EXCEPT ![tx[r].session] = Append(@, Ask(tx[r].seq, a))]
    BY <1>4 DEF EndPitch
  <2>3. opened \in Orch
    BY <2>1, OpenedType
  <2>4. Ask(tx[r].seq, a) \in Turn /\ Ask(tx[r].seq, a).kind # "verdict"
    BY <2>1, <2>2, <2>3, FreshAngles, AskType DEF Ask
  <2> HIDE DEF opened
  <2>5. \A s \in Sessions : turns'[s] = turns[s] \/ turns'[s] = Append(turns[s], Ask(tx[r].seq, a))
    BY <2>2 DEF TypeInv, PitchTypeOK
  <2>6. \A s \in Sessions : VerdictsIn(turns'[s]) = VerdictsIn(turns[s])
    BY <2>4, <2>5, VerdictsAppend DEF TypeInv, PitchTypeOK
  <2>7. phase' = [phase EXCEPT ![tx[r].session] = "QA"] /\ UNCHANGED <<status, runs>>
    BY <1>4 DEF EndPitch
  <2> QED BY <2>6, <2>7 DEF Quiet, TypeInv, PitchTypeOK
<1>5. ASSUME NEW r \in Requests, Respond(r) PROVE Quiet
  <2> DEFINE next == AfterAnswer(tx[r].orch)
             said == Say(tx[r].seq, "answer")
             s == tx[r].session
  <2>1. tx[r].seq \in Nat /\ tx[r].orch \in Orch /\ next \in Orch /\ s \in Sessions
    BY <1>5, AfterAnswerType DEF Respond, TypeInv, PitchTypeOK, Request
  <2>2. said \in Turn /\ said.kind # "verdict"
    BY <2>1, SayType DEF Say
  <2>3. UNCHANGED <<status, runs>>
    BY <1>5 DEF Respond
  <2>4. /\ turns[s] \in Seq(Turn) /\ Append(turns[s], said) \in Seq(Turn)
        /\ VerdictsIn(Append(turns[s], said)) = VerdictsIn(turns[s])
    BY <2>1, <2>2, VerdictsAppend DEF TypeInv, PitchTypeOK
  <2>5. CASE /\ phase' = [phase EXCEPT ![s] = "FREE_ROUND"]
             /\ turns' = [turns EXCEPT ![s] = Append(turns[s], said)]
    <3> HIDE DEF s, said
    <3> QED BY <2>3, <2>4, <2>5 DEF Quiet, TypeInv, PitchTypeOK
  <2>6. CASE \E a \in Fresh(next) :
               /\ turns' = [turns EXCEPT ![s] = Append(Append(turns[s], said), Ask(tx[r].seq + 1, a))]
               /\ UNCHANGED phase
    <3>1. PICK a \in Fresh(next) :
            /\ turns' = [turns EXCEPT ![s] = Append(Append(turns[s], said), Ask(tx[r].seq + 1, a))]
            /\ UNCHANGED phase
      BY <2>6
    <3>2. Ask(tx[r].seq + 1, a) \in Turn /\ Ask(tx[r].seq + 1, a).kind # "verdict"
      BY <2>1, <3>1, FreshAngles, AskType DEF Ask
    <3> HIDE DEF s, said, next
    <3>3. VerdictsIn(Append(Append(turns[s], said), Ask(tx[r].seq + 1, a))) = VerdictsIn(turns[s])
      BY <2>4, <3>2, VerdictsAppend
    <3> QED BY <2>3, <3>1, <3>3 DEF Quiet, TypeInv, PitchTypeOK
  <2> QED BY <1>5, <2>5, <2>6, RespondCases
<1>6. ASSUME NEW r \in Requests, Deliberate(r) \/ DeliberationFails(r) PROVE Quiet
  BY <1>6 DEF Deliberate, DeliberationFails, rows, Quiet
<1>7. ASSUME NEW r \in Requests, Abandon(r) PROVE Quiet
  BY <1>7 DEF Abandon, Quiet, TypeInv, PitchTypeOK, Flushed
<1>8. CASE UNCHANGED pitchVars
  BY <1>8 DEF pitchVars, rows, Quiet
<1> QED BY <1>1, <1>2, <1>3, <1>4, <1>5, <1>6, <1>7, <1>8 DEF PitchNext, Serve

LEMMA StartKeepsRuns ==
  ASSUME TypeInv, RunInv, NEW s \in Sessions, StartSession(s)
  PROVE  RunInv'
<1>1. Cardinality(VerdictsIn(turns'[s])) = runs'[s] * Len(Order)
  <2>1. VerdictsIn(<<Say(0, "system")>>) = {}
    BY DEF VerdictsIn, Say
  <2>2. runs[s] = 0 /\ runs' = runs /\ turns'[s] = <<Say(0, "system")>>
    BY DEF StartSession, RunInv, TypeInv, PitchTypeOK
  <2>3. Cardinality(VerdictsIn(turns'[s])) = 0
    BY <2>1, <2>2, FS_EmptySet
  <2>4. runs'[s] * Len(Order) = 0
    BY <2>2, OrderLength
  <2> QED BY <2>3, <2>4
<1>2. \A t \in Sessions : t # s => turns'[t] = turns[t] /\ runs'[t] = runs[t]
  BY DEF StartSession, TypeInv, PitchTypeOK
<1>3. \A t \in Sessions : Cardinality(VerdictsIn(turns'[t])) = runs'[t] * Len(Order)
  BY <1>1, <1>2 DEF RunInv
<1>4. CompletedHasRun' /\ \A t \in Sessions : phase'[t] = "NONE" => runs'[t] = 0
  BY DEF StartSession, RunInv, CompletedHasRun, TypeInv, PitchTypeOK
<1> QED BY <1>3, <1>4 DEF RunInv, VerdictsIn

LEMMA CompletesKeepsRuns ==
  ASSUME TypeInv, RunInv, NEW r \in Requests, Completes(r)
  PROVE  RunInv'
<1> DEFINE s == tx[r].session
           n == Exchanges(tx[r].orch.convictions)
           d == Deliberation(n, tx[r].seq)
<1>1. s \in Sessions /\ tx[r].seq \in Nat /\ n \in Nat
  BY ExchangesType DEF Completes, TypeInv, PitchTypeOK, Request
<1>2. /\ turns' = [turns EXCEPT ![s] = turns[s] \o d]
      /\ runs' = [runs EXCEPT ![s] = runs[s] + 1]
      /\ phase' = [phase EXCEPT ![s] = "COMPLETED"]
      /\ status' = [status EXCEPT ![s] = Flushed(tx[r].status, "COMPLETED", @)]
  BY DEF Completes, Deliberation
<1>3. Cardinality(VerdictsIn(turns[s] \o d)) = Cardinality(VerdictsIn(turns[s])) + Len(Order)
  BY <1>1, VerdictsDeliberated DEF TypeInv, PitchTypeOK
<1> HIDE DEF s, n, d
<1>4. runs[s] \in Nat /\ Cardinality(VerdictsIn(turns[s])) = runs[s] * Len(Order)
  BY <1>1 DEF RunInv, TypeInv, PitchTypeOK
<1>5. (runs[s] + 1) * Len(Order) = runs[s] * Len(Order) + Len(Order)
  BY <1>4, OrderLength
<1>6. turns'[s] = turns[s] \o d /\ runs'[s] = runs[s] + 1
  BY <1>1, <1>2 DEF TypeInv, PitchTypeOK
<1>7. Cardinality(VerdictsIn(turns'[s])) = runs'[s] * Len(Order)
  BY <1>3, <1>4, <1>5, <1>6
<1>8. \A t \in Sessions : t # s => turns'[t] = turns[t] /\ runs'[t] = runs[t]
  BY <1>2 DEF TypeInv, PitchTypeOK
<1>9. \A t \in Sessions : Cardinality(VerdictsIn(turns'[t])) = runs'[t] * Len(Order)
  BY <1>7, <1>8 DEF RunInv
<1>10. \A t \in Sessions : phase'[t] = "NONE" => runs'[t] = 0
  BY <1>1, <1>2, <1>8 DEF RunInv, TypeInv, PitchTypeOK
<1>11. CompletedHasRun'
  BY <1>2, <1>4, <1>6, <1>8 DEF RunInv, CompletedHasRun, TypeInv, PitchTypeOK
<1> QED BY <1>9, <1>10, <1>11 DEF RunInv, VerdictsIn

LEMMA RunInit == PitchInit => RunInv
<1> SUFFICES ASSUME PitchInit PROVE RunInv
  OBVIOUS
<1>1. VerdictsIn(<<>>) = {}
  BY DEF VerdictsIn
<1>2. \A s \in Sessions : turns[s] = <<>> /\ runs[s] = 0 /\ phase[s] = "NONE" /\ status[s] = "IN_PROGRESS"
  BY DEF PitchInit
<1>3. \A s \in Sessions : Cardinality(VerdictsIn(turns[s])) = 0
  BY <1>1, <1>2, FS_EmptySet
<1>4. 0 * Len(Order) = 0
  BY OrderLength
<1> QED BY <1>2, <1>3, <1>4 DEF RunInv, CompletedHasRun

LEMMA RunStep == TypeInv /\ RunInv /\ [PitchNext]_pitchVars => RunInv'
<1> SUFFICES ASSUME TypeInv, RunInv, [PitchNext]_pitchVars PROVE RunInv'
  OBVIOUS
<1>1. CASE (\A s \in Sessions : ~ StartSession(s)) /\ (\A r \in Requests : ~ Completes(r))
  BY <1>1, QuietSteps, QuietKeepsRuns
<1> QED BY <1>1, StartKeepsRuns, CompletesKeepsRuns

LEMMA RunsCorrect == PitchSpec => []RunInv
<1>1. PitchSpec => []TypeInv
  BY TypeInit, TypeStep, PTL DEF PitchSpec
<1> QED BY <1>1, RunInit, RunStep, PTL DEF PitchSpec

\* A session that is shown as completed has a post-mortem, whatever the requests that overlapped
\* have overwritten: _score inserts the run in the transaction that ends the session.
THEOREM PitchCompletedHasRun == PitchSpec => []CompletedHasRun
<1>1. RunInv => CompletedHasRun
  BY DEF RunInv
<1> QED BY <1>1, RunsCorrect, PTL

\* Every run has the words of each judge, once for each run, even when two deliberations of one
\* session both succeed.
THEOREM PitchRunsHaveVerdicts == PitchSpec => []RunsHaveVerdicts
<1>1. RunInv => RunsHaveVerdicts
  BY DEF RunInv, RunsHaveVerdicts, Count, VerdictsIn
<1> QED BY <1>1, RunsCorrect, PTL

-----------------------------------------------------------------------------
(* One request at a time on each session.                                  *)

\* What an open request has loaded is what the row still holds.
Alone ==
    \A r \in Requests : tx[r].op # "none" =>
        LET s == tx[r].session
        IN  /\ tx[r].op \in Operations /\ phase[s] \in OpenIn[tx[r].op]
            /\ tx[r].status = status[s] /\ tx[r].orch = orch[s] /\ tx[r].seq = Len(turns[s])
            /\ \A q \in Requests : tx[q].session = s => q = r

\* The phase that an operation has checked.
LEMMA PhaseChecked ==
  ASSUME Alone, NEW r \in Requests
  PROVE  LET s == tx[r].session
         IN  /\ tx[r].op = "start" => phase[s] = "BRIEFING"
             /\ tx[r].op = "narrate" => phase[s] = "PITCHING"
             /\ tx[r].op = "end" => phase[s] = "PITCHING"
             /\ tx[r].op = "respond" => phase[s] = "QA"
             /\ tx[r].op = "deliberate" => phase[s] \in {"QA", "FREE_ROUND"}
<1>1. /\ OpenIn["start"] = {"BRIEFING"} /\ OpenIn["narrate"] = {"PITCHING"}
      /\ OpenIn["end"] = {"PITCHING"} /\ OpenIn["respond"] = {"QA"}
      /\ OpenIn["deliberate"] = {"QA", "FREE_ROUND"}
  BY DEF OpenIn
<1>2. tx[r].op # "none" => phase[tx[r].session] \in OpenIn[tx[r].op]
  BY DEF Alone
<1> QED BY <1>1, <1>2

LEMMA NotCreated == \A op \in Operations : "NONE" \notin OpenIn[op]
  BY DEF Operations, OpenIn, Phase

\* A step of the request r changes the rows of its session only, and closes it.
LEMMA AloneServed ==
  ASSUME TypeInv, Alone, NEW r \in Requests, tx[r].op # "none", Close(r),
         \A s \in Sessions : s # tx[r].session =>
             /\ phase'[s] = phase[s] /\ status'[s] = status[s]
             /\ orch'[s] = orch[s] /\ turns'[s] = turns[s]
  PROVE  Alone'
<1>1. SUFFICES ASSUME NEW q \in Requests, tx'[q].op # "none"
               PROVE  LET s == tx'[q].session
                      IN  /\ tx'[q].op \in Operations /\ phase'[s] \in OpenIn[tx'[q].op]
                          /\ tx'[q].status = status'[s] /\ tx'[q].orch = orch'[s]
                          /\ tx'[q].seq = Len(turns'[s])
                          /\ \A p \in Requests : tx'[p].session = s => p = q
  BY DEF Alone, OpenIn, Operations
<1>2. q # r /\ tx'[q] = tx[q]
  BY <1>1 DEF Close, Idle, TypeInv, PitchTypeOK
<1>3. tx[q].session \in Sessions /\ tx[q].session # tx[r].session
  BY <1>1, <1>2 DEF TypeInv, Alone
<1>4. \A p \in Requests : tx'[p].session = tx[q].session => tx[p].session = tx[q].session
  BY <1>2, <1>3, PitchAssumption DEF Close, Idle, TypeInv, PitchTypeOK
<1> QED BY <1>1, <1>2, <1>3, <1>4 DEF Alone

LEMMA AloneLoad ==
  ASSUME TypeInv, Alone, Overlap = FALSE,
         NEW r \in Requests, NEW op \in Operations, NEW s \in Sessions, Load(r, op, s)
  PROVE  Alone'
<1>1. /\ tx' = [tx EXCEPT ![r] = [op |-> op, session |-> s, locked |-> FALSE, phase |-> phase[s],
                                  status |-> status[s], orch |-> orch[s], seq |-> Len(turns[s])]]
      /\ phase[s] \in OpenIn[op] /\ \A q \in Requests : tx[q].session # s
      /\ UNCHANGED rows
  BY DEF Load
<1> QED BY <1>1 DEF Alone, TypeInv, PitchTypeOK, rows, OpenIn

LEMMA AloneStart ==
  ASSUME TypeInv, Alone, NEW s \in Sessions, StartSession(s)
  PROVE  Alone'
<1>1. \A r \in Requests : tx[r].op # "none" => tx[r].session # s
  BY NotCreated DEF Alone, StartSession
<1> QED BY <1>1 DEF StartSession, Alone, TypeInv, PitchTypeOK, OpenIn

LEMMA AloneInit == PitchInit => Alone
  BY DEF PitchInit, Idle, Alone

LEMMA AloneStep == Overlap = FALSE /\ TypeInv /\ Alone /\ [PitchNext]_pitchVars => Alone'
<1> SUFFICES ASSUME Overlap = FALSE, TypeInv, Alone, [PitchNext]_pitchVars PROVE Alone'
  OBVIOUS
<1> USE DEF TypeInv, PitchTypeOK
<1>1. ASSUME NEW r \in Requests, StartPitch(r) PROVE Alone'
  BY <1>1, AloneServed DEF StartPitch
<1>2. ASSUME NEW r \in Requests, NEW weak \in SUBSET Assessable, Narrate(r, weak) PROVE Alone'
  BY <1>2, AloneServed DEF Narrate
<1>3. ASSUME NEW r \in Requests, EndPitch(r) PROVE Alone'
  BY <1>3, AloneServed DEF EndPitch
<1>4. ASSUME NEW r \in Requests, Respond(r) PROVE Alone'
  BY <1>4, AloneServed DEF Respond
<1>5. ASSUME NEW r \in Requests, Deliberate(r) PROVE Alone'
  <2> DEFINE q == [tx[r] EXCEPT !.locked = TRUE, !.seq = Len(turns[tx[r].session])]
  <2>1. tx' = [tx EXCEPT ![r] = q] /\ UNCHANGED rows
    BY <1>5 DEF Deliberate
  <2>2. /\ tx[r].op = "deliberate" /\ q.op = tx[r].op /\ q.session = tx[r].session
        /\ q.status = tx[r].status /\ q.orch = tx[r].orch /\ q.seq = Len(turns[tx[r].session])
    BY <1>5 DEF Deliberate, Request
  <2> HIDE DEF q
  <2>3. \A p \in Requests :
           /\ tx'[p].op = tx[p].op /\ tx'[p].session = tx[p].session
           /\ tx'[p].status = tx[p].status /\ tx'[p].orch = tx[p].orch
           /\ tx'[p].seq = tx[p].seq \/ tx'[p].seq = Len(turns[tx[p].session])
    BY <2>1, <2>2
  <2>4. phase' = phase /\ status' = status /\ orch' = orch /\ turns' = turns
    BY <2>1 DEF rows
  <2>5. ASSUME NEW p \in Requests, tx'[p].op # "none"
        PROVE  LET s == tx'[p].session
               IN  /\ tx'[p].op \in Operations /\ phase'[s] \in OpenIn[tx'[p].op]
                   /\ tx'[p].status = status'[s] /\ tx'[p].orch = orch'[s]
                   /\ tx'[p].seq = Len(turns'[s])
                   /\ \A q1 \in Requests : tx'[q1].session = s => q1 = p
    <3>1. tx[p].op # "none"
      BY <2>3, <2>5
    <3>2. LET s == tx[p].session
          IN  /\ tx[p].op \in Operations /\ phase[s] \in OpenIn[tx[p].op]
              /\ tx[p].status = status[s] /\ tx[p].orch = orch[s] /\ tx[p].seq = Len(turns[s])
              /\ \A q1 \in Requests : tx[q1].session = s => q1 = p
      BY <3>1 DEF Alone
    <3>3. tx'[p].seq = Len(turns[tx[p].session])
      BY <2>3, <3>2
    <3>4. \A q1 \in Requests : tx'[q1].session = tx'[p].session => q1 = p
      BY <2>3, <3>2
    <3>5. /\ tx'[p].op \in Operations /\ phase'[tx'[p].session] \in OpenIn[tx'[p].op]
          /\ tx'[p].status = status'[tx'[p].session]
      BY <2>3, <2>4, <3>2
    <3>6. /\ tx'[p].orch = orch'[tx'[p].session]
          /\ tx'[p].seq = Len(turns'[tx'[p].session])
      BY <2>3, <2>4, <3>2, <3>3
    <3> QED BY <3>4, <3>5, <3>6
  <2> QED BY <2>5 DEF Alone, OpenIn, Operations
<1>6. ASSUME NEW r \in Requests, DeliberationFails(r) PROVE Alone'
  BY <1>6, AloneServed DEF DeliberationFails, rows
<1>7. ASSUME NEW r \in Requests, Completes(r) PROVE Alone'
  BY <1>7, AloneServed DEF Completes
<1>8. ASSUME NEW r \in Requests, Abandon(r) PROVE Alone'
  BY <1>8, AloneServed DEF Abandon
<1>9. CASE UNCHANGED pitchVars
  BY <1>9 DEF pitchVars, rows, Alone, OpenIn
<1> QED
  BY <1>1, <1>2, <1>3, <1>4, <1>5, <1>6, <1>7, <1>8, <1>9, AloneLoad, AloneStart DEF PitchNext, Serve

LEMMA AloneCorrect == ASSUME Overlap = FALSE PROVE PitchSpec => [](TypeInv /\ Alone)
<1>1. PitchSpec => []TypeInv
  BY TypeInit, TypeStep, PTL DEF PitchSpec
<1>2. TypeInv /\ Alone /\ [PitchNext]_pitchVars => Alone'
  BY AloneStep
<1> QED BY <1>1, <1>2, AloneInit, PTL DEF PitchSpec

LEMMA PhaseStep ==
  TypeInv /\ Alone /\ [PitchNext]_pitchVars =>
     \A s \in Sessions : phase'[s] # phase[s] => <<phase[s], phase'[s]>> \in PhaseMoves
<1> SUFFICES ASSUME TypeInv, Alone, [PitchNext]_pitchVars,
                    NEW s \in Sessions, phase'[s] # phase[s]
             PROVE  <<phase[s], phase'[s]>> \in PhaseMoves
  OBVIOUS
<1> USE DEF TypeInv, PitchTypeOK
<1>1. CASE \E z \in Sessions : StartSession(z)
  BY <1>1 DEF StartSession, PhaseMoves
<1>2. ASSUME NEW r \in Requests, Serve(r) PROVE <<phase[s], phase'[s]>> \in PhaseMoves
  <2>1. CASE StartPitch(r)
    BY <1>2, <2>1, PhaseChecked DEF StartPitch, PhaseMoves
  <2>2. CASE EndPitch(r)
    BY <1>2, <2>2, PhaseChecked DEF EndPitch, PhaseMoves
  <2>3. CASE Respond(r)
    <3>1. phase' = phase \/ phase' = [phase EXCEPT ![tx[r].session] = "FREE_ROUND"]
      BY <2>3 DEF Respond
    <3>2. tx[r].op = "respond"
      BY <2>3 DEF Respond
    <3> QED BY <3>1, <3>2, PhaseChecked DEF PhaseMoves
  <2>4. CASE Completes(r)
    BY <1>2, <2>4, PhaseChecked DEF Completes, PhaseMoves
  <2> QED BY <1>2, <2>1, <2>2, <2>3, <2>4
          DEF Serve, Narrate, Deliberate, DeliberationFails, Abandon, rows
<1> QED BY <1>1, <1>2 DEF PitchNext, Load, pitchVars, rows

LEMMA VerdictStep ==
  TypeInv /\ Alone /\ [PitchNext]_pitchVars =>
     \A s \in Sessions : phase[s] = "COMPLETED" => turns'[s] = turns[s] /\ runs'[s] = runs[s]
<1> SUFFICES ASSUME TypeInv, Alone, [PitchNext]_pitchVars,
                    NEW s \in Sessions, phase[s] = "COMPLETED"
             PROVE  turns'[s] = turns[s] /\ runs'[s] = runs[s]
  OBVIOUS
<1> USE DEF TypeInv, PitchTypeOK
<1>1. CASE \E z \in Sessions : StartSession(z)
  BY <1>1 DEF StartSession
<1>2. ASSUME NEW r \in Requests, Serve(r) PROVE turns'[s] = turns[s] /\ runs'[s] = runs[s]
  <2>1. CASE tx[r].op \in {"narrate", "end", "respond", "deliberate"}
    <3>1. tx[r].session # s
      BY <2>1, PhaseChecked
    <3> QED BY <1>2, <3>1 DEF Serve, Narrate, EndPitch, Respond, Deliberate, DeliberationFails,
                              Completes, Abandon, StartPitch, rows
  <2>2. CASE tx[r].op \notin {"narrate", "end", "respond", "deliberate"}
    BY <1>2, <2>2 DEF Serve, Narrate, EndPitch, Respond, Deliberate, DeliberationFails,
                      Completes, Abandon, StartPitch, rows
  <2> QED BY <2>1, <2>2
<1> QED BY <1>1, <1>2 DEF PitchNext, Load, pitchVars, rows

\* One request at a time, a session follows PHASE_TRANSITIONS: the check of each operation on the
\* phase it loaded is enough.
THEOREM PitchPhaseMachine == ASSUME Overlap = FALSE PROVE PitchSpec => PhaseMachine
<1>1. TypeInv /\ Alone /\ [PitchNext]_pitchVars =>
        [\A s \in Sessions : phase'[s] # phase[s] => <<phase[s], phase'[s]>> \in PhaseMoves]_pitchVars
  BY PhaseStep
<1> QED BY <1>1, AloneCorrect, PTL DEF PitchSpec, PhaseMachine

\* One request at a time, what a post-mortem shows does not change afterwards.
THEOREM PitchVerdictIsLast == ASSUME Overlap = FALSE PROVE PitchSpec => VerdictIsLast
<1>1. TypeInv /\ Alone /\ [PitchNext]_pitchVars =>
        [NothingFollows]_pitchVars
  BY VerdictStep DEF NothingFollows
<1> QED BY <1>1, AloneCorrect, PTL DEF PitchSpec, VerdictIsLast

Ordered(q) == \A i \in 1..Len(q) : q[i].seq = i - 1

LEMMA OrderedAppend ==
  ASSUME NEW q \in Seq(Turn), Ordered(q), NEW t \in Turn, t.seq = Len(q)
  PROVE  Append(q, t) \in Seq(Turn) /\ Ordered(Append(q, t)) /\ Len(Append(q, t)) = Len(q) + 1
<1>1. Len(q) \in Nat /\ Len(Append(q, t)) = Len(q) + 1 /\ Append(q, t)[Len(q) + 1] = t
  OBVIOUS
<1>2. \A i \in 1..Len(q) : Append(q, t)[i] = q[i]
  OBVIOUS
<1> QED BY <1>1, <1>2 DEF Ordered

LEMMA OrderedDeliberation ==
  ASSUME NEW q \in Seq(Turn), Ordered(q), NEW n \in Nat
  PROVE  Ordered(q \o Deliberation(n, Len(q)))
<1> DEFINE d == Deliberation(n, Len(q))
<1>1. d \in Seq(Turn) /\ Len(d) = n + Len(Order)
  <2>1. Len(q) \in Nat
    OBVIOUS
  <2> QED BY <2>1, DeliberationType
<1>2. Len(q) \in Nat /\ Len(Order) \in Nat
  BY OrderLength
<1>3. \A i \in 1..(n + Len(Order)) : d[i].seq = Len(q) + i - 1
  BY DEF Deliberation, Say
<1> HIDE DEF d
<1>4. /\ Len(q \o d) = Len(q) + n + Len(Order)
      /\ \A i \in 1..Len(q) : (q \o d)[i] = q[i]
      /\ \A i \in (Len(q) + 1)..(Len(q) + n + Len(Order)) : (q \o d)[i] = d[i - Len(q)]
  BY <1>1, <1>2
<1>5. \A i \in (Len(q) + 1)..(Len(q) + n + Len(Order)) : (q \o d)[i].seq = i - 1
  BY <1>2, <1>3, <1>4
<1> QED BY <1>2, <1>4, <1>5 DEF Ordered, d

LEMMA OrderedStep ==
  TypeInv /\ Alone /\ TimelineOrdered /\ [PitchNext]_pitchVars => TimelineOrdered'
<1> SUFFICES ASSUME TypeInv, Alone, TimelineOrdered, [PitchNext]_pitchVars,
                    NEW z \in Sessions
             PROVE  Ordered(turns'[z])
  BY DEF TimelineOrdered, Ordered
<1>1. \A s \in Sessions : turns[s] \in Seq(Turn) /\ Ordered(turns[s])
  BY DEF TimelineOrdered, Ordered, TypeInv, PitchTypeOK
<1>2. \A r \in Requests : tx[r].op # "none" =>
         /\ tx[r].session \in Sessions /\ tx[r].orch \in Orch /\ tx[r].seq \in Nat
         /\ tx[r].seq = Len(turns[tx[r].session])
  BY DEF TypeInv, PitchTypeOK, Request, Alone
<1>3. CASE turns' = turns
  BY <1>1, <1>3
<1>4. ASSUME NEW s \in Sessions, StartSession(s) PROVE Ordered(turns'[z])
  <2>1. turns'[z] = turns[z] \/ turns'[z] = <<Say(0, "system")>>
    BY <1>4 DEF StartSession, TypeInv, PitchTypeOK
  <2>2. Ordered(<<Say(0, "system")>>)
    BY DEF Ordered, Say
  <2> QED BY <1>1, <2>1, <2>2
<1>5. ASSUME NEW r \in Requests, NEW weak \in SUBSET Assessable, Narrate(r, weak) PROVE Ordered(turns'[z])
  <2> DEFINE said == [Say(tx[r].seq, "narration") EXCEPT !.weak = weak]
             s == tx[r].session
  <2>1. tx[r].op = "narrate" /\ turns' = [turns EXCEPT ![s] = Append(turns[s], said)]
    BY <1>5 DEF Narrate
  <2>2. said \in Turn /\ said.seq = Len(turns[s]) /\ s \in Sessions
    BY <1>2, <2>1, SayType DEF Turn, Say
  <2> HIDE DEF said, s
  <2>3. Ordered(Append(turns[s], said))
    BY <1>1, <2>2, OrderedAppend
  <2> QED BY <1>1, <2>1, <2>2, <2>3 DEF TypeInv, PitchTypeOK
<1>6. ASSUME NEW r \in Requests, EndPitch(r) PROVE Ordered(turns'[z])
  <2> DEFINE opened == [Blank EXCEPT !.convictions = tx[r].orch.convictions, !.ready = TRUE,
                                     !.history = QuestionsAsked]
             s == tx[r].session
  <2>1. PICK a \in Fresh(opened) : turns' = [turns EXCEPT ![s] = Append(turns[s], Ask(tx[r].seq, a))]
    BY <1>6 DEF EndPitch
  <2>2. tx[r].op = "end"
    BY <1>6 DEF EndPitch
  <2>3. a \in Angles
    BY <1>2, <2>1, <2>2, OpenedType, FreshAngles
  <2>4. Ask(tx[r].seq, a) \in Turn /\ Ask(tx[r].seq, a).seq = Len(turns[s]) /\ s \in Sessions
    BY <1>2, <2>2, <2>3, AskType DEF Ask
  <2> HIDE DEF opened, s
  <2>5. Ordered(Append(turns[s], Ask(tx[r].seq, a)))
    BY <1>1, <2>4, OrderedAppend
  <2> QED BY <1>1, <2>1, <2>4, <2>5 DEF TypeInv, PitchTypeOK
<1>7. ASSUME NEW r \in Requests, Respond(r) PROVE Ordered(turns'[z])
  <2> DEFINE next == AfterAnswer(tx[r].orch)
             said == Say(tx[r].seq, "answer")
             s == tx[r].session
  <2>1. tx[r].op = "respond"
    BY <1>7 DEF Respond
  <2>2. said \in Turn /\ said.seq = Len(turns[s]) /\ s \in Sessions /\ next \in Orch
    BY <1>2, <2>1, SayType, AfterAnswerType DEF Say
  <2>3. \/ turns' = [turns EXCEPT ![s] = Append(turns[s], said)]
        \/ \E a \in Fresh(next) :
             turns' = [turns EXCEPT ![s] = Append(Append(turns[s], said), Ask(tx[r].seq + 1, a))]
    BY <1>7, RespondCases
  <2>4. \A a \in Fresh(next) :
           Ask(tx[r].seq + 1, a) \in Turn /\ Ask(tx[r].seq + 1, a).seq = Len(turns[s]) + 1
    <3>1. tx[r].seq + 1 \in Nat /\ tx[r].seq = Len(turns[s])
      BY <1>2, <2>1
    <3>2. Fresh(next) \subseteq Angles
      BY <2>2, FreshAngles
    <3> HIDE DEF next, s
    <3> QED BY <3>1, <3>2, AskType DEF Ask
  <2> HIDE DEF next, said, s
  <2>5. /\ Append(turns[s], said) \in Seq(Turn) /\ Ordered(Append(turns[s], said))
        /\ Len(Append(turns[s], said)) = Len(turns[s]) + 1
    BY <1>1, <2>2, OrderedAppend
  <2>6. \A a \in Fresh(next) : Ordered(Append(Append(turns[s], said), Ask(tx[r].seq + 1, a)))
    BY <2>4, <2>5, OrderedAppend
  <2> QED BY <1>1, <2>2, <2>3, <2>5, <2>6 DEF TypeInv, PitchTypeOK
<1>8. ASSUME NEW r \in Requests, Completes(r) PROVE Ordered(turns'[z])
  <2> DEFINE s == tx[r].session
             n == Exchanges(tx[r].orch.convictions)
  <2>1. turns' = [turns EXCEPT ![s] = turns[s] \o Deliberation(n, tx[r].seq)]
    BY <1>8 DEF Completes, Deliberation
  <2>2. s \in Sessions /\ tx[r].seq = Len(turns[s]) /\ n \in Nat
    BY <1>2, <1>8, ExchangesType DEF Completes
  <2> HIDE DEF s, n
  <2>3. Ordered(turns[s] \o Deliberation(n, tx[r].seq))
    BY <1>1, <2>2, OrderedDeliberation
  <2> QED BY <1>1, <2>1, <2>2, <2>3 DEF TypeInv, PitchTypeOK
<1> QED
  BY <1>3, <1>4, <1>5, <1>6, <1>7, <1>8
  DEF PitchNext, Serve, Load, StartPitch, Deliberate, DeliberationFails, Abandon, pitchVars, rows

\* One request at a time, the turns of a timeline are numbered without a gap or a double, although
\* _add numbers them by a count of its own.
THEOREM PitchTimelineOrdered == ASSUME Overlap = FALSE PROVE PitchSpec => []TimelineOrdered
<1>1. PitchInit => TimelineOrdered
  BY DEF PitchInit, TimelineOrdered
<1>2. TypeInv /\ Alone /\ TimelineOrdered /\ [PitchNext]_pitchVars => TimelineOrdered'
  BY OrderedStep
<1> QED BY <1>1, <1>2, AloneCorrect, PTL DEF PitchSpec

\* The timeline is ordered and, once the verdict is given, closed.
THEOREM PitchPostMortemKept == ASSUME Overlap = FALSE PROVE PitchSpec => PostMortemKept
<1>1. TimelineOrdered' /\ [NothingFollows]_pitchVars => [TimelineOrdered' /\ NothingFollows]_pitchVars
  OBVIOUS
<1> QED BY <1>1, PitchTimelineOrdered, PitchVerdictIsLast, PTL DEF PostMortemKept, VerdictIsLast

-----------------------------------------------------------------------------
(* The Q&A is fair.                                                        *)

\* The turns of a kind in a timeline, and the angles of its questions.
TurnsOf(q, kind) == {i \in 1..Len(q) : q[i].kind = kind}
AnglesOf(q) == UNION {q[i].angle : i \in 1..Len(q)}

\* The places of the judges of an axis who had the floor before the k-th.
Before(k, x) == {i \in 1..(k - 1) : Obsession[Order[i]] = x}

\* An axis has no angle left, or its judges have asked their quotas, the last of them `here` so far.
Treated(o, k, x, here) ==
    \/ Pool[x] \subseteq o.asked
    \/ Cardinality(Pool[x] \cap o.asked) = Quota * Cardinality(Before(k, x)) + here

HereOf(o, x) == IF Obsession[Order[o.floor]] = x THEN o.askedHere ELSE 0

\* NobodySkipped is about the end of the Q&A: what leads there is that, all along, the axes of the
\* judges who had the floor are treated, and that of the one who has it as far as he got.
Fair(ph, o, q) ==
    /\ IsFiniteSet(o.asked) /\ o.asked = AnglesOf(q)
    /\ Cardinality(TurnsOf(q, "question")) = Cardinality(o.asked)
    /\ ph \in {"NONE", "BRIEFING", "PITCHING"} => o.asked = {} /\ TurnsOf(q, "answer") = {}
    /\ ph = "QA" =>
        /\ Cardinality(TurnsOf(q, "question")) = Cardinality(TurnsOf(q, "answer")) + 1
        /\ o.floor \in 1..Len(Order)
        /\ \A x \in Axes : Treated(o, o.floor, x, HereOf(o, x))
    /\ ph = "FREE_ROUND" =>
        /\ Cardinality(TurnsOf(q, "question")) = Cardinality(TurnsOf(q, "answer"))
        /\ \A x \in Axes : Treated(o, Len(Order) + 1, x, 0)

LEMMA TurnsOfFinite ==
  ASSUME NEW q \in Seq(Turn), NEW kind
  PROVE  IsFiniteSet(TurnsOf(q, kind)) /\ Cardinality(TurnsOf(q, kind)) \in Nat
<1>1. IsFiniteSet(1..Len(q))
  BY FS_Interval
<1>2. TurnsOf(q, kind) \in SUBSET (1..Len(q))
  BY DEF TurnsOf
<1> QED BY <1>1, <1>2, FS_Subset, FS_CardinalityType

\* One more turn.
LEMMA TurnAppended ==
  ASSUME NEW q \in Seq(Turn), NEW t \in Turn, NEW kind
  PROVE  /\ AnglesOf(Append(q, t)) = AnglesOf(q) \cup t.angle
         /\ t.kind # kind => TurnsOf(Append(q, t), kind) = TurnsOf(q, kind)
         /\ t.kind = kind =>
              Cardinality(TurnsOf(Append(q, t), kind)) = Cardinality(TurnsOf(q, kind)) + 1
<1> DEFINE n == Len(q)
           w == Append(q, t)
<1>1. n \in Nat /\ Len(w) = n + 1 /\ w[n + 1] = t
  OBVIOUS
<1>2. \A i \in 1..n : w[i] = q[i]
  OBVIOUS
<1>3. 1..(n + 1) = (1..n) \cup {n + 1} /\ n + 1 \notin 1..n
  BY <1>1
<1> HIDE DEF w, n
<1>4. AnglesOf(w) = AnglesOf(q) \cup t.angle
  BY <1>1, <1>2, <1>3 DEF AnglesOf, n
<1>5. t.kind # kind => TurnsOf(w, kind) = TurnsOf(q, kind)
  BY <1>1, <1>2, <1>3 DEF TurnsOf, n
<1>6. t.kind = kind => TurnsOf(w, kind) = TurnsOf(q, kind) \cup {n + 1} /\ n + 1 \notin TurnsOf(q, kind)
  BY <1>1, <1>2, <1>3 DEF TurnsOf, n
<1>7. t.kind = kind => Cardinality(TurnsOf(w, kind)) = Cardinality(TurnsOf(q, kind)) + 1
  BY <1>6, TurnsOfFinite, FS_AddElement
<1> QED BY <1>4, <1>5, <1>7 DEF w

\* A deliberation asks nothing and answers nothing.
LEMMA NothingAskedInDeliberation ==
  ASSUME NEW q \in Seq(Turn), NEW n \in Nat, NEW seq \in Nat,
         NEW kind \in {"question", "answer", "narration"}
  PROVE  /\ AnglesOf(q \o Deliberation(n, seq)) = AnglesOf(q)
         /\ TurnsOf(q \o Deliberation(n, seq), kind) = TurnsOf(q, kind)
<1> DEFINE d == Deliberation(n, seq)
           m == n + Len(Order)
<1>1. d \in Seq(Turn) /\ Len(d) = m
  BY DeliberationType
<1>0. m \in Nat /\ Len(q) \in Nat
  BY OrderLength
<1>2. \A i \in 1..m : d[i].kind \in {"free_round", "verdict"} /\ d[i].angle = {}
  BY DEF Deliberation, Say
<1> HIDE DEF d, m
<1>3. /\ Len(q \o d) = Len(q) + m
      /\ \A i \in 1..Len(q) : i \in 1..(Len(q) + m) /\ (q \o d)[i] = q[i]
      /\ \A i \in 1..(Len(q) + m) : i \notin 1..Len(q) => i - Len(q) \in 1..m /\ (q \o d)[i] = d[i - Len(q)]
  BY <1>0, <1>1
<1>4. \A i \in 1..(Len(q) + m) : i \notin 1..Len(q) =>
         (q \o d)[i].kind \notin {"question", "answer", "narration"} /\ (q \o d)[i].angle = {}
  BY <1>2, <1>3
<1>5. TurnsOf(q \o d, kind) = TurnsOf(q, kind)
  BY <1>3, <1>4 DEF TurnsOf
<1>6. AnglesOf(q \o d) = AnglesOf(q)
  <2>1. ASSUME NEW a \in AnglesOf(q \o d) PROVE a \in AnglesOf(q)
    <3>1. PICK i \in 1..(Len(q) + m) : a \in (q \o d)[i].angle
      BY <1>3 DEF AnglesOf
    <3>2. i \in 1..Len(q)
      BY <1>4, <3>1
    <3> QED BY <1>3, <3>1, <3>2 DEF AnglesOf
  <2>2. ASSUME NEW a \in AnglesOf(q) PROVE a \in AnglesOf(q \o d)
    <3>1. PICK i \in 1..Len(q) : a \in q[i].angle
      BY DEF AnglesOf
    <3>2. i \in 1..Len(q \o d) /\ (q \o d)[i] = q[i]
      BY <1>3
    <3> QED BY <3>1, <3>2 DEF AnglesOf
  <2> QED BY <2>1, <2>2
<1> QED BY <1>5, <1>6 DEF d

\* pick_angle finds nothing exactly when the axis of the judge has no angle left.
LEMMA FreshIs ==
  ASSUME NEW o \in Orch, o.floor \in 1..Len(Order)
  PROVE  LET pool == Pool[Obsession[Order[o.floor]]]
         IN  Fresh(o) \subseteq pool \ o.asked /\ (Fresh(o) = {} <=> pool \subseteq o.asked)
<1>1. ~ o.floor > Len(Order)
  BY OrderLength
<1> QED BY <1>1 DEF Fresh

\* The judges who had the floor, one more each time it moves.
LEMMA BeforeNext ==
  ASSUME NEW k \in Nat \ {0}, NEW x
  PROVE  /\ IsFiniteSet(Before(k, x)) /\ Cardinality(Before(k, x)) \in Nat
         /\ Obsession[Order[k]] # x => Before(k + 1, x) = Before(k, x)
         /\ Obsession[Order[k]] = x => Cardinality(Before(k + 1, x)) = Cardinality(Before(k, x)) + 1
<1>1. IsFiniteSet(1..(k - 1))
  BY FS_Interval
<1>2. Before(k, x) \in SUBSET (1..(k - 1))
  BY DEF Before
<1>3. IsFiniteSet(Before(k, x)) /\ Cardinality(Before(k, x)) \in Nat
  BY <1>1, <1>2, FS_Subset, FS_CardinalityType
<1>4. 1..(k + 1 - 1) = 1..(k - 1) \cup {k} /\ k \notin 1..(k - 1)
  OBVIOUS
<1>5. Obsession[Order[k]] # x => Before(k + 1, x) = Before(k, x)
  BY <1>4 DEF Before
<1>6. Obsession[Order[k]] = x => Before(k + 1, x) = Before(k, x) \cup {k} /\ k \notin Before(k, x)
  BY <1>4 DEF Before
<1>7. Obsession[Order[k]] = x => Cardinality(Before(k + 1, x)) = Cardinality(Before(k, x)) + 1
  BY <1>3, <1>6, FS_AddElement
<1> QED BY <1>3, <1>5, <1>7

\* When all have had the floor, an axis has been treated by all of its judges.
LEMMA BeforeEnd ==
  ASSUME NEW x
  PROVE  Cardinality(Before(Len(Order) + 1, x)) = Cardinality({p \in Judges : Obsession[p] = x})
<1> DEFINE S == Before(Len(Order) + 1, x)
           T == {p \in Judges : Obsession[p] = x}
           f == [i \in S |-> Order[i]]
<1>1. S = {i \in 1..Len(Order) : Obsession[Order[i]] = x}
  BY OrderLength DEF Before
<1>2. IsFiniteSet(S)
  BY OrderLength, BeforeNext
<1>3. f \in Bijection(S, T)
  <2>1. f \in [S -> T]
    BY <1>1 DEF Judges
  <2>2. \A i, k \in S : f[i] = f[k] => i = k
    BY <1>1, CommitteeAssumption
  <2>3. \A p \in T : \E i \in S : f[i] = p
    BY <1>1 DEF Judges
  <2> HIDE DEF S, T, f
  <2> QED BY <2>1, <2>2, <2>3 DEF Bijection, Injection, Surjection, IsInjective
<1> HIDE DEF S, T, f
<1>4. ExistsBijection(S, T)
  BY <1>3 DEF ExistsBijection
<1> QED BY <1>2, <1>4, FS_Bijection DEF S, T

\* The axes are treated when the judge who holds the floor asks one question more.
LEMMA AskTreated ==
  ASSUME NEW o \in Orch, IsFiniteSet(o.asked), o.floor \in 1..Len(Order),
         \A x \in Axes : Treated(o, o.floor, x, HereOf(o, x)), NEW a \in Fresh(o)
  PROVE  LET new == Served(o, a)
         IN  /\ new.floor = o.floor /\ new.asked = o.asked \cup {a} /\ a \notin o.asked
             /\ \A x \in Axes : Treated(new, new.floor, x, HereOf(new, x))
<1> DEFINE new == Served(o, a)
           y == Obsession[Order[o.floor]]
<1>1. new.floor = o.floor /\ new.asked = o.asked \cup {a} /\ new.askedHere = o.askedHere + 1
  BY DEF Served, Orch
<1>2. y \in Axes
  BY DEF Axes, Judges
<1>3. a \in Pool[y] /\ a \notin o.asked
  BY FreshIs
<1> HIDE DEF new
<1>4. o.askedHere \in Nat
  BY DEF Orch
<1>5. ASSUME NEW x \in Axes PROVE Treated(new, new.floor, x, HereOf(new, x))
  <2>1. CASE x # y
    <3>1. a \notin Pool[x]
      BY <1>2, <1>3, <2>1, CommitteeAssumption
    <3>2. Pool[x] \cap new.asked = Pool[x] \cap o.asked
      BY <1>1, <3>1
    <3>3. HereOf(new, x) = 0 /\ HereOf(o, x) = 0
      BY <1>1, <2>1 DEF HereOf
    <3>4. Pool[x] \subseteq o.asked => Pool[x] \subseteq new.asked
      BY <1>1
    <3>5. Treated(o, o.floor, x, 0)
      BY <3>3
    <3> QED BY <1>1, <3>2, <3>3, <3>4, <3>5 DEF Treated
  <2>2. CASE x = y
    <3> DEFINE A == Pool[x] \cap o.asked
               B == Quota * Cardinality(Before(o.floor, x))
    <3>1. HereOf(new, x) = o.askedHere + 1 /\ HereOf(o, x) = o.askedHere
      BY <1>1, <2>2 DEF HereOf
    <3>2. Treated(o, o.floor, x, o.askedHere) /\ ~ Pool[x] \subseteq o.asked
      BY <1>3, <2>2, <3>1
    <3>3. Cardinality(A) = B + o.askedHere
      BY <3>2 DEF Treated
    <3>4. Pool[x] \cap new.asked = A \cup {a} /\ a \notin A
      BY <1>1, <1>3, <2>2
    <3>5. IsFiniteSet(A)
      BY FS_Intersection
    <3>6. Cardinality(Pool[x] \cap new.asked) = Cardinality(A) + 1
      <4> HIDE DEF A
      <4> QED BY <3>4, <3>5, FS_AddElement
    <3>7. B \in Nat
      BY PitchAssumption, BeforeNext, OrderLength
    <3> HIDE DEF A
    <3>8. Cardinality(Pool[x] \cap new.asked) = B + (o.askedHere + 1)
      <4> HIDE DEF B
      <4> QED BY <1>4, <3>3, <3>6, <3>7
    <3> QED BY <1>1, <3>1, <3>8 DEF Treated
  <2> QED BY <2>1, <2>2
<1> QED BY <1>1, <1>3, <1>5 DEF new

\* The axes stay treated when the floor moves, and it moves to the end only if nothing is left.
LEMMA AdvancedTreated ==
  ASSUME NEW o \in Orch, o.floor \in 1..Len(Order),
         \A x \in Axes : Treated(o, o.floor, x, HereOf(o, x)),
         o.askedHere = Quota \/ Fresh(o) = {}
  PROVE  LET new == Advanced(o)
         IN  /\ new.asked = o.asked
             /\ new.floor \in 1..(Len(Order) + 1) /\ (Fresh(new) = {} <=> new.floor = Len(Order) + 1)
             /\ \A x \in Axes : Treated(new, new.floor, x, 0)
<1> DEFINE n == Len(Order)
           y == Obsession[Order[o.floor]]
           later == {k \in o.floor + 1 .. n : Fresh([o EXCEPT !.floor = k]) # {}}
           to == IF later = {} THEN n + 1 ELSE CHOOSE k \in later : \A l \in later : k <= l
           new == Advanced(o)
<1>1. n \in Nat /\ o.floor \in 1..n
  BY OrderLength
<1>2. new.floor = to /\ new.asked = o.asked /\ new.askedHere = 0 /\ new.history = o.history
  BY DEF Advanced, Orch
<1>3. /\ to \in (o.floor + 1)..(n + 1) /\ (to \in later <=> to # n + 1)
      /\ \A i \in (o.floor + 1)..(to - 1) : i \notin later
  <2>1. CASE later = {}
    BY <1>1, <2>1
  <2>2. CASE later # {}
    <3>1. later \in SUBSET Nat /\ later \subseteq (o.floor + 1)..n
      BY <1>1
    <3> HIDE DEF later
    <3>2. \E k \in later : \A l \in later : k <= l
      BY <2>2, <3>1, SmallestOf
    <3>3. to \in later /\ \A l \in later : to <= l
      BY <2>2, <3>2
    <3> HIDE DEF to
    <3> QED BY <1>1, <3>1, <3>3
  <2> QED BY <2>1, <2>2
<1>4. ASSUME NEW k \in 1..n
      PROVE  Fresh([o EXCEPT !.floor = k]) # {} <=> ~ Pool[Obsession[Order[k]]] \subseteq o.asked
  <2> DEFINE w == [o EXCEPT !.floor = k]
  <2>1. w \in Orch /\ w.floor = k /\ w.asked = o.asked
    BY <1>1 DEF Orch
  <2> HIDE DEF w
  <2>2. Fresh(w) # {} <=> ~ Pool[Obsession[Order[k]]] \subseteq o.asked
    BY <2>1, FreshIs
  <2> QED BY <2>2 DEF w
<1>5. \A i \in (o.floor + 1)..(to - 1) : Pool[Obsession[Order[i]]] \subseteq o.asked
  <2> SUFFICES ASSUME NEW i \in (o.floor + 1)..(to - 1) PROVE Pool[Obsession[Order[i]]] \subseteq o.asked
    OBVIOUS
  <2>1. i \in 1..n /\ i \in o.floor + 1 .. n /\ i \notin later
    <3> HIDE DEF later, to
    <3> QED BY <1>1, <1>3
  <2> QED BY <1>4, <2>1
<1>6. new \in Orch
  BY AdvancedType
<1>7. Fresh(new) = {} <=> to = n + 1
  <2>1. CASE to = n + 1
    <3>1. new.floor > Len(Order)
      BY <1>1, <1>2, <2>1
    <3> HIDE DEF new, to
    <3> QED BY <2>1, <3>1 DEF Fresh
  <2>2. CASE to # n + 1
    <3>1. to \in later /\ to \in 1..n
      <4> HIDE DEF later, to
      <4> QED BY <1>1, <1>3, <2>2
    <3>2. ~ Pool[Obsession[Order[to]]] \subseteq o.asked
      BY <1>4, <3>1
    <3> HIDE DEF new, later, to
    <3> QED BY <1>2, <1>6, <2>2, <3>1, <3>2, FreshIs
  <2> QED BY <2>1, <2>2
<1> HIDE DEF new, later, to
<1>8. ASSUME NEW x \in Axes PROVE Treated(new, to, x, 0)
  <2>1. CASE Pool[x] \subseteq o.asked
    BY <1>2, <2>1 DEF Treated
  <2>2. CASE ~ Pool[x] \subseteq o.asked
    <3> DEFINE b == Cardinality(Before(o.floor, x))
               c == Cardinality(Before(o.floor + 1, x))
    <3>1. b \in Nat /\ (y # x => c = b) /\ (y = x => c = b + 1)
      BY <1>1, BeforeNext
    <3>2. Before(to, x) = Before(o.floor + 1, x)
      <4>1. \A i \in (o.floor + 1)..(to - 1) : Obsession[Order[i]] # x
        BY <1>5, <2>2
      <4>2. \A i \in 1..(to - 1) : i \in 1..(o.floor + 1 - 1) \/ i \in (o.floor + 1)..(to - 1)
        BY <1>1, <1>3
      <4>3. \A i \in 1..(o.floor + 1 - 1) : i \in 1..(to - 1)
        BY <1>1, <1>3
      <4> QED BY <4>1, <4>2, <4>3 DEF Before
    <3>3. Cardinality(Pool[x] \cap o.asked) = Quota * b + HereOf(o, x)
      BY <2>2 DEF Treated
    <3>4. CASE y # x
      <4>1. HereOf(o, x) = 0 /\ Before(o.floor + 1, x) = Before(o.floor, x)
        BY <1>1, <3>4, BeforeNext DEF HereOf
      <4> QED BY <1>2, <3>2, <3>3, <4>1 DEF Treated
    <3>5. CASE y = x
      <4>1. HereOf(o, x) = Quota
        <5>1. Fresh(o) # {}
          BY <2>2, <3>5, FreshIs
        <5> QED BY <3>5, <5>1 DEF HereOf
      <4>2. Cardinality(Pool[x] \cap o.asked) = Quota * b + Quota /\ c = b + 1
        BY <3>1, <3>3, <3>5, <4>1
      <4> HIDE DEF b, c
      <4>3. Quota * b + Quota = Quota * (b + 1) + 0
        BY <3>1, PitchAssumption
      <4>4. Cardinality(Pool[x] \cap o.asked) = Quota * c + 0
        BY <4>2, <4>3
      <4> QED BY <1>2, <3>2, <4>4 DEF Treated, c
    <3> QED BY <3>4, <3>5
  <2> QED BY <2>1, <2>2
<1> QED BY <1>1, <1>2, <1>3, <1>7, <1>8 DEF new

FairInv == \A s \in Sessions : Fair(phase[s], orch[s], turns[s])

\* A turn that is neither a question nor an answer, in a phase where it says nothing new.
LEMMA FairAppended ==
  ASSUME NEW ph, NEW ph2, NEW o \in Orch, NEW p \in Orch, NEW q \in Seq(Turn), NEW t \in Turn,
         Fair(ph, o, q), ph \in {"BRIEFING", "PITCHING"}, ph2 \in {"BRIEFING", "PITCHING"},
         p.asked = o.asked, t.kind \notin {"question", "answer"}, t.angle = {}
  PROVE  Fair(ph2, p, Append(q, t))
<1>1. /\ AnglesOf(Append(q, t)) = AnglesOf(q)
      /\ TurnsOf(Append(q, t), "question") = TurnsOf(q, "question")
      /\ TurnsOf(Append(q, t), "answer") = TurnsOf(q, "answer")
  BY TurnAppended
<1> QED BY <1>1 DEF Fair

\* end_pitch: the first question.
LEMMA FairOpened ==
  ASSUME NEW o \in Orch, NEW opened \in Orch, NEW q \in Seq(Turn), NEW n \in Nat,
         Fair("PITCHING", o, q), NEW a \in Fresh(opened),
         opened.floor = 1, opened.askedHere = 0, opened.asked = {}
  PROVE  Fair("QA", Served(opened, a), Append(q, Ask(n, a)))
<1> DEFINE new == Served(opened, a)
           w == Append(q, Ask(n, a))
<1>1. opened.floor \in 1..Len(Order)
  BY OrderLength
<1>2. ASSUME NEW x \in Axes PROVE Treated(opened, opened.floor, x, HereOf(opened, x))
  <2>1. Before(opened.floor, x) = {} /\ HereOf(opened, x) = 0
    BY DEF Before, HereOf
  <2>2. Cardinality({}) = 0 /\ Pool[x] \cap opened.asked = {}
    BY FS_EmptySet
  <2>3. Quota * 0 + 0 = 0
    BY PitchAssumption
  <2> QED BY <2>1, <2>2, <2>3 DEF Treated
<1>3. IsFiniteSet(opened.asked)
  BY FS_EmptySet
<1>4. /\ new.floor = 1 /\ new.asked = {a}
      /\ \A x \in Axes : Treated(new, new.floor, x, HereOf(new, x))
  <2>1. /\ new.floor = opened.floor /\ new.asked = opened.asked \cup {a}
        /\ \A x \in Axes : Treated(new, new.floor, x, HereOf(new, x))
    BY <1>1, <1>2, <1>3, AskTreated
  <2> HIDE DEF new
  <2> QED BY <2>1
<1>5. Ask(n, a) \in Turn /\ Ask(n, a).kind = "question" /\ Ask(n, a).angle = {a}
  BY FreshAngles, AskType DEF Ask
<1>6. /\ AnglesOf(w) = AnglesOf(q) \cup {a} /\ TurnsOf(w, "answer") = TurnsOf(q, "answer")
      /\ Cardinality(TurnsOf(w, "question")) = Cardinality(TurnsOf(q, "question")) + 1
  BY <1>5, TurnAppended
<1>7. Cardinality({}) = 0
  BY FS_EmptySet
<1>8. Cardinality({a}) = 1 /\ IsFiniteSet({a})
  BY FS_Singleton
<1> HIDE DEF new, w
<1>9. /\ AnglesOf(w) = {a} /\ Cardinality(TurnsOf(w, "answer")) = 0
      /\ Cardinality(TurnsOf(w, "question")) = 1
  <2>1. o.asked = {} /\ AnglesOf(q) = {} /\ TurnsOf(q, "answer") = {}
    BY DEF Fair
  <2>2. Cardinality(TurnsOf(q, "question")) = 0
    BY <1>7, <2>1 DEF Fair
  <2>3. AnglesOf(w) = {a}
    BY <1>6, <2>1
  <2>4. Cardinality(TurnsOf(w, "answer")) = 0
    BY <1>6, <1>7, <2>1
  <2>5. Cardinality(TurnsOf(w, "question")) = 1
    BY <1>6, <2>2
  <2> QED BY <2>3, <2>4, <2>5
<1>10. Fair("QA", new, w)
  BY <1>1, <1>4, <1>8, <1>9 DEF Fair
<1> QED BY <1>10 DEF new, w

\* respond, while the committee has a question left.
LEMMA FairAsked ==
  ASSUME NEW o \in Orch, NEW next \in Orch, NEW q \in Seq(Turn), NEW n \in Nat, NEW t \in Turn,
         Fair("QA", o, q), next.asked = o.asked, next.floor \in 1..Len(Order),
         \A x \in Axes : Treated(next, next.floor, x, HereOf(next, x)),
         t.kind = "answer", t.angle = {}, NEW a \in Fresh(next)
  PROVE  Fair("QA", Served(next, a), Append(Append(q, t), Ask(n, a)))
<1> DEFINE new == Served(next, a)
           v == Append(q, t)
           w == Append(v, Ask(n, a))
<1>1. IsFiniteSet(next.asked)
  BY DEF Fair
<1>2. /\ new.floor = next.floor /\ new.asked = next.asked \cup {a} /\ a \notin next.asked
      /\ \A x \in Axes : Treated(new, new.floor, x, HereOf(new, x))
  BY <1>1, AskTreated
<1>3. Ask(n, a) \in Turn /\ Ask(n, a).kind = "question" /\ Ask(n, a).angle = {a}
  BY FreshAngles, AskType DEF Ask
<1>4. /\ v \in Seq(Turn) /\ AnglesOf(v) = AnglesOf(q)
      /\ TurnsOf(v, "question") = TurnsOf(q, "question")
      /\ Cardinality(TurnsOf(v, "answer")) = Cardinality(TurnsOf(q, "answer")) + 1
  <2>1. v \in Seq(Turn)
    BY AppendProperties
  <2>2. AnglesOf(v) = AnglesOf(q) \cup t.angle
    BY TurnAppended
  <2>3. TurnsOf(v, "question") = TurnsOf(q, "question")
    BY TurnAppended
  <2>4. Cardinality(TurnsOf(v, "answer")) = Cardinality(TurnsOf(q, "answer")) + 1
    BY TurnAppended
  <2> QED BY <2>1, <2>2, <2>3, <2>4
<1> HIDE DEF v
<1>5. /\ AnglesOf(w) = AnglesOf(v) \cup {a} /\ TurnsOf(w, "answer") = TurnsOf(v, "answer")
      /\ Cardinality(TurnsOf(w, "question")) = Cardinality(TurnsOf(v, "question")) + 1
  BY <1>3, <1>4, TurnAppended
<1>6. IsFiniteSet(new.asked) /\ Cardinality(new.asked) = Cardinality(next.asked) + 1
  BY <1>1, <1>2, FS_AddElement
<1> HIDE DEF new, w
<1>7. Fair("QA", new, w)
  BY <1>2, <1>4, <1>5, <1>6 DEF Fair
<1> QED BY <1>7 DEF new, v, w

\* respond, when nothing is left to ask.
LEMMA FairExhausted ==
  ASSUME NEW o \in Orch, NEW next \in Orch, NEW p, NEW q \in Seq(Turn), NEW t \in Turn,
         Fair("QA", o, q), next.asked = o.asked, p.asked = o.asked,
         \A x \in Axes : Treated(next, Len(Order) + 1, x, 0),
         t.kind = "answer", t.angle = {}
  PROVE  Fair("FREE_ROUND", p, Append(q, t))
<1>1. /\ AnglesOf(Append(q, t)) = AnglesOf(q)
      /\ TurnsOf(Append(q, t), "question") = TurnsOf(q, "question")
      /\ Cardinality(TurnsOf(Append(q, t), "answer")) = Cardinality(TurnsOf(q, "answer")) + 1
  BY TurnAppended
<1>2. \A x \in Axes : Treated(p, Len(Order) + 1, x, 0)
  BY DEF Treated
<1> QED BY <1>1, <1>2 DEF Fair

\* The judge who has the floor once the answer is there, and what he finds.
LEMMA FairNext ==
  ASSUME NEW o \in Orch, NEW q, Fair("QA", o, q)
  PROVE  LET next == AfterAnswer(o)
         IN  /\ next \in Orch /\ next.asked = o.asked
             /\ Fresh(next) # {} =>
                  /\ next.floor \in 1..Len(Order)
                  /\ \A x \in Axes : Treated(next, next.floor, x, HereOf(next, x))
             /\ Fresh(next) = {} => \A x \in Axes : Treated(next, Len(Order) + 1, x, 0)
<1>1. AfterAnswer(o) \in Orch
  BY AfterAnswerType
<1>2. o.floor \in 1..Len(Order) /\ \A x \in Axes : Treated(o, o.floor, x, HereOf(o, x))
  BY DEF Fair
<1>3. CASE o.askedHere < Quota /\ Fresh(o) # {}
  BY <1>1, <1>2, <1>3 DEF AfterAnswer
<1>4. CASE ~ (o.askedHere < Quota /\ Fresh(o) # {})
  <2> DEFINE next == Advanced(o)
  <2>1. AfterAnswer(o) = next /\ next.askedHere = 0 /\ next \in Orch
    BY <1>4, AdvancedType DEF AfterAnswer
  <2>2. o.askedHere = Quota \/ Fresh(o) = {}
    BY <1>4, PitchAssumption DEF Orch
  <2>3. /\ next.asked = o.asked
        /\ next.floor \in 1..(Len(Order) + 1) /\ (Fresh(next) = {} <=> next.floor = Len(Order) + 1)
        /\ \A x \in Axes : Treated(next, next.floor, x, 0)
    BY <1>2, <2>2, AdvancedTreated
  <2> HIDE DEF next
  <2>4. \A x \in Axes : HereOf(next, x) = 0
    BY <2>1 DEF HereOf
  <2>5. Fresh(next) # {} => next.floor \in 1..Len(Order)
    BY <2>3, OrderLength
  <2>6. \A x \in Axes : Treated(next, next.floor, x, HereOf(next, x))
    BY <2>3, <2>4
  <2> QED BY <2>1, <2>3, <2>5, <2>6
<1> QED BY <1>3, <1>4


LEMMA FairInit == PitchInit => FairInv
<1> SUFFICES ASSUME PitchInit, NEW s \in Sessions PROVE Fair(phase[s], orch[s], turns[s])
  BY DEF FairInv
<1>1. phase[s] = "NONE" /\ orch[s].asked = {} /\ turns[s] = <<>>
  BY DEF PitchInit, Blank
<1>2. AnglesOf(<<>>) = {} /\ TurnsOf(<<>>, "question") = {} /\ TurnsOf(<<>>, "answer") = {}
  BY DEF AnglesOf, TurnsOf
<1>3. IsFiniteSet({})
  BY FS_EmptySet
<1> QED BY <1>1, <1>2, <1>3 DEF Fair

LEMMA FairStart ==
  ASSUME TypeInv, FairInv, NEW s \in Sessions, StartSession(s)
  PROVE  Fair(phase'[s], orch'[s], turns'[s])
<1> DEFINE q == <<Say(0, "system")>>
<1>1. phase[s] = "NONE" /\ phase'[s] = "BRIEFING" /\ orch'[s] = orch[s] /\ turns'[s] = q
  BY DEF StartSession, TypeInv, PitchTypeOK
<1>2. IsFiniteSet(orch[s].asked) /\ orch[s].asked = {}
  BY <1>1 DEF FairInv, Fair
<1>3. Len(q) = 1 /\ q[1].kind = "system" /\ q[1].angle = {}
  BY DEF Say
<1> HIDE DEF q
<1>4. AnglesOf(q) = {} /\ TurnsOf(q, "question") = {} /\ TurnsOf(q, "answer") = {}
  BY <1>3 DEF AnglesOf, TurnsOf
<1> QED BY <1>1, <1>2, <1>4 DEF Fair

LEMMA FairNarrate ==
  ASSUME TypeInv, Alone, FairInv, NEW r \in Requests, NEW weak \in SUBSET Assessable, Narrate(r, weak)
  PROVE  LET s == tx[r].session IN Fair(phase'[s], orch'[s], turns'[s])
<1> DEFINE s == tx[r].session
           new == [tx[r].orch EXCEPT !.convictions = Moved(@, weak)]
           said == [Say(tx[r].seq, "narration") EXCEPT !.weak = weak]
<1>1. /\ tx[r].op = "narrate" /\ phase' = phase
      /\ orch' = [orch EXCEPT ![s] = Flushed(tx[r].orch, new, @)]
      /\ turns' = [turns EXCEPT ![s] = Append(turns[s], said)]
  BY DEF Narrate
<1>2. /\ s \in Sessions /\ tx[r].orch = orch[s] /\ orch[s] \in Orch /\ tx[r].seq \in Nat
      /\ turns[s] \in Seq(Turn) /\ phase[s] = "PITCHING"
  BY <1>1, PhaseChecked DEF TypeInv, PitchTypeOK, Alone, Request
<1>3. new.asked = orch[s].asked
  BY <1>2 DEF Orch
<1>4. said \in Turn /\ said.kind = "narration" /\ said.angle = {}
  BY <1>2, SayType DEF Turn, Say
<1>5. orch'[s] \in Orch
  BY <1>2, TypeNarrate DEF TypeInv, PitchTypeOK
<1> HIDE DEF s, new, said
<1>6. orch'[s].asked = orch[s].asked /\ turns'[s] = Append(turns[s], said) /\ phase'[s] = phase[s]
  BY <1>1, <1>2, <1>3 DEF TypeInv, PitchTypeOK, Flushed
<1>7. Fair(phase[s], orch[s], turns[s])
  BY <1>2 DEF FairInv
<1>8. Fair("PITCHING", orch'[s], Append(turns[s], said))
  BY <1>2, <1>4, <1>5, <1>6, <1>7, FairAppended
<1> QED BY <1>2, <1>6, <1>8 DEF s

LEMMA FairEndPitch ==
  ASSUME TypeInv, Alone, FairInv, NEW r \in Requests, EndPitch(r)
  PROVE  LET s == tx[r].session IN Fair(phase'[s], orch'[s], turns'[s])
<1> DEFINE s == tx[r].session
           opened == [Blank EXCEPT !.convictions = tx[r].orch.convictions, !.ready = TRUE,
                                   !.history = QuestionsAsked]
<1>1. tx[r].op = "end" /\ phase' = [phase EXCEPT ![s] = "QA"]
  BY DEF EndPitch
<1>2. PICK a \in Fresh(opened) :
        /\ orch' = [orch EXCEPT ![s] = Served(opened, a)]
        /\ turns' = [turns EXCEPT ![s] = Append(turns[s], Ask(tx[r].seq, a))]
  BY DEF EndPitch
<1>3. /\ s \in Sessions /\ orch[s] \in Orch /\ tx[r].orch \in Orch /\ tx[r].seq \in Nat
      /\ turns[s] \in Seq(Turn) /\ phase[s] = "PITCHING"
  BY <1>1, PhaseChecked DEF TypeInv, PitchTypeOK, Alone, Request
<1>4. opened \in Orch
  BY <1>3, OpenedType
<1>5. opened.floor = 1 /\ opened.askedHere = 0 /\ opened.asked = {}
  BY DEF Blank
<1> HIDE DEF s, opened
<1>6. Fair("PITCHING", orch[s], turns[s])
  BY <1>3 DEF FairInv
<1>7. Fair("QA", Served(opened, a), Append(turns[s], Ask(tx[r].seq, a)))
  BY <1>3, <1>4, <1>5, <1>6, FairOpened
<1>8. /\ phase'[s] = "QA" /\ orch'[s] = Served(opened, a)
      /\ turns'[s] = Append(turns[s], Ask(tx[r].seq, a))
  BY <1>1, <1>2, <1>3 DEF TypeInv, PitchTypeOK
<1> QED BY <1>7, <1>8 DEF s

LEMMA FairRespond ==
  ASSUME TypeInv, Alone, FairInv, NEW r \in Requests, Respond(r)
  PROVE  LET s == tx[r].session IN Fair(phase'[s], orch'[s], turns'[s])
<1> DEFINE s == tx[r].session
           next == AfterAnswer(tx[r].orch)
           said == Say(tx[r].seq, "answer")
<1>1. tx[r].op = "respond"
  BY DEF Respond
<1>2. /\ s \in Sessions /\ tx[r].orch = orch[s] /\ orch[s] \in Orch
      /\ tx[r].seq \in Nat /\ turns[s] \in Seq(Turn) /\ phase[s] = "QA"
  BY <1>1, PhaseChecked DEF TypeInv, PitchTypeOK, Alone, Request
<1>3. Fair("QA", orch[s], turns[s])
  BY <1>2 DEF FairInv
<1>4. /\ next \in Orch /\ next.asked = orch[s].asked
      /\ Fresh(next) # {} =>
           /\ next.floor \in 1..Len(Order)
           /\ \A x \in Axes : Treated(next, next.floor, x, HereOf(next, x))
      /\ Fresh(next) = {} => \A x \in Axes : Treated(next, Len(Order) + 1, x, 0)
  BY <1>2, <1>3, FairNext
<1>5. said \in Turn /\ said.kind = "answer" /\ said.angle = {}
  BY <1>2, SayType DEF Say
<1>6. CASE /\ Fresh(next) = {} /\ phase' = [phase EXCEPT ![s] = "FREE_ROUND"]
           /\ orch' = [orch EXCEPT ![s] = Flushed(tx[r].orch, next, @)]
           /\ turns' = [turns EXCEPT ![s] = Append(turns[s], said)]
  <2> HIDE DEF s, next, said
  <2>1. /\ phase'[s] = "FREE_ROUND" /\ orch'[s].asked = orch[s].asked
        /\ turns'[s] = Append(turns[s], said)
    BY <1>2, <1>4, <1>6 DEF TypeInv, PitchTypeOK, Flushed
  <2>2. Fair("FREE_ROUND", orch'[s], Append(turns[s], said))
    BY <1>2, <1>3, <1>4, <1>5, <1>6, <2>1, FairExhausted
  <2> QED BY <2>1, <2>2 DEF s
<1>7. ASSUME NEW a \in Fresh(next), UNCHANGED phase,
             orch' = [orch EXCEPT ![s] = Served(next, a)],
             turns' = [turns EXCEPT ![s] = Append(Append(turns[s], said), Ask(tx[r].seq + 1, a))]
      PROVE  Fair(phase'[s], orch'[s], turns'[s])
  <2>0. tx[r].seq + 1 \in Nat
    BY <1>2
  <2> DEFINE n == tx[r].seq + 1
  <2> HIDE DEF s, next, said, n
  <2>1. /\ phase'[s] = "QA" /\ orch'[s] = Served(next, a)
        /\ turns'[s] = Append(Append(turns[s], said), Ask(n, a))
    BY <1>2, <1>7 DEF TypeInv, PitchTypeOK, n
  <2>2. next.floor \in 1..Len(Order) /\ \A x \in Axes : Treated(next, next.floor, x, HereOf(next, x))
    BY <1>4, <1>7
  <2>3. Fair("QA", Served(next, a), Append(Append(turns[s], said), Ask(n, a)))
    BY <1>2, <1>3, <1>4, <1>5, <1>7, <2>0, <2>2, FairAsked DEF n
  <2> QED BY <2>1, <2>3
<1>8. \/ /\ Fresh(next) = {} /\ phase' = [phase EXCEPT ![s] = "FREE_ROUND"]
         /\ orch' = [orch EXCEPT ![s] = Flushed(tx[r].orch, next, @)]
         /\ turns' = [turns EXCEPT ![s] = Append(turns[s], said)]
      \/ \E a \in Fresh(next) :
         /\ orch' = [orch EXCEPT ![s] = Served(next, a)]
         /\ turns' = [turns EXCEPT ![s] = Append(Append(turns[s], said), Ask(tx[r].seq + 1, a))]
         /\ UNCHANGED phase
  BY DEF Respond, AfterAnswer
<1> QED BY <1>6, <1>7, <1>8

LEMMA FairCompletes ==
  ASSUME TypeInv, Alone, FairInv, NEW r \in Requests, Completes(r)
  PROVE  LET s == tx[r].session IN Fair(phase'[s], orch'[s], turns'[s])
<1> DEFINE s == tx[r].session
           n == Exchanges(tx[r].orch.convictions)
<1>1. /\ tx[r].op = "deliberate" /\ phase' = [phase EXCEPT ![s] = "COMPLETED"] /\ orch' = orch
      /\ turns' = [turns EXCEPT ![s] = turns[s] \o Deliberation(n, tx[r].seq)]
  BY DEF Completes, Deliberation
<1>2. s \in Sessions /\ tx[r].seq \in Nat /\ turns[s] \in Seq(Turn) /\ n \in Nat
  BY <1>1, ExchangesType DEF TypeInv, PitchTypeOK, Request
<1>3. Fair(phase[s], orch[s], turns[s])
  BY <1>2 DEF FairInv
<1> HIDE DEF s, n
<1>4. /\ phase'[s] = "COMPLETED" /\ orch'[s] = orch[s]
      /\ turns'[s] = turns[s] \o Deliberation(n, tx[r].seq)
  BY <1>1, <1>2 DEF TypeInv, PitchTypeOK
<1>5. /\ AnglesOf(turns'[s]) = AnglesOf(turns[s])
      /\ TurnsOf(turns'[s], "question") = TurnsOf(turns[s], "question")
  BY <1>2, <1>4, NothingAskedInDeliberation
<1> QED BY <1>3, <1>4, <1>5 DEF Fair, s

\* A step leaves the rows of the other sessions alone.
LEMMA OthersUntouched ==
  ASSUME TypeInv, [PitchNext]_pitchVars, NEW s \in Sessions
  PROVE  \/ /\ phase'[s] = phase[s] \/ (phase[s] = "BRIEFING" /\ phase'[s] = "PITCHING")
            /\ orch'[s] = orch[s] /\ turns'[s] = turns[s]
         \/ StartSession(s)
         \/ \E r \in Requests : tx[r].session = s /\
               (EndPitch(r) \/ Respond(r) \/ Completes(r) \/ \E weak \in SUBSET Assessable : Narrate(r, weak))
         \/ \E r \in Requests : tx[r].session = s /\ StartPitch(r)
<1> USE DEF TypeInv, PitchTypeOK
<1>1. ASSUME NEW z \in Sessions, z # s, StartSession(z)
      PROVE  phase'[s] = phase[s] /\ orch'[s] = orch[s] /\ turns'[s] = turns[s]
  BY <1>1 DEF StartSession
<1>2. ASSUME NEW r \in Requests, Serve(r), tx[r].session # s
      PROVE  phase'[s] = phase[s] /\ orch'[s] = orch[s] /\ turns'[s] = turns[s]
  BY <1>2 DEF Serve, StartPitch, EndPitch, Respond, Narrate, Deliberate, DeliberationFails,
              Completes, Abandon, rows
<1>3. ASSUME NEW r \in Requests, Deliberate(r) \/ DeliberationFails(r) \/ Abandon(r)
      PROVE  phase'[s] = phase[s] /\ orch'[s] = orch[s] /\ turns'[s] = turns[s]
  BY <1>3 DEF Deliberate, DeliberationFails, Abandon, rows
<1>4. ASSUME NEW r \in Requests, NEW op \in Operations, NEW z \in Sessions, Load(r, op, z)
      PROVE  phase'[s] = phase[s] /\ orch'[s] = orch[s] /\ turns'[s] = turns[s]
  BY <1>4 DEF Load, rows
<1> QED BY <1>1, <1>2, <1>3, <1>4 DEF PitchNext, Serve, pitchVars, rows

LEMMA FairStep == TypeInv /\ Alone /\ FairInv /\ [PitchNext]_pitchVars => FairInv'
<1> SUFFICES ASSUME TypeInv, Alone, FairInv, [PitchNext]_pitchVars, NEW s \in Sessions
             PROVE  Fair(phase'[s], orch'[s], turns'[s])
  BY DEF FairInv
<1>1. Fair(phase[s], orch[s], turns[s])
  BY DEF FairInv
<1>2. CASE phase'[s] = phase[s] /\ orch'[s] = orch[s] /\ turns'[s] = turns[s]
  BY <1>1, <1>2
<1>3. ASSUME phase[s] = "BRIEFING", phase'[s] = "PITCHING", orch'[s] = orch[s], turns'[s] = turns[s]
      PROVE  Fair(phase'[s], orch'[s], turns'[s])
  BY <1>1, <1>3 DEF Fair
<1>4. ASSUME NEW r \in Requests, tx[r].session = s, StartPitch(r)
      PROVE  Fair(phase'[s], orch'[s], turns'[s])
  <2>1. phase[s] = "BRIEFING" /\ phase'[s] = "PITCHING" /\ orch'[s] = orch[s] /\ turns'[s] = turns[s]
    BY <1>4, PhaseChecked DEF StartPitch, TypeInv, PitchTypeOK
  <2> QED BY <1>3, <2>1
<1> QED BY <1>2, <1>3, <1>4, OthersUntouched, FairStart, FairNarrate, FairEndPitch, FairRespond, FairCompletes

\* One request at a time, the Q&A is fair for any committee: no angle comes back, whatever the axes
\* that judges share; each question is answered before the next; and when the free round begins by
\* itself, every judge has asked his quota or his axis has no angle left.
THEOREM QuestionsAreFair == ASSUME Overlap = FALSE PROVE PitchSpec => []QaIsFair
<1>1. PitchInit => FairInv
  BY FairInit
<1>2. TypeInv /\ Alone /\ FairInv /\ [PitchNext]_pitchVars => FairInv'
  BY FairStep
<1>3. FairInv => QaIsFair
  <2> SUFFICES ASSUME FairInv PROVE QaIsFair
    OBVIOUS
  <2>1. \A s \in Sessions : \A kind : Count(s, kind) = Cardinality(TurnsOf(turns[s], kind))
    BY DEF Count, TurnsOf
  <2>2. NoQuestionTwice
    BY <2>1 DEF FairInv, Fair, AnglesOf, NoQuestionTwice
  <2>3. QaBalance
    BY <2>1 DEF FairInv, Fair, QaBalance
  <2>4. NobodySkipped
    <3> SUFFICES ASSUME NEW s \in Sessions, phase[s] = "FREE_ROUND", NEW x \in Axes,
                        Pool[x] \cap orch[s].asked # Pool[x]
                 PROVE  Cardinality(Pool[x] \cap orch[s].asked)
                          = Quota * Cardinality({p \in Judges : Obsession[p] = x})
      BY DEF NobodySkipped
    <3>1. Treated(orch[s], Len(Order) + 1, x, 0)
      BY DEF FairInv, Fair
    <3>2. ~ Pool[x] \subseteq orch[s].asked
      OBVIOUS
    <3>3. Cardinality(Pool[x] \cap orch[s].asked) = Quota * Cardinality(Before(Len(Order) + 1, x)) + 0
      BY <3>1, <3>2 DEF Treated
    <3>4. Quota * Cardinality(Before(Len(Order) + 1, x)) \in Nat
      BY OrderLength, BeforeNext, PitchAssumption
    <3> QED BY <3>3, <3>4, BeforeEnd
  <2> QED BY <2>2, <2>3, <2>4 DEF QaIsFair
<1> QED BY <1>1, <1>2, <1>3, AloneCorrect, PTL DEF PitchSpec

-----------------------------------------------------------------------------
(* The convictions can be replayed.                                        *)

\* What the convictions are after the i-th turn, from what f says they were after the one before.
Replay(f, q, i) ==
    IF i = 0 THEN [p \in Judges |-> 0]
    ELSE IF q[i].kind = "narration" THEN Moved(f[i - 1], q[i].weak)
    ELSE f[i - 1]
Replays(f, q, n) == f = [i \in 0..n |-> Replay(f, q, i)]
After(q) == CHOOSE f : Replays(f, q, Len(q))
Outcome(q) == After(q)[Len(q)]

\* Two replays agree as long as the turns they have read are the same.
LEMMA ReplayUnique ==
  ASSUME NEW f, NEW g, NEW q, NEW r, NEW n \in Nat, NEW m \in Nat, NEW k \in 0..n, k \in 0..m,
         Replays(f, q, n), Replays(g, r, m), \A i \in 1..k : q[i] = r[i]
  PROVE  f[k] = g[k]
<1> DEFINE S == {i \in 0..k : f[i] # g[i]}
<1>1. SUFFICES ASSUME S # {} PROVE FALSE
  OBVIOUS
<1>2. S \in SUBSET Nat
  OBVIOUS
<1> HIDE DEF S
<1>3. PICK i \in S : \A l \in S : i <= l
  BY <1>1, <1>2, SmallestOf
<1>4. i \in 0..k /\ f[i] # g[i]
  BY <1>3 DEF S
<1>5. f[i] = Replay(f, q, i) /\ g[i] = Replay(g, r, i)
  <2>1. i \in 0..n /\ i \in 0..m
    BY <1>4
  <2> QED BY <2>1 DEF Replays
<1>6. CASE i = 0
  BY <1>4, <1>5, <1>6 DEF Replay
<1>7. CASE i # 0
  <2>1. i - 1 \in 0..k /\ i \in 1..k /\ ~ i <= i - 1
    BY <1>4, <1>7
  <2>2. f[i - 1] = g[i - 1]
    BY <1>3, <2>1 DEF S
  <2>3. q[i] = r[i]
    BY <2>1
  <2> QED BY <1>4, <1>5, <2>2, <2>3 DEF Replay
<1> QED BY <1>6, <1>7

\* Every timeline can be replayed.
LEMMA ReplayExists ==
  ASSUME NEW q, NEW n \in Nat
  PROVE  \E f : Replays(f, q, n)
<1> DEFINE S == {m \in Nat : ~ \E f : Replays(f, q, m)}
<1>1. SUFFICES ASSUME S # {} PROVE FALSE
  OBVIOUS
<1>2. S \in SUBSET Nat
  OBVIOUS
<1>3. PICK m \in S : \A l \in S : m <= l
  <2> HIDE DEF S
  <2> QED BY <1>1, <1>2, SmallestOf
<1>4. m \in Nat /\ \A f : ~ Replays(f, q, m)
  OBVIOUS
<1>5. CASE m = 0
  <2> DEFINE f == [i \in 0..0 |-> [p \in Judges |-> 0]]
  <2>1. \A i \in 0..0 : Replay(f, q, i) = [p \in Judges |-> 0]
    BY DEF Replay
  <2>2. Replays(f, q, 0)
    BY <2>1 DEF Replays
  <2> QED BY <1>4, <1>5, <2>2
<1>6. CASE m # 0
  <2>1. m - 1 \in Nat /\ ~ m <= m - 1
    BY <1>4, <1>6
  <2>2. m - 1 \notin S
    BY <1>3, <2>1
  <2>3. PICK g : Replays(g, q, m - 1)
    BY <2>1, <2>2
  <2> DEFINE f == [i \in 0..m |-> IF i = m THEN Replay(g, q, m) ELSE g[i]]
  <2>4. \A i \in 0..(m - 1) : f[i] = g[i]
    BY <1>4, <1>6
  <2>5. f[m] = Replay(f, q, m)
    <3>1. f[m] = Replay(g, q, m)
      BY <1>4
    <3>2. f[m - 1] = g[m - 1]
      BY <2>1, <2>4
    <3> HIDE DEF f
    <3> QED BY <1>6, <3>1, <3>2 DEF Replay
  <2>6. \A i \in 0..(m - 1) : f[i] = Replay(f, q, i)
    <3> SUFFICES ASSUME NEW i \in 0..(m - 1) PROVE f[i] = Replay(f, q, i)
      OBVIOUS
    <3>1. f[i] = g[i] /\ g[i] = Replay(g, q, i)
      BY <2>3, <2>4 DEF Replays
    <3>2. i # 0 => f[i - 1] = g[i - 1]
      <4>1. i # 0 => i - 1 \in 0..(m - 1)
        BY <2>1
      <4> HIDE DEF f
      <4> QED BY <2>4, <4>1
    <3> HIDE DEF f
    <3> QED BY <3>1, <3>2 DEF Replay
  <2>7. \A i \in 0..m : f[i] = Replay(f, q, i)
    <3>1. \A i \in 0..m : i = m \/ i \in 0..(m - 1)
      BY <1>4
    <3> HIDE DEF f
    <3> QED BY <2>5, <2>6, <3>1
  <2>8. f = [i \in 0..m |-> f[i]]
    OBVIOUS
  <2> HIDE DEF f
  <2>9. Replays(f, q, m)
    BY <2>7, <2>8 DEF Replays
  <2> QED BY <1>4, <2>9
<1> QED BY <1>5, <1>6

LEMMA AfterReplays == ASSUME NEW q \in Seq(Turn) PROVE Replays(After(q), q, Len(q))
<1>1. Len(q) \in Nat
  OBVIOUS
<1> QED BY <1>1, ReplayExists DEF After

\* One more turn.
LEMMA OutcomeAppended ==
  ASSUME NEW q \in Seq(Turn), NEW t \in Turn
  PROVE  Outcome(Append(q, t)) = IF t.kind = "narration" THEN Moved(Outcome(q), t.weak) ELSE Outcome(q)
<1> DEFINE w == Append(q, t)
           n == Len(q)
           f == After(w)
<1>1. w \in Seq(Turn) /\ Len(w) = n + 1 /\ w[n + 1] = t /\ n \in Nat
  BY AppendProperties
<1>2. \A i \in 1..n : w[i] = q[i]
  OBVIOUS
<1> HIDE DEF w, n
<1>3. Replays(f, w, n + 1) /\ Replays(After(q), q, n)
  BY <1>1, AfterReplays DEF n
<1> HIDE DEF f
<1>4. f[n] = After(q)[n]
  <2>1. n \in 0..n /\ n \in 0..(n + 1) /\ n + 1 \in Nat
    BY <1>1
  <2> QED BY <1>1, <1>2, <1>3, <2>1, ReplayUnique
<1>5. f[n + 1] = Replay(f, w, n + 1)
  <2>1. n + 1 \in 0..(n + 1)
    BY <1>1
  <2> QED BY <1>3, <2>1 DEF Replays
<1>6. n + 1 # 0 /\ n + 1 - 1 = n
  BY <1>1
<1>7. f[n + 1] = IF t.kind = "narration" THEN Moved(f[n], t.weak) ELSE f[n]
  BY <1>1, <1>5, <1>6 DEF Replay
<1>8. Outcome(w) = f[n + 1] /\ Outcome(q) = After(q)[n]
  BY <1>1 DEF Outcome, f, n
<1> QED BY <1>4, <1>7, <1>8 DEF w

\* A deliberation moves nobody.
LEMMA OutcomeDeliberated ==
  ASSUME NEW q \in Seq(Turn), NEW n \in Nat, NEW seq \in Nat
  PROVE  Outcome(q \o Deliberation(n, seq)) = Outcome(q)
<1> DEFINE d == Deliberation(n, seq)
           m == n + Len(Order)
           w == q \o d
           f == After(w)
<1>1. d \in Seq(Turn) /\ Len(d) = m
  BY DeliberationType
<1>2. m \in Nat /\ Len(q) \in Nat
  BY OrderLength
<1>3. \A i \in 1..m : d[i].kind # "narration"
  BY DEF Deliberation, Say
<1> HIDE DEF d, m
<1>4. w \in Seq(Turn) /\ Len(w) = Len(q) + m /\ \A i \in 1..Len(q) : w[i] = q[i]
  <2>1. w \in Seq(Turn)
    BY <1>1, ConcatProperties
  <2>2. Len(w) = Len(q) + m /\ \A i \in 1..Len(q) : w[i] = q[i]
    BY <1>1, <1>2
  <2> QED BY <2>1, <2>2
<1>5. \A i \in (Len(q) + 1)..(Len(q) + m) : w[i].kind # "narration"
  <2>1. \A i \in (Len(q) + 1)..(Len(q) + m) : w[i] = d[i - Len(q)] /\ i - Len(q) \in 1..m
    BY <1>1, <1>2
  <2> QED BY <1>3, <2>1
<1> HIDE DEF w
<1>6. Replays(f, w, Len(q) + m) /\ Replays(After(q), q, Len(q))
  BY <1>4, AfterReplays
<1> HIDE DEF f
<1>7. f[Len(q)] = After(q)[Len(q)]
  <2> DEFINE k == Len(q)
             l == Len(q) + m
  <2>1. k \in 0..k /\ k \in 0..l /\ l \in Nat /\ k \in Nat
    BY <1>2
  <2>2. Replays(f, w, l) /\ Replays(After(q), q, k) /\ \A i \in 1..k : w[i] = q[i]
    BY <1>4, <1>6
  <2> HIDE DEF k, l
  <2>3. f[k] = After(q)[k]
    BY <2>1, <2>2, ReplayUnique
  <2> QED BY <2>3 DEF k
<1>8. f[Len(q) + m] = f[Len(q)]
  <2> DEFINE S == {i \in Len(q)..(Len(q) + m) : f[i] # f[Len(q)]}
  <2>1. SUFFICES ASSUME S # {} PROVE FALSE
    BY <1>2
  <2>2. S \in SUBSET Nat
    BY <1>2
  <2> HIDE DEF S
  <2>3. PICK i \in S : \A l \in S : i <= l
    BY <2>1, <2>2, SmallestOf
  <2>4. i \in Len(q)..(Len(q) + m) /\ f[i] # f[Len(q)]
    BY <2>3 DEF S
  <2>5. /\ i # 0 /\ i \in (Len(q) + 1)..(Len(q) + m) /\ i \in 0..(Len(q) + m)
        /\ i - 1 \in Len(q)..(Len(q) + m) /\ ~ i <= i - 1
    BY <1>2, <2>4
  <2>6. f[i - 1] = f[Len(q)]
    BY <2>3, <2>5 DEF S
  <2>7. f[i] = Replay(f, w, i)
    BY <1>6, <2>5 DEF Replays
  <2>8. f[i] = f[i - 1]
    BY <1>5, <2>5, <2>7 DEF Replay
  <2> QED BY <2>4, <2>6, <2>8
<1>9. Outcome(w) = f[Len(q) + m] /\ Outcome(q) = After(q)[Len(q)]
  BY <1>4 DEF Outcome, f
<1> QED BY <1>7, <1>8, <1>9 DEF w, d


\* What the timeline of a session says of the convictions; a session that is not created has none.
ReplayInv ==
    \A s \in Sessions :
        /\ orch[s].convictions = Outcome(turns[s])
        /\ phase[s] = "NONE" => turns[s] = <<>>

LEMMA OutcomeOfNothing == Outcome(<<>>) = [p \in Judges |-> 0]
<1>1. Replays(After(<<>>), <<>>, 0)
  BY ReplayExists DEF After
<1> DEFINE f == After(<<>>)
<1> HIDE DEF f
<1>2. f[0] = Replay(f, <<>>, 0)
  BY <1>1 DEF Replays, f
<1> QED BY <1>2 DEF Outcome, Replay, f

LEMMA ReplayInit == PitchInit => ReplayInv
  BY OutcomeOfNothing DEF PitchInit, ReplayInv, Blank

LEMMA ReplayStep == TypeInv /\ Alone /\ ReplayInv /\ [PitchNext]_pitchVars => ReplayInv'
<1> SUFFICES ASSUME TypeInv, Alone, ReplayInv, [PitchNext]_pitchVars, NEW s \in Sessions
             PROVE  /\ orch'[s].convictions = Outcome(turns'[s])
                    /\ phase'[s] = "NONE" => turns'[s] = <<>>
  BY DEF ReplayInv
<1> DEFINE Goal == /\ orch'[s].convictions = Outcome(turns'[s])
                   /\ phase'[s] = "NONE" => turns'[s] = <<>>
<1>1. /\ orch[s].convictions = Outcome(turns[s]) /\ turns[s] \in Seq(Turn) /\ orch[s] \in Orch
      /\ phase[s] = "NONE" => turns[s] = <<>>
  BY DEF ReplayInv, TypeInv, PitchTypeOK
<1>2. \A r \in Requests : tx[r].op # "none" => tx[r].orch = orch[tx[r].session] /\ tx[r].seq \in Nat
  BY DEF TypeInv, PitchTypeOK, Alone, Request
<1>3. CASE StartSession(s)
  <2>1. turns[s] = <<>> /\ turns'[s] = <<Say(0, "system")>> /\ orch' = orch /\ phase'[s] # "NONE"
    BY <1>1, <1>3 DEF StartSession, TypeInv, PitchTypeOK
  <2>2. Say(0, "system") \in Turn /\ Say(0, "system").kind # "narration"
    BY SayType DEF Say
  <2>3. turns'[s] = Append(turns[s], Say(0, "system"))
    BY <2>1
  <2>4. Outcome(turns'[s]) = Outcome(turns[s])
    BY <1>1, <2>2, <2>3, OutcomeAppended
  <2> QED BY <1>1, <2>1, <2>4
<1>4. ASSUME NEW r \in Requests, tx[r].session = s, NEW weak \in SUBSET Assessable, Narrate(r, weak)
      PROVE  Goal
  <2> DEFINE new == [tx[r].orch EXCEPT !.convictions = Moved(@, weak)]
             said == [Say(tx[r].seq, "narration") EXCEPT !.weak = weak]
  <2>1. /\ tx[r].op = "narrate" /\ phase' = phase
        /\ orch' = [orch EXCEPT ![s] = Flushed(tx[r].orch, new, @)]
        /\ turns' = [turns EXCEPT ![s] = Append(turns[s], said)]
    BY <1>4 DEF Narrate
  <2>2. tx[r].orch = orch[s] /\ tx[r].seq \in Nat /\ phase[s] = "PITCHING"
    BY <1>2, <1>4, <2>1, PhaseChecked
  <2>3. new.convictions = Moved(orch[s].convictions, weak)
    BY <1>1, <2>2 DEF Orch
  <2>4. said \in Turn /\ said.kind = "narration" /\ said.weak = weak
    BY <2>2, SayType DEF Turn, Say
  <2> HIDE DEF new, said
  <2>5. /\ orch'[s] = new /\ turns'[s] = Append(turns[s], said) /\ phase'[s] # "NONE"
    BY <2>1, <2>2 DEF TypeInv, PitchTypeOK, Flushed
  <2>6. Outcome(turns'[s]) = Moved(Outcome(turns[s]), weak)
    BY <1>1, <2>4, <2>5, OutcomeAppended
  <2> QED BY <1>1, <2>3, <2>5, <2>6
<1>5. ASSUME NEW r \in Requests, tx[r].session = s, EndPitch(r) PROVE Goal
  <2> DEFINE opened == [Blank EXCEPT !.convictions = tx[r].orch.convictions, !.ready = TRUE,
                                     !.history = QuestionsAsked]
  <2>1. tx[r].op = "end" /\ phase' = [phase EXCEPT ![s] = "QA"]
    BY <1>5 DEF EndPitch
  <2>2. PICK a \in Fresh(opened) :
          /\ orch' = [orch EXCEPT ![s] = Served(opened, a)]
          /\ turns' = [turns EXCEPT ![s] = Append(turns[s], Ask(tx[r].seq, a))]
    BY <1>5 DEF EndPitch
  <2>3. tx[r].orch = orch[s] /\ tx[r].seq \in Nat
    BY <1>2, <1>5, <2>1
  <2>4. opened \in Orch /\ opened.convictions = orch[s].convictions
    BY <1>1, <2>3, OpenedType DEF Blank
  <2>5. Ask(tx[r].seq, a) \in Turn /\ Ask(tx[r].seq, a).kind # "narration"
    BY <2>2, <2>3, <2>4, FreshAngles, AskType DEF Ask
  <2> HIDE DEF opened
  <2>6. Served(opened, a).convictions = orch[s].convictions
    BY <2>4 DEF Served, Orch
  <2>7. /\ orch'[s] = Served(opened, a) /\ turns'[s] = Append(turns[s], Ask(tx[r].seq, a))
        /\ phase'[s] # "NONE"
    BY <2>1, <2>2 DEF TypeInv, PitchTypeOK
  <2>8. Outcome(turns'[s]) = Outcome(turns[s])
    BY <1>1, <2>5, <2>7, OutcomeAppended
  <2> QED BY <1>1, <2>6, <2>7, <2>8
<1>6. ASSUME NEW r \in Requests, tx[r].session = s, Respond(r) PROVE Goal
  <2> DEFINE next == AfterAnswer(tx[r].orch)
             said == Say(tx[r].seq, "answer")
             n == tx[r].seq + 1
  <2>1. tx[r].op = "respond"
    BY <1>6 DEF Respond
  <2>2. tx[r].orch = orch[s] /\ tx[r].seq \in Nat /\ n \in Nat /\ phase[s] = "QA"
    BY <1>2, <1>6, <2>1, PhaseChecked
  <2>3. next \in Orch /\ next.convictions = orch[s].convictions
    BY <1>1, <2>2, AfterAnswerType DEF AfterAnswer, Advanced, Orch
  <2>4. said \in Turn /\ said.kind # "narration"
    BY <2>2, SayType DEF Say
  <2>5. \/ /\ phase' = [phase EXCEPT ![s] = "FREE_ROUND"]
           /\ orch' = [orch EXCEPT ![s] = Flushed(tx[r].orch, next, @)]
           /\ turns' = [turns EXCEPT ![s] = Append(turns[s], said)]
        \/ \E a \in Fresh(next) :
           /\ orch' = [orch EXCEPT ![s] = Served(next, a)]
           /\ turns' = [turns EXCEPT ![s] = Append(Append(turns[s], said), Ask(n, a))]
           /\ UNCHANGED phase
    BY <1>6, RespondCases
  <2>6. Append(turns[s], said) \in Seq(Turn) /\ Outcome(Append(turns[s], said)) = Outcome(turns[s])
    <3> HIDE DEF said
    <3> QED BY <1>1, <2>4, OutcomeAppended, AppendProperties
  <2>7. ASSUME NEW a \in Fresh(next)
        PROVE  /\ Outcome(Append(Append(turns[s], said), Ask(n, a))) = Outcome(turns[s])
               /\ Served(next, a).convictions = orch[s].convictions
    <3>1. Ask(n, a) \in Turn /\ Ask(n, a).kind # "narration"
      BY <2>2, <2>3, FreshAngles, AskType DEF Ask
    <3> HIDE DEF said, next, n
    <3>2. Outcome(Append(Append(turns[s], said), Ask(n, a))) = Outcome(Append(turns[s], said))
      BY <2>6, <3>1, OutcomeAppended
    <3>3. Served(next, a).convictions = next.convictions
      BY <2>3 DEF Served, Orch
    <3> QED BY <2>3, <2>6, <3>2, <3>3
  <2> HIDE DEF said, next, n
  <2> QED BY <1>1, <2>2, <2>3, <2>5, <2>6, <2>7 DEF TypeInv, PitchTypeOK, Flushed
<1>7. ASSUME NEW r \in Requests, tx[r].session = s, Completes(r) PROVE Goal
  <2> DEFINE n == Exchanges(tx[r].orch.convictions)
  <2>1. /\ tx[r].op = "deliberate" /\ phase' = [phase EXCEPT ![s] = "COMPLETED"] /\ orch' = orch
        /\ turns' = [turns EXCEPT ![s] = turns[s] \o Deliberation(n, tx[r].seq)]
    BY <1>7 DEF Completes, Deliberation
  <2>2. tx[r].seq \in Nat /\ n \in Nat
    BY <1>2, <2>1, ExchangesType
  <2> HIDE DEF n
  <2>3. turns'[s] = turns[s] \o Deliberation(n, tx[r].seq) /\ phase'[s] # "NONE"
    BY <2>1 DEF TypeInv, PitchTypeOK
  <2>4. Outcome(turns'[s]) = Outcome(turns[s])
    BY <1>1, <2>2, <2>3, OutcomeDeliberated
  <2> QED BY <1>1, <2>1, <2>3, <2>4
<1>8. ASSUME NEW r \in Requests, tx[r].session = s, StartPitch(r) PROVE Goal
  <2>1. orch'[s] = orch[s] /\ turns'[s] = turns[s] /\ phase'[s] = "PITCHING"
    BY <1>8 DEF StartPitch, TypeInv, PitchTypeOK
  <2> QED BY <1>1, <2>1
<1>9. CASE /\ phase'[s] = phase[s] \/ (phase[s] = "BRIEFING" /\ phase'[s] = "PITCHING")
           /\ orch'[s] = orch[s] /\ turns'[s] = turns[s]
  BY <1>1, <1>9
<1> QED BY <1>3, <1>4, <1>5, <1>6, <1>7, <1>8, <1>9, OthersUntouched

\* One request at a time, the convictions that the committee votes with are those that the timeline
\* tells: each narration has moved them once, in its order, although `orch` is written apart from
\* the turns, and only when it changes.
THEOREM ConvictionsAreReplayed == ASSUME Overlap = FALSE PROVE PitchSpec => []ConvictionsReplayed
<1>1. TypeInv /\ Alone /\ ReplayInv /\ [PitchNext]_pitchVars => ReplayInv'
  BY ReplayStep
<1>2. ASSUME NEW s \in Sessions PROVE Replayed(s) = Outcome(turns[s])
  BY DEF Replayed, Outcome, After, Replays, Replay
<1>3. ReplayInv => ConvictionsReplayed
  BY <1>2 DEF ReplayInv, ConvictionsReplayed
<1> QED BY <1>1, <1>3, ReplayInit, AloneCorrect, PTL DEF PitchSpec

-----------------------------------------------------------------------------
(* Providers and limits.                                                   *)

Circuits == [failures : Nat, opened : {"closed", "open", "elapsed"}]
Calls == [stage : {"idle", "next", "trying", "answered", "failed", "broken"},
          at : Nat, attempt : Nat, tried : Seq(Outcomes)]

\* A call has tried the providers before the one where it is, and it fails after the last.
Follows(cl) ==
    /\ cl.stage # "idle" => Len(cl.tried) = cl.at - 1 /\ cl.at \in 1..(N + 1)
    /\ cl.stage = "failed" => Len(cl.tried) = N
    /\ cl.stage = "trying" => cl.at \in Providers

BreakerInv == breaker \in [Providers -> Circuits] /\ OpenSinceThirdFailure
CallInv == call \in [Callers -> Calls] /\ \A c \in Callers : Follows(call[c])

Pending == \E h \in Hits : hit[h] = "counted"
Total(count, pending) == IF pending THEN count + 1 ELSE count

\* The request that gave a counter its first count will be let in as well, once the counter
\* has an end: until then it takes a place in the window.
LimitInv ==
    /\ redis \in [count : Nat, ttl : BOOLEAN] /\ buckets \in Nat /\ reliable \in BOOLEAN
    /\ hit \in [Hits -> {"idle", "counted"}]
    /\ admitted \in [redis : Nat, memory : Nat]
    /\ redis.ttl => redis.count >= 1
    /\ \A h \in Hits : hit[h] = "counted" => ~ redis.ttl /\ redis.count >= 1
    /\ \A h, i \in Hits : hit[h] = "counted" /\ hit[i] = "counted" => h = i
    /\ Total(admitted.redis, Pending) <= redis.count /\ Total(admitted.redis, Pending) <= Limit
    /\ admitted.memory <= buckets /\ admitted.memory <= Limit
    /\ CountersEnd

-----------------------------------------------------------------------------
(* The chain.                                                              *)

LEMMA ChainInit == ResilienceInit => BreakerInv /\ CallInv
<1>1. NoCall \in Calls /\ Follows(NoCall)
  BY DEF NoCall, Calls, Follows, Outcomes
<1> QED
  BY <1>1, ResilienceAssumption
  DEF ResilienceInit, BreakerInv, CallInv, Circuits, OpenSinceThirdFailure, FailureThreshold, NoCall, Providers

\* A circuit after a failure or a success of its provider.
LEMMA Recorded ==
    ASSUME BreakerInv, NEW p \in Providers,
           Record(p, RecordFailure(breaker[p])) \/ Record(p, RecordSuccess(breaker[p]))
    PROVE  BreakerInv'
BY DEF BreakerInv, Circuits, OpenSinceThirdFailure, Record, RecordFailure, RecordSuccess, FailureThreshold

\* A caller that moves its call to one that follows the chain.
LEMMA CallMoves ==
    ASSUME CallInv, NEW c \in Callers, NEW new \in Calls, Follows(new), call' = [call EXCEPT ![c] = new]
    PROVE  CallInv'
BY DEF CallInv

LEMMA FailoverFollows ==
    ASSUME CallInv, NEW c \in Callers, NEW outcome \in Outcomes, call[c].stage \in {"next", "trying"},
           call[c].at \in Providers, Failover(c, outcome)
    PROVE  CallInv'
<1> DEFINE cl == call[c]
           new == [stage |-> "next", at |-> cl.at + 1, attempt |-> cl.attempt, tried |-> Append(cl.tried, outcome)]
<1>1. cl \in Calls /\ Follows(cl) /\ cl.at \in Providers /\ cl.stage # "idle"
  BY DEF CallInv
<1>2. cl.at \in Nat /\ cl.attempt \in Nat /\ cl.tried \in Seq(Outcomes)
  BY <1>1 DEF Calls
<1>3. Append(cl.tried, outcome) \in Seq(Outcomes) /\ Len(Append(cl.tried, outcome)) = Len(cl.tried) + 1
  BY <1>2
<1>4. Len(cl.tried) = cl.at - 1 /\ cl.at \in 1..N
  BY <1>1 DEF Follows, Providers
<1>8. call' = [call EXCEPT ![c] = new]
  BY <1>1, <1>2 DEF Failover, CallInv, Calls
<1> HIDE DEF cl
<1>6. new \in Calls
  BY <1>2, <1>3 DEF Calls
<1>7. Follows(new)
  BY <1>2, <1>3, <1>4, ResilienceAssumption DEF Follows
<1> HIDE DEF new
<1> QED BY <1>6, <1>7, <1>8, CallMoves

LEMMA EndsFollows ==
    ASSUME CallInv, NEW c \in Callers, call[c].stage = "trying",
           Ends(c, "answered") \/ Ends(c, "broken")
    PROVE  CallInv'
<1>1. PICK s \in {"answered", "broken"} : Ends(c, s)
  OBVIOUS
<1> DEFINE new == [call[c] EXCEPT !.stage = s]
<1>2. new \in Calls /\ Follows(new)
  BY DEF CallInv, Calls, Follows
<1>3. call' = [call EXCEPT ![c] = new]
  BY <1>1 DEF Ends
<1> QED BY <1>2, <1>3, CallMoves

LEMMA ChainStep ==
    ASSUME BreakerInv, CallInv, ChainNext
    PROVE  BreakerInv' /\ CallInv'
<1>1. ASSUME NEW p \in Providers, ResetTimeout(p) PROVE BreakerInv' /\ CallInv'
  <2>1. BreakerInv'
    BY <1>1 DEF ResetTimeout, is_open, BreakerInv, Circuits, OpenSinceThirdFailure
  <2> QED BY <1>1, <2>1 DEF ResetTimeout, CallInv
<1>2. ASSUME NEW c \in Callers, Begin(c) PROVE BreakerInv' /\ CallInv'
  <2> DEFINE new == [stage |-> "next", at |-> 1, attempt |-> 0, tried |-> <<>>]
  <2>1. new \in Calls /\ Follows(new)
    BY ResilienceAssumption DEF Calls, Follows, Outcomes
  <2> QED BY <1>2, <2>1, CallMoves DEF Begin, BreakerInv, OpenSinceThirdFailure
<1>3. ASSUME NEW c \in Callers, TryProvider(c) PROVE BreakerInv' /\ CallInv'
  <2> USE DEF TryProvider
  <2>1. BreakerInv' /\ call[c] \in Calls /\ Follows(call[c]) /\ call[c].at \in 1..(N + 1)
    BY <1>3 DEF BreakerInv, OpenSinceThirdFailure, CallInv, Follows
  <2>2. CASE call[c].at > N
    <3> DEFINE new == [call[c] EXCEPT !.stage = "failed"]
    <3>1. new \in Calls /\ Follows(new)
      BY <1>3, <2>1, <2>2, ResilienceAssumption DEF Calls, Follows
    <3> QED BY <1>3, <2>1, <2>2, <3>1, CallMoves DEF Ends
  <2>3. CASE call[c].at <= N
    <3>1. call[c].at \in Providers
      BY <2>1, <2>3, ResilienceAssumption DEF Providers
    <3>2. CASE is_open(call[c].at)
      BY <1>3, <2>1, <2>3, <3>1, <3>2, FailoverFollows, ResilienceAssumption DEF Outcomes, Providers
    <3>3. CASE ~ is_open(call[c].at)
      <4> DEFINE new == [call[c] EXCEPT !.stage = "trying", !.attempt = 1]
      <4>1. new \in Calls /\ Follows(new)
        BY <1>3, <2>1, <3>1 DEF Calls, Follows
      <4>2. ~ (call[c].at > N)
        BY <2>1, <2>3, ResilienceAssumption
      <4>3. call' = [call EXCEPT ![c].stage = "trying", ![c].attempt = 1]
        BY <1>3, <3>3, <4>2
      <4>4. call' = [call EXCEPT ![c] = new]
        BY <2>1, <4>3 DEF CallInv
      <4> QED BY <2>1, <4>1, <4>4, CallMoves
    <3> QED BY <3>2, <3>3
  <2> QED BY <2>1, <2>2, <2>3, ResilienceAssumption
<1>4. ASSUME NEW c \in Callers, call[c].stage = "trying" PROVE call[c].at \in Providers
  BY <1>4 DEF CallInv, Follows
<1>5. ASSUME NEW c \in Callers, Transient(c) PROVE BreakerInv' /\ CallInv'
  <2>1. CASE call[c].attempt < MaxAttempts
    <3> DEFINE new == [call[c] EXCEPT !.attempt = @ + 1]
    <3>1. new \in Calls /\ Follows(new)
      BY DEF CallInv, Calls, Follows
    <3>2. call' = [call EXCEPT ![c] = new]
      BY <1>5, <2>1 DEF Transient, Retry
    <3> QED BY <1>5, <2>1, <3>1, <3>2, CallMoves DEF Transient, BreakerInv, OpenSinceThirdFailure
  <2>2. CASE ~ (call[c].attempt < MaxAttempts)
    BY <1>4, <1>5, <2>2, FailoverFollows, Recorded DEF Transient, Outcomes
  <2> QED BY <2>1, <2>2
<1>6. ASSUME NEW c \in Callers, Refused(c) PROVE BreakerInv' /\ CallInv'
  BY <1>4, <1>6, FailoverFollows, Recorded DEF Refused, Outcomes
<1>7. ASSUME NEW c \in Callers, Unexpected(c) PROVE BreakerInv' /\ CallInv'
  BY <1>4, <1>7, EndsFollows, Recorded DEF Unexpected
<1>8. ASSUME NEW c \in Callers, Succeeds(c) PROVE BreakerInv' /\ CallInv'
  BY <1>4, <1>8, FailoverFollows, EndsFollows, Recorded DEF Succeeds, Outcomes
<1> QED BY <1>1, <1>2, <1>3, <1>5, <1>6, <1>7, <1>8 DEF ChainNext

-----------------------------------------------------------------------------
(* The rate limiter.                                                       *)

LEMMA LimitInit == ResilienceInit => LimitInv
BY ResilienceAssumption DEF ResilienceInit, LimitInv, Pending, Total, CountersEnd

LEMMA LimitStep ==
    ASSUME LimitInv, LimitNext
    PROVE  LimitInv'
<1> USE DEF LimitInv
<1>1. ASSUME NEW h \in Hits, Increment(h), NeedsExpiry(redis.count + 1) PROVE LimitInv'
  <2>1. redis.count = 0 /\ ~ Pending /\ Total(admitted.redis, Pending) = admitted.redis
    BY <1>1 DEF NeedsExpiry, Pending, Total
  <2>2. /\ hit' = [hit EXCEPT ![h] = "counted"] /\ redis' = [redis EXCEPT !.count = @ + 1]
        /\ admitted' = admitted /\ buckets' = buckets /\ reliable' = reliable
    BY <1>1 DEF Increment
  <2>3. Pending' /\ \A i \in Hits : hit'[i] = "counted" => i = h
    BY <2>1, <2>2 DEF Pending
  <2>4. Total(admitted.redis, Pending)' = admitted.redis + 1
    BY <2>2, <2>3 DEF Total
  <2>5. ~ redis.ttl
    BY <2>1
  <2>6. \A i, j \in Hits : hit'[i] = "counted" /\ hit'[j] = "counted" => i = j
    BY <2>3
  <2>7. \A i \in Hits : hit'[i] = "counted" => ~ redis.ttl' /\ redis'.count >= 1
    BY <2>1, <2>2, <2>5
  <2>8. CountersEnd'
    BY <2>3 DEF CountersEnd, Pending
  <2>9. redis' \in [count : Nat, ttl : BOOLEAN] /\ hit' \in [Hits -> {"idle", "counted"}] /\ redis'.count = 1
    BY <2>1, <2>2
  <2>10. ~ redis'.ttl
    BY <2>2, <2>5
  <2> QED BY <2>2, <2>1, <2>4, <2>6, <2>7, <2>8, <2>9, <2>10, ResilienceAssumption
<1>2. ASSUME NEW h \in Hits, Increment(h), ~ NeedsExpiry(redis.count + 1) PROVE LimitInv'
  <2>1. redis.count >= 1
    BY <1>2 DEF NeedsExpiry
  <2>2. /\ hit' = hit /\ redis' = [redis EXCEPT !.count = @ + 1] /\ buckets' = buckets /\ reliable' = reliable
        /\ admitted' = IF redis.count + 1 <= Limit THEN [admitted EXCEPT !.redis = @ + 1] ELSE admitted
    BY <1>2 DEF Increment, Admit
  <2>3. Pending' = Pending
    BY <2>2 DEF Pending
  <2> QED BY <2>1, <2>2, <2>3, ResilienceAssumption DEF Total, CountersEnd
<1>3. ASSUME NEW h \in Hits, ExpireKey(h) PROVE LimitInv'
  <2>1. /\ hit' = [hit EXCEPT ![h] = "idle"] /\ redis' = [redis EXCEPT !.ttl = TRUE] /\ hit[h] = "counted"
        /\ buckets' = buckets /\ reliable' = reliable /\ admitted' = [admitted EXCEPT !.redis = @ + 1]
    <3>1. 1 <= Limit
      BY ResilienceAssumption
    <3> QED BY <1>3, <3>1 DEF ExpireKey, Admit
  <2>2. Pending /\ ~ Pending'
    BY <2>1 DEF Pending
  <2>3. Total(admitted.redis, Pending) = admitted.redis + 1 /\ Total(admitted.redis, Pending)' = admitted.redis + 1
    BY <2>1, <2>2 DEF Total
  <2>4. \A i \in Hits : hit'[i] # "counted"
    BY <2>2 DEF Pending
  <2>5. redis' \in [count : Nat, ttl : BOOLEAN] /\ redis'.count = redis.count /\ redis'.ttl
    BY <2>1
  <2>6. redis.count >= 1
    BY <2>1
  <2>7. hit' \in [Hits -> {"idle", "counted"}] /\ admitted' \in [redis : Nat, memory : Nat]
        /\ admitted'.redis = admitted.redis + 1 /\ admitted'.memory = admitted.memory
    BY <2>1
  <2>8. CountersEnd'
    BY <2>5 DEF CountersEnd
  <2> QED BY <2>1, <2>3, <2>4, <2>5, <2>6, <2>7, <2>8
<1>4. ASSUME NEW h \in Hits, AllowInMemory(h) PROVE LimitInv'
  <2>1. /\ hit' = [hit EXCEPT ![h] = "idle"] /\ redis' = redis /\ buckets' = buckets + 1
        /\ reliable' = reliable /\ ~ reliable
        /\ admitted' = IF buckets + 1 <= Limit THEN [admitted EXCEPT !.memory = @ + 1] ELSE admitted
    BY <1>4 DEF AllowInMemory, Admit
  <2>2. Pending' => Pending
    BY <2>1 DEF Pending
  <2>3. Total(admitted.redis, Pending)' <= Total(admitted.redis, Pending)
    BY <2>1, <2>2 DEF Total
  <2>4. Total(admitted.redis, Pending)' \in Nat /\ Total(admitted.redis, Pending) \in Nat
    BY <2>1 DEF Total
  <2> QED BY <2>1, <2>3, <2>4, ResilienceAssumption DEF CountersEnd
<1>5. CASE KeyExpires
  <2>1. /\ redis' = [count |-> 0, ttl |-> FALSE] /\ admitted' = [admitted EXCEPT !.redis = 0]
        /\ hit' = hit /\ buckets' = buckets /\ reliable' = reliable /\ redis.ttl
    BY <1>5 DEF KeyExpires
  <2>2. ~ Pending /\ ~ Pending'
    BY <2>1 DEF Pending
  <2> QED BY <2>1, <2>2, ResilienceAssumption DEF Total, CountersEnd, Pending
<1>6. CASE BucketExpires
  <2>1. /\ buckets' = 0 /\ admitted' = [admitted EXCEPT !.memory = 0]
        /\ hit' = hit /\ redis' = redis /\ reliable' = reliable
    BY <1>6 DEF BucketExpires
  <2>2. Pending' = Pending
    BY <2>1 DEF Pending
  <2> QED BY <2>1, <2>2, ResilienceAssumption DEF Total, CountersEnd
<1> QED BY <1>1, <1>2, <1>3, <1>4, <1>5, <1>6 DEF LimitNext

-----------------------------------------------------------------------------
ResilienceInv == BreakerInv /\ CallInv /\ LimitInv

LEMMA ResilienceStep == ResilienceInv /\ [ResilienceNext]_resilienceVars => ResilienceInv'
<1> SUFFICES ASSUME ResilienceInv, [ResilienceNext]_resilienceVars PROVE ResilienceInv'
  OBVIOUS
<1>1. BreakerInv /\ CallInv /\ UNCHANGED chainVars => BreakerInv' /\ CallInv'
  BY DEF BreakerInv, CallInv, OpenSinceThirdFailure, chainVars
<1>2. LimitInv /\ UNCHANGED limitVars => LimitInv'
  BY DEF LimitInv, limitVars, CountersEnd, Pending, Total
<1>3. CASE ChainNext
  <2>1. UNCHANGED limitVars
    BY <1>3 DEF ChainNext, ResetTimeout, Begin, TryProvider, Transient, Refused, Unexpected, Succeeds
  <2> QED BY <1>2, <1>3, <2>1, ChainStep DEF ResilienceInv
<1>4. CASE LimitNext
  <2>1. UNCHANGED chainVars
    BY <1>4 DEF LimitNext, Increment, ExpireKey, AllowInMemory, KeyExpires, BucketExpires
  <2> QED BY <1>1, <1>4, <2>1, LimitStep DEF ResilienceInv
<1>5. CASE UNCHANGED resilienceVars
  BY <1>1, <1>2, <1>5 DEF resilienceVars, ResilienceInv
<1> QED BY <1>3, <1>4, <1>5 DEF ResilienceNext

\* However many calls share a chain and however many requests race in a window: a circuit is
\* open since its third failure in a row, a call is given up only when every provider has had
\* its turn, no window lets in more than its limit, and every counter has an end while Redis
\* answers (CircuitBreaker, FallbackProvider, RateLimiter).
THEOREM ResilienceHolds == ResilienceSpec => []ResilienceIsSound
<1>1. ResilienceInit => ResilienceInv
  BY ChainInit, LimitInit DEF ResilienceInv
<1>2. ResilienceInv => ResilienceIsSound
  <2>1. ResilienceInv => OpenSinceThirdFailure /\ CountersEnd
    BY DEF ResilienceInv, BreakerInv, LimitInv
  <2>2. ResilienceInv => GivenUpByAll
    BY DEF ResilienceInv, CallInv, Follows, GivenUpByAll
  <2>3. ResilienceInv => LimitHolds
    BY ResilienceAssumption DEF ResilienceInv, LimitInv, LimitHolds, Total
  <2> QED BY <2>1, <2>2, <2>3 DEF ResilienceIsSound
<1> QED BY <1>1, <1>2, ResilienceStep, PTL DEF ResilienceSpec

=============================================================================
