------------------------------ MODULE Academy ------------------------------
(***************************************************************************)
(* The guided modules of a founder (app/academy): a conversation with the  *)
(* coach, a form, the sheets of what he needs (« fiches »), and the new    *)
(* measure of the axis he worked on.                                       *)
(*                                                                         *)
(* A call loads its session, waits for the LLM and then writes and commits *)
(* the columns that it changed from what it had loaded; other calls may    *)
(* have committed in between.  The history variable nulled keeps of which  *)
(* sessions the model answered null; no step depends on it.                *)
(***************************************************************************)
EXTENDS Persistence, Rounding, FiniteSets

CONSTANTS
    Asked,        \* the dimensions the founder asks for
    Reported,     \* the scores of an axis in a report
    Passes,       \* the scores that a pass of the LLM gives an axis
    MaxModules,   \* a bound on the rows of guided_sessions
    Fiches,       \* the rows of need_fiches
    Links,        \* the tokens of shared sheets
    Visits,       \* the calls being served
    MaxMessages,  \* a bound on the messages to the coach
    OneAtATime    \* the operations served one at a time on a session

ASSUME AcademyAssumption ==
    /\ Reported \subseteq Nat /\ Passes \subseteq Nat /\ MaxMessages \in Nat /\ MaxModules \in Nat /\ None \notin Links

\* The rows of guided_sessions, by the start of their transaction.
Modules == 1..MaxModules

VARIABLES
    radar,        \* [Asked -> the score of the axis in the latest READY report, if any]
    guided,       \* [Modules -> a row of guided_sessions, or NoModule]
    fiche,        \* [Fiches -> a row of need_fiches, or NoFiche]
    links,        \* the tokens given so far
    visit,        \* [Visits -> what a call has loaded]
    messages,     \* the messages sent so far
    nulled        \* history: the sessions whose prefill got the answer null

academyVars == <<radar, guided, fiche, links, visit, messages, nulled>>

DIMENSION_MODULES == {"d1", "d2", "d3", "d4", "d5", "d6", "d7", "d8", "d9", "d10", "d11", "d12"}

Opener == 0
AcademyOperations == {"start", "turn", "prefill", "save", "generate", "rescore"}
Forms == {None, "empty", "prefilled", "saved"}
Filled == {"prefilled", "saved"}
ASSUME NoneIsNothing == None \notin AcademyOperations /\ None \notin {"empty", "prefilled", "saved"}

GuidedSession == [dimension : DIMENSION_MODULES, phase : {"context", "form", "fiches"},
                  turns : Seq(0..MaxMessages), form_data : Forms,
                  before : Nat \cup {None}, after : Nat \cup {None}]
NeedFiche == [session : Modules, is_validated : BOOLEAN, link : Links \cup {None}]
NoModule == [dimension |-> None]
NoFiche == [session |-> None]
NoVisit == [op |-> None, on |-> None, row |-> NoModule, note |-> None]

Exists(s) == guided[s] # NoModule

\* The types of the rows and of the calls; a call works on a session that is there,
\* or that it is going to create.
AcademyTypeOK ==
    /\ radar \in [Asked -> Reported \cup {None}]
    /\ guided \in [Modules -> GuidedSession \cup {NoModule}]
    /\ fiche \in [Fiches -> NeedFiche \cup {NoFiche}]
    /\ \A f \in Fiches : fiche[f] # NoFiche => Exists(fiche[f].session)
    /\ links \subseteq Links
    /\ messages \in 0..MaxMessages
    /\ nulled \subseteq Modules
    /\ \A v \in Visits : visit[v] # NoVisit =>
        /\ visit[v].op \in AcademyOperations
        /\ visit[v].op = "start" <=> ~ Exists(visit[v].on)

AcademyInit ==
    /\ radar \in [Asked -> Reported \cup {None}]
    /\ guided = [s \in Modules |-> NoModule]
    /\ fiche = [f \in Fiches |-> NoFiche]
    /\ links = {}
    /\ visit = [v \in Visits |-> NoVisit]
    /\ messages = 0
    /\ nulled = {}

-----------------------------------------------------------------------------
\* get_module_session, list_started_dimensions: of several sessions, the latest.
LatestModule(d) ==
    LET mine == {s \in Modules : Exists(s) /\ guided[s].dimension = d} IN
    {s \in mine : \A t \in mine : t <= s}

-----------------------------------------------------------------------------
(* The calls.                                                              *)

Visited(v, op, s, row, note) ==
    /\ visit[v] = NoVisit
    /\ op \in OneAtATime => \A w \in Visits : <<visit[w].op, visit[w].on>> # <<op, s>>
    /\ visit' = [visit EXCEPT ![v] = [op |-> op, on |-> s, row |-> row, note |-> note]]
Left(v) == visit' = [visit EXCEPT ![v] = NoVisit]

\* The LLM fails, its answer is refused, or the client is gone: nothing is written.
GiveUp(v) ==
    /\ visit[v] # NoVisit /\ Left(v)
    /\ UNCHANGED <<radar, guided, fiche, links, messages, nulled>>

\* start_module returns the session of the dimension when there is one.  Rows are ordered
\* by the start of their transaction: the call takes the next number now.
StartModule(v, d) ==
    /\ d \in DIMENSION_MODULES /\ LatestModule(d) = {}
    /\ \E s \in Modules :
        /\ \A t \in Modules : Exists(t) \/ (\E w \in Visits : visit[w].on = t) => t < s
        /\ Visited(v, "start", s, [dimension |-> d], None)
    /\ UNCHANGED <<radar, guided, fiche, links, messages, nulled>>

CreateSession(v) ==
    /\ visit[v].op = "start"
    /\ guided' = [guided EXCEPT ![visit[v].on] =
           [dimension |-> visit[v].row.dimension, phase |-> "context", turns |-> <<Opener>>,
            form_data |-> None, before |-> None, after |-> None]]
    /\ Left(v)
    /\ UNCHANGED <<radar, fiche, links, messages, nulled>>

\* The check each operation makes of the session that it loads.
Accepts(op, row) ==
    CASE op = "turn"     -> row.phase = "context" /\ messages < MaxMessages
      [] op = "generate" -> row.form_data \in Filled
      [] op = "rescore"  -> row.phase = "fiches" /\ row.form_data \in Filled
      [] OTHER           -> TRUE

\* The effective score of the axis: the measure before, or the report's.
ScoreBefore(row) == IF row.after # None THEN row.after ELSE radar[row.dimension]

LoadOwnedSession(v, op, s) ==
    /\ op \in AcademyOperations \ {"start"}
    /\ Exists(s) /\ Accepts(op, guided[s])
    /\ messages' = messages + IF op = "turn" THEN 1 ELSE 0
    /\ Visited(v, op, s, guided[s], CASE op = "turn" -> messages' [] op = "rescore" -> ScoreBefore(guided[s])
                                      [] OTHER -> None)
    /\ UNCHANGED <<radar, guided, fiche, links, nulled>>

CommitModule(v, op, row) ==
    /\ visit[v].op = op
    /\ guided' = [guided EXCEPT ![visit[v].on] = row]
    /\ Left(v)

\* The transcript is one JSON column: what was loaded, the message, the answer (whose mark
\* « enough was said » is only shown).
ModuleTurn(v) ==
    /\ CommitModule(v, "turn", [guided[visit[v].on] EXCEPT !.turns = Append(visit[v].row.turns, visit[v].note)])
    /\ UNCHANGED <<radar, fiche, links, messages, nulled>>

\* What an answer gives: nothing when it cannot be read, and None when it reads as null.
Prefilled == {None, "empty", "prefilled"}

\* Mutant: the whole row that was loaded is written back.
PrefillFormWhole(v) ==
    /\ \E form \in Prefilled :
        /\ CommitModule(v, "prefill", [visit[v].row EXCEPT !.form_data = form, !.phase = "form"])
        /\ nulled' = IF form = None THEN nulled \cup {visit[v].on} ELSE nulled
    /\ UNCHANGED <<radar, fiche, links, messages>>
PrefillForm(v) ==
    /\ \E form \in Prefilled :
        /\ CommitModule(v, "prefill", [guided[visit[v].on] EXCEPT
               !.form_data = Column(visit[v].row.form_data, form, @),
               !.phase = Column(visit[v].row.phase, "form", @)])
        /\ nulled' = IF form = None THEN nulled \cup {visit[v].on} ELSE nulled
    /\ UNCHANGED <<radar, fiche, links, messages>>

\* Mutant: the form is saved, and the session stays in its conversation.
SaveModuleFormOnly(v) ==
    /\ CommitModule(v, "save", [guided[visit[v].on] EXCEPT !.form_data = "saved"])
    /\ UNCHANGED <<radar, fiche, links, messages, nulled>>
SaveModuleForm(v) ==
    /\ \E form \in {"empty", "saved"} :
        CommitModule(v, "save", [guided[visit[v].on] EXCEPT
            !.form_data = Column(visit[v].row.form_data, form, @),
            !.phase = IF visit[v].row.phase = "context" THEN "form" ELSE @])
    /\ UNCHANGED <<radar, fiche, links, messages, nulled>>

\* The sheets are added to those the session has; an answer that cannot be read gives none.
GenerateFiches(v) ==
    /\ CommitModule(v, "generate", [guided[visit[v].on] EXCEPT !.phase = Column(visit[v].row.phase, "fiches", @)])
    /\ \E new \in SUBSET {f \in Fiches : fiche[f] = NoFiche} :
        fiche' = [f \in Fiches |-> IF f \in new
            THEN [session |-> visit[v].on, is_validated |-> FALSE, link |-> None] ELSE fiche[f]]
    /\ UNCHANGED <<radar, links, messages, nulled>>

\* Three passes; those without a score are left out.
Measures == {RoundedMedian(s) : s \in UNION {[1..n -> Passes] : n \in 1..3}}

\* Mutant: the axis is compared with the report again.
RescoreAxisFromRadar(v) ==
    /\ \E after \in Measures :
        CommitModule(v, "rescore",
            [guided[visit[v].on] EXCEPT !.before = radar[visit[v].row.dimension], !.after = after])
    /\ UNCHANGED <<radar, fiche, links, messages, nulled>>
RescoreAxis(v) ==
    /\ \E after \in Measures :
        CommitModule(v, "rescore", [guided[visit[v].on] EXCEPT
            !.before = Column(visit[v].row.before, visit[v].note, @),
            !.after = Column(visit[v].row.after, after, @)])
    /\ UNCHANGED <<radar, fiche, links, messages, nulled>>

\* A new diagnostic is published.
NewRadar ==
    /\ radar' \in [Asked -> Reported]
    /\ UNCHANGED <<guided, fiche, links, visit, messages, nulled>>

-----------------------------------------------------------------------------
(* The sheets, one column in one statement each.                           *)

SetFiche(f, row) == fiche[f] # NoFiche /\ fiche' = [fiche EXCEPT ![f] = row]

ValidateFiche(f) ==
    /\ SetFiche(f, [fiche[f] EXCEPT !.is_validated = TRUE])
    /\ UNCHANGED <<radar, guided, links, visit, messages, nulled>>

\* A new link replaces the one before.
ShareFiche(f) ==
    /\ \E token \in Links \ links :
        SetFiche(f, [fiche[f] EXCEPT !.link = token]) /\ links' = links \cup {token}
    /\ UNCHANGED <<radar, guided, visit, messages, nulled>>

UnshareFiche(f) ==
    /\ SetFiche(f, [fiche[f] EXCEPT !.link = None])
    /\ UNCHANGED <<radar, guided, links, visit, messages, nulled>>

-----------------------------------------------------------------------------
AcademyNext ==
    \/ \E v \in Visits, d \in Asked : StartModule(v, d)
    \/ \E v \in Visits, s \in Modules, op \in AcademyOperations : LoadOwnedSession(v, op, s)
    \/ \E v \in Visits :
        GiveUp(v) \/ CreateSession(v) \/ ModuleTurn(v) \/ PrefillForm(v) \/ SaveModuleForm(v)
            \/ GenerateFiches(v) \/ RescoreAxis(v)
    \/ NewRadar
    \/ \E f \in Fiches : ValidateFiche(f) \/ ShareFiche(f) \/ UnshareFiche(f)

AcademySpec == AcademyInit /\ [][AcademyNext]_academyVars

-----------------------------------------------------------------------------
(* Properties.                                                             *)

\* However the calls on a session overlap, one that is in its conversation has no form, no
\* sheet and no measure yet, and one that has left it (for good) has a form, unless the model
\* answered null to a prefill.  Nothing is said of the two later phases: a late save or prefill
\* takes a session from its sheets back to its form.
FormMatchesPhase ==
    /\ \A s \in Modules : Exists(s) =>
        /\ guided[s].phase = "context" => guided[s].form_data = None /\ guided[s].after = None
        /\ guided[s].form_data = None => guided[s].phase = "context" \/ s \in nulled
    /\ \A f \in Fiches : fiche[f] # NoFiche => guided[fiche[f].session].phase # "context"

\* A transcript only grows, whatever else is done to the session while the coach thinks,
\* as long as messages are sent one at a time (module_turn writes the whole transcript).
TranscriptGrows ==
    [][\A s \in Modules : Exists(s) => IsPrefix(guided[s].turns, guided'[s].turns)]_guided

\* A new measure is compared with the one before it, if there is one (rescore_axis, « score
\* effectif courant »), although the report may have changed since.
MeasuresChain ==
    [][\A s \in Modules : Exists(s) /\ guided[s].after # None
          /\ <<guided'[s].before, guided'[s].after>> # <<guided[s].before, guided[s].after>>
          => guided'[s].before = guided[s].after]_guided

\* The dossier of a founder is a history: what he told the coach is kept, and each measure of
\* an axis starts from the one before.
CoachingIsSound == TranscriptGrows /\ MeasuresChain
=============================================================================
