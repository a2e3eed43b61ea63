----------------------------- MODULE Workbench -----------------------------
(***************************************************************************)
(* Where a founder writes his pitch (app/pitch) and draws his logo         *)
(* (app/studio).  The pitch is one row: the sections, a JSON list, and the *)
(* slides of the deck, another one.  The logo is one row: the concept that *)
(* was chosen, and the latest lot of four.                                 *)
(*                                                                         *)
(* A call loads its row, may wait for the LLM, and at its commit writes    *)
(* the columns that it changed; the tabs of the founder overlap.           *)
(***************************************************************************)
EXTENDS Persistence, Naturals, Sequences, SequencesExt, FiniteSets

CONSTANTS
    Sections,     \* the keys of PITCH_SECTIONS the founder writes in
    Texts,        \* what he writes
    DeckAnswers,  \* what the LLM gives for slides: sequences of "slide" and "junk"
    LogoAnswers,  \* what it gives for a logo: sequences of concepts (None is no object), or None when it fails
    Tabs,         \* the calls being served
    MaxDecks,     \* bound: the generations of a deck
    MaxTabCalls,  \* bound: the calls
    Serial        \* the operations that are served one at a time

PITCH_SECTIONS == <<"hook", "problem", "solution", "value", "market", "business_model", "traction",
                    "competition", "team", "ask">>

ASSUME WorkbenchAssumption ==
    /\ \A k \in Sections : Contains(PITCH_SECTIONS, k)
    /\ MaxDecks \in Nat /\ MaxTabCalls \in Nat /\ None \notin Texts
    \* Answers are sequences.
    /\ \A answer \in DeckAnswers : Len(answer) \in Nat /\ DOMAIN answer = 1..Len(answer)
    /\ \A answer \in LogoAnswers \ {None} : Len(answer) \in Nat /\ DOMAIN answer = 1..Len(answer)

VARIABLES
    pitch,    \* the row of pitches, or None
    decks,    \* the decks generated so far
    logo,     \* the row of logos, or None
    tab,      \* [Tabs -> what a call has loaded]
    calls,    \* the calls so far
    saved     \* history: [Sections -> the text that was last saved in it]

workbenchVars == <<pitch, decks, logo, tab, calls, saved>>

ANGLES == <<"name-literal", "concept", "letter-fantasy", "wordmark">>
MODES == {"typographic", "combination", "monogram", "wordmark"}
AngleSet == {ANGLES[i] : i \in DOMAIN ANGLES}
ANGLE_MODE == [angle \in AngleSet |->
    CASE angle = "name-literal" -> "typographic" [] angle = "concept" -> "combination"
      [] angle = "letter-fantasy" -> "monogram" [] angle = "wordmark" -> "wordmark"]

\* A slide is known by its deck and its place in it; a concept by its angle and its mode.
Slide == Nat \X Nat
LogoSpec == [angle : AngleSet, mode : MODES]
NoTab == [op |-> None, loaded |-> None, at |-> None]
PitchOperations == {"section", "deck", "slide", "delete", "reorder"}
LogoOperations == {"logo", "select", "spec"}
ASSUME NoneIsNoRow ==
    /\ None \notin PitchOperations \cup LogoOperations
    /\ None \notin [sections : [Sections -> Texts \cup {None}], slides : Seq(Slide)]
    /\ None \notin [spec : LogoSpec \cup {None}, variations : Seq(LogoSpec)]

\* The types of the two rows and of the calls.
WorkbenchTypeOK ==
    /\ pitch # None => pitch.sections \in [Sections -> Texts \cup {None}] /\ pitch.slides \in Seq(Slide)
    /\ logo # None => logo.spec \in LogoSpec \cup {None}
    /\ decks \in 0..MaxDecks /\ calls \in 0..MaxTabCalls
    /\ \A r \in Tabs : tab[r] # NoTab => tab[r].op \in PitchOperations \cup LogoOperations

WorkbenchInit ==
    /\ pitch = None /\ logo = None
    /\ decks = 0 /\ calls = 0
    /\ tab = [r \in Tabs |-> NoTab]
    /\ saved = [k \in Sections |-> None]

-----------------------------------------------------------------------------
(* logo_gen.py                                                             *)

DefaultForAngle(angle) == [angle |-> angle, mode |-> ANGLE_MODE[angle]]
DefaultVariations == [i \in DOMAIN ANGLES |-> DefaultForAngle(ANGLES[i])]

\* A field outside its list falls back; without an angle there is no mode to fall back on.
CoerceSpec(raw) ==
    LET angle == IF raw.angle \in AngleSet THEN raw.angle ELSE None IN
    [angle |-> angle, mode |-> IF raw.mode \in MODES THEN raw.mode ELSE IF angle = None THEN None ELSE ANGLE_MODE[angle]]

\* The first angle that has no concept yet, if any.
FirstEmpty(by_angle) ==
    LET empty == {i \in DOMAIN ANGLES : by_angle[ANGLES[i]] = None} IN
    IF empty = {} THEN None ELSE ANGLES[Min(empty)]

\* The concept goes to its angle, or to the first empty one, unless there is one there already.
FillSlot(by_angle, raw) ==
    LET spec == CoerceSpec(raw)
        angle == IF spec.angle # None THEN spec.angle ELSE FirstEmpty(by_angle)
    IN IF raw = None \/ angle = None \/ by_angle[angle] # None THEN by_angle
       ELSE [by_angle EXCEPT ![angle] =
                [angle |-> angle, mode |-> IF spec.mode = None THEN ANGLE_MODE[angle] ELSE spec.mode]]

\* One concept for each angle: the first that claims it, or the default.
ParseVariations(answer) ==
    LET by_angle == FoldLeft(FillSlot, [angle \in AngleSet |-> None], answer) IN
    [i \in DOMAIN ANGLES |-> IF by_angle[ANGLES[i]] # None THEN by_angle[ANGLES[i]] ELSE DefaultForAngle(ANGLES[i])]

-----------------------------------------------------------------------------
(* The calls.                                                              *)

OpenTab(r, op, loaded, at) ==
    /\ tab[r] = NoTab /\ calls < MaxTabCalls
    /\ op \in Serial => \A q \in Tabs : tab[q].op # op
    /\ calls' = calls + 1
    /\ tab' = [tab EXCEPT ![r] = [op |-> op, loaded |-> loaded, at |-> at]]
CloseTab(r) == tab' = [tab EXCEPT ![r] = NoTab]

\* get_or_create of each service, on the first visit.
CreatePitch ==
    /\ pitch = None
    /\ pitch' = [sections |-> [k \in Sections |-> None], slides |-> <<>>]
    /\ UNCHANGED <<decks, logo, tab, calls, saved>>
CreateLogo ==
    /\ logo = None
    /\ logo' = [spec |-> None, variations |-> <<>>]
    /\ UNCHANGED <<pitch, decks, tab, calls, saved>>

\* The call fails, or its client is gone.
GiveUpTab(r) ==
    /\ tab[r] # NoTab /\ CloseTab(r)
    /\ UNCHANGED <<pitch, decks, logo, calls, saved>>

\* A deck needs material, which the founder may always paste: its guard leaves every state open.
OpenPitch(r, op) ==
    /\ pitch # None
    /\ \E at \in CASE op = "section" -> Sections
                   [] op \in {"slide", "delete"} -> DOMAIN pitch.slides
                   [] OTHER -> {None} :
        OpenTab(r, op, pitch, at)
    /\ UNCHANGED <<pitch, decks, logo, saved>>

\* The whole list is written, with one text changed.
UpdateSection(r) ==
    /\ tab[r].op = "section"
    /\ \E text \in Texts :
        /\ pitch' = [pitch EXCEPT !.sections = Column(tab[r].loaded.sections, [tab[r].loaded.sections EXCEPT ![tab[r].at] = text], @)]
        /\ saved' = [saved EXCEPT ![tab[r].at] = text]
    /\ CloseTab(r)
    /\ UNCHANGED <<decks, logo, calls>>

\* The slides that an answer holds; what is not an object is left out.
SlidesOf(answer, deck) ==
    FoldLeft(LAMBDA slides, i : IF answer[i] = "slide" THEN Append(slides, <<deck, i>>) ELSE slides,
             <<>>, [i \in DOMAIN answer |-> i])

SetSlides(r, slides) == pitch' = [pitch EXCEPT !.slides = Column(tab[r].loaded.slides, slides, @)]

\* Mutant: the row is written as it was when the LLM was asked, with its new slides.
GenerateDeckWhole(r) ==
    /\ tab[r].op = "deck" /\ decks < MaxDecks
    /\ decks' = decks + 1
    /\ \E answer \in DeckAnswers : answer # <<>> /\ pitch' = [tab[r].loaded EXCEPT !.slides = SlidesOf(answer, decks')]
    /\ CloseTab(r)
    /\ UNCHANGED <<logo, calls, saved>>
\* An answer without slides is an error (GiveUpTab).
GenerateDeck(r) ==
    /\ tab[r].op = "deck" /\ decks < MaxDecks
    /\ decks' = decks + 1
    /\ \E answer \in DeckAnswers : answer # <<>> /\ SetSlides(r, SlidesOf(answer, decks'))
    /\ CloseTab(r)
    /\ UNCHANGED <<logo, calls, saved>>

\* The fields of one slide: it stays the same slide, and the list is written.
UpdateSlide(r) ==
    /\ tab[r].op = "slide"
    /\ pitch' = [pitch EXCEPT !.slides = tab[r].loaded.slides]
    /\ CloseTab(r)
    /\ UNCHANGED <<decks, logo, calls, saved>>

DeleteSlide(r) ==
    /\ tab[r].op = "delete"
    /\ SetSlides(r, RemoveAt(tab[r].loaded.slides, tab[r].at))
    /\ CloseTab(r)
    /\ UNCHANGED <<decks, logo, calls, saved>>

Orders(n) == {order \in [1..n -> 1..n] : \A i \in 1..n : \E j \in 1..n : order[j] = i}

ReorderSlides(r) ==
    /\ tab[r].op = "reorder"
    /\ LET slides == tab[r].loaded.slides IN
        \E order \in Orders(Len(slides)) : SetSlides(r, [i \in DOMAIN slides |-> slides[order[i]]])
    /\ CloseTab(r)
    /\ UNCHANGED <<decks, logo, calls, saved>>

OpenLogo(r, op) ==
    /\ logo # None
    /\ \E at \in IF op = "select" THEN DOMAIN logo.variations ELSE {None} : OpenTab(r, op, logo, at)
    /\ UNCHANGED <<pitch, decks, logo, saved>>

\* A lot in any case; the first concept is chosen when none was when the row was loaded.
GenerateLogo(r) ==
    /\ tab[r].op = "logo"
    /\ \E answer \in LogoAnswers :
        LET lot == IF answer = None THEN DefaultVariations ELSE ParseVariations(answer) IN
        logo' = [spec |-> IF tab[r].loaded.spec = None THEN lot[1] ELSE logo.spec,
                 variations |-> Column(tab[r].loaded.variations, lot, logo.variations)]
    /\ CloseTab(r)
    /\ UNCHANGED <<pitch, decks, calls, saved>>

SelectVariation(r) ==
    /\ tab[r].op = "select"
    /\ logo' = [logo EXCEPT !.spec = Column(tab[r].loaded.spec, tab[r].loaded.variations[tab[r].at], @)]
    /\ CloseTab(r)
    /\ UNCHANGED <<pitch, decks, calls, saved>>

\* Whatever the patch says, the concept goes through coerce_spec again.
UpdateSpec(r) ==
    /\ tab[r].op = "spec"
    /\ LET base == IF tab[r].loaded.spec = None THEN DefaultVariations[1] ELSE tab[r].loaded.spec IN
        logo' = [logo EXCEPT !.spec = CoerceSpec(base)]
    /\ CloseTab(r)
    /\ UNCHANGED <<pitch, decks, calls, saved>>

WorkbenchNext ==
    \/ CreatePitch \/ CreateLogo
    \/ \E r \in Tabs :
        \/ \E op \in PitchOperations : OpenPitch(r, op)
        \/ \E op \in LogoOperations : OpenLogo(r, op)
        \/ GiveUpTab(r) \/ UpdateSection(r) \/ GenerateDeck(r) \/ UpdateSlide(r) \/ DeleteSlide(r) \/ ReorderSlides(r)
        \/ GenerateLogo(r) \/ SelectVariation(r) \/ UpdateSpec(r)
WorkbenchSpec == WorkbenchInit /\ [][WorkbenchNext]_workbenchVars
-----------------------------------------------------------------------------

\* Every section holds what was last saved in it, although a deck is generated from an earlier
\* state of the row meanwhile, as long as sections are saved one at a time.
SectionsAsSaved == pitch # None => pitch.sections = saved

\* The slides are those of one deck, each at most once, whatever calls loaded an earlier deck
\* before they deleted, moved or edited one of its slides.
OneDeck ==
    pitch # None => \A i, j \in DOMAIN pitch.slides :
        pitch.slides[i][1] = pitch.slides[j][1] /\ (pitch.slides[i] = pitch.slides[j] => i = j)

\* A lot has one concept for each angle, in the order that the studio shows them, whatever the
\* LLM answers and whatever the lot replaces (« Garantit exactement 4 variantes, une par angle »);
\* and the concept that is chosen and edited keeps an angle.
LotCoversAngles ==
    logo # None =>
        /\ logo.variations # <<>> => [i \in DOMAIN logo.variations |-> logo.variations[i].angle] = ANGLES
        /\ logo.spec # None => logo.spec.angle \in AngleSet /\ logo.spec.mode \in MODES

\* The pitch editor and the studio under tabs that overlap.
WorkbenchIsSound == SectionsAsSaved /\ OneDeck /\ LotCoversAngles
=============================================================================
