--------------------------- MODULE ProjectMemory ---------------------------
(***************************************************************************)
(* The memory of a project (app/project_memory): what the founder declares *)
(* (app/projects/owner_service.py), the contradictions that a scoring      *)
(* finds, and the state of each dimension that is projected from them and  *)
(* from a score run.                                                       *)
(*                                                                         *)
(* The items are numbered in the order of their creation.  add_memory      *)
(* reads its rows (OpenAdd) and writes in the same transaction, later      *)
(* (CommitAdd).                                                            *)
(***************************************************************************)
EXTENDS Persistence, Radar

CONSTANTS
    Adds,           \* the calls of add_memory
    Declared,       \* the deduplication keys that founders send
    Findings,       \* the contradictions that a scoring can find
    DIMENSION_BY_TYPE, \* [Findings -> the dimension its type falls on]
    Dimensions,     \* those that the founder writes about
    MaxItems        \* bound: rows of project_memory_items

\* A finding has its own key, and the type of a finding its dimension.
ASSUME MemoryAssumption ==
    /\ IsFiniteSet(Findings) /\ None \notin Declared \cup Findings \cup Dimensions
    /\ Dimensions \subseteq STRING /\ DIMENSION_BY_TYPE \in [Findings -> STRING]

VARIABLES
    memory,   \* the items, in the order of their creation
    state,    \* [dimension -> a row of project_dimension_states]
    add,      \* [Adds -> what a call of add_memory has loaded]
    contested \* history: the items that two calls were about to replace at the same time

memoryVars == <<memory, state, add, contested>>

Items == DOMAIN memory
Active(x) == memory[x].is_active
NoAdd == [dimension |-> None, key |-> None, supersedes |-> None]
Adding(o) == add[o] # NoAdd

Item == [dimension : STRING, item_type : MemoryItemType, evidence_state : EvidenceState, key : Declared \cup Findings \cup {None},
         supersedes : Nat \cup {None}, is_active : BOOLEAN, expires : BOOLEAN, expired : BOOLEAN]

\* The types of the items; a reference is to an older item.
MemoryTypeOK ==
    /\ memory \in Seq(Item)
    /\ \A x \in Items : memory[x].supersedes # None => memory[x].supersedes \in 1..(x - 1)
    /\ \A o \in Adds : add[o].supersedes # None => add[o].supersedes \in Items
    /\ contested \subseteq Items

MemoryInit ==
    /\ memory = <<>>
    /\ state = <<>>
    /\ add = [o \in Adds |-> NoAdd]
    /\ contested = {}

Known(key) == key # None /\ \E x \in Items : memory[x].key = key

NewItem(dimension, item_type, key, supersedes, expires) ==
    [dimension |-> dimension, item_type |-> item_type, evidence_state |-> DefaultState(item_type), key |-> key,
     supersedes |-> supersedes, is_active |-> TRUE, expires |-> expires, expired |-> FALSE]

-----------------------------------------------------------------------------
(* The founder.                                                            *)

Supersedable(x, dimension) == Active(x) /\ memory[x].dimension = dimension

\* A key that is known is answered with its item: nothing is written.  That the item to be
\* replaced is active is only read: another call may have read it as well.
OpenAdd(o) ==
    /\ ~ Adding(o)
    /\ Len(memory) < MaxItems
    /\ \E d \in Dimensions, key \in Declared \cup {None}, old \in Items \cup {None} :
        /\ ~ Known(key)
        /\ old # None => Supersedable(old, d)
        /\ add' = [add EXCEPT ![o] = [dimension |-> d, key |-> key, supersedes |-> old]]
        /\ contested' = contested \cup {x \in {old} \ {None} : \E p \in Adds : add[p].supersedes = x}
    /\ UNCHANGED <<memory, state>>

\* Mutant: the item that is replaced stays.
DeactivateNothing(items, x) == items
Deactivate(items, x) == IF x = None THEN items ELSE [items EXCEPT ![x].is_active = FALSE]

\* A fact and a hypothesis of a founder are declared as well: a declaration stands for both.
\* The unique pair (project_id, deduplication_key) refuses the second of two inserts.
CommitAdd(o) ==
    /\ Adding(o)
    /\ add' = [add EXCEPT ![o] = NoAdd]
    /\ \/ ~ Known(add[o].key) /\ Len(memory) < MaxItems
          /\ \E expires \in BOOLEAN : memory' = Deactivate(Append(memory,
                NewItem(add[o].dimension, "declaration", add[o].key, add[o].supersedes, expires)), add[o].supersedes)
       \/ UNCHANGED memory
    /\ UNCHANGED <<state, contested>>

\* expires_at is passed.
Expire(x) ==
    /\ x \in Items /\ memory[x].expires /\ ~ memory[x].expired
    /\ memory' = [memory EXCEPT ![x].expired = TRUE]
    /\ UNCHANGED <<state, add, contested>>

-----------------------------------------------------------------------------
(* The scoring: persist_findings, and the projector.                       *)

\* The items after persist_findings: one for each finding that is not known.
PersistFindings(found) ==
    LET new == {f \in found : ~ Known(f)} IN
    FoldSet(LAMBDA f, items : Append(items, NewItem(DIMENSION_BY_TYPE[f], "contradiction", f, None, FALSE)), memory, new)

\* build_dimension_projections, for the run: what is read of the active items.
ActiveItems(items) == {items[x] : x \in {y \in DOMAIN items : items[y].is_active}}
Project(grid, run, items) == DimensionProjections(grid, run, ActiveItems(items))

\* upsert_dimension_state, for each dimension of the grid.
Upserted(projections) ==
    [d \in DOMAIN projections \cup DOMAIN state |-> IF d \in DOMAIN projections THEN projections[d] ELSE state[d]]

MemoryNext ==
    \/ \E o \in Adds : OpenAdd(o) \/ CommitAdd(o)
    \/ \E x \in 1..MaxItems : Expire(x)

-----------------------------------------------------------------------------
(* The memory is a history: an item that was replaced is not read any      *)
(* more, it was replaced in its own dimension and by one item, unless two  *)
(* calls replaced it at the same time, and a fact that is sent or found    *)
(* again does not pile up.                                                 *)

ReplacedOnce ==
    \A x, y \in Items : memory[x].supersedes # None =>
        /\ ~ Active(memory[x].supersedes)
        /\ memory[memory[x].supersedes].dimension = memory[x].dimension
        /\ memory[y].supersedes = memory[x].supersedes => x = y \/ memory[x].supersedes \in contested
NothingPilesUp == \A x, y \in Items : memory[x].key # None /\ memory[x].key = memory[y].key => x = y
OnlyReplacedIsHidden == \A x \in Items : ~ Active(x) => \E y \in Items : memory[y].supersedes = x

\* No interleaving of the calls makes the memory forget a fact or count one twice; a fact has two
\* successors only where two calls that overlapped both saw it active, for add_memory takes no
\* lock between its check and its write (owner_service.py, persist_findings).
MemoryIsConsistent == ReplacedOnce /\ NothingPilesUp /\ OnlyReplacedIsHidden
=============================================================================
