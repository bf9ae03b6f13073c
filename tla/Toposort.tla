------------------------------ MODULE Toposort ------------------------------
(***************************************************************************)
(* _toposort_models of src/obele/orm/model.py: the order in which          *)
(* create_all, migrate and (backwards) drop_all take the models.           *)
(* Any foreign keys among the models, in circles too.                      *)
(***************************************************************************)
EXTENDS Integers, Sequences, FiniteSets, SequencesExt, FiniteSetsExt

CONSTANT ModelCount
Models == 1 .. ModelCount      \* numbered as they are declared
ASSUME ModelsAssumption == ModelCount \in Nat

VARIABLES
    refs,       \* the models that each one's foreign keys lead to
    waitsFor,   \* dependencies: those of them that are not in order yet
    ready,      \* models that wait for none
    order,      \* result
    sorted      \* whether it is returned

sortVars == <<refs, waitsFor, ready, order, sorted>>

NotSorting ==
    /\ refs = [m \in Models |-> {}] /\ waitsFor = refs /\ ready = {} /\ order = <<>>
    /\ sorted = FALSE

\* A reference of a model to itself is left out.
StartSort ==
    /\ refs \in [Models -> SUBSET Models] /\ \A m \in Models : m \notin refs[m]
    /\ waitsFor = refs
    /\ ready = {m \in Models : refs[m] = {}}
    /\ order = <<>> /\ sorted = FALSE

\* Faulty: the models are ready as soon as one target is in order.
FreedByOne(m, waiting) == {c \in Models : m \in waitsFor[c]}

\* Those that wait for nothing any more.
Freed(m, waiting) ==
    {c \in Models : m \in waitsFor[c] /\ waiting[c] = {}}

TakeReady ==
    /\ ~sorted /\ ready # {}
    /\ LET m == Min(ready)
           waiting == [c \in Models |-> waitsFor[c] \ {m}]
       IN  /\ order' = Append(order, m)
           /\ waitsFor' = waiting
           /\ ready' = (ready \ {m}) \cup (Freed(m, waiting) \ Range(order'))
    /\ UNCHANGED <<refs, sorted>>

\* What is left is in a circle or behind one: in the order of declaration.
TakeLeft ==
    /\ ~sorted /\ ready = {} /\ Range(order) # Models
    /\ order' = Append(order, Min(Models \ Range(order)))
    /\ UNCHANGED <<refs, waitsFor, ready, sorted>>

ReturnOrder ==
    /\ ~sorted /\ ready = {} /\ Range(order) = Models
    /\ sorted' = TRUE
    /\ UNCHANGED <<refs, waitsFor, ready, order>>

Sort == TakeReady \/ TakeLeft \/ ReturnOrder

SortSpec == StartSort /\ [][Sort]_sortVars

\* From m one reference leads to another for ever.
BehindCircle(m) ==
    \E S \in SUBSET Models : m \in S /\ \A s \in S : refs[s] \cap S # {}

\* Every model is taken once, and after all those it refers to, unless it is in
\* a circle of references or refers to one: then it comes after all that are not.
TargetsFirst ==
    sorted =>
        /\ Range(order) = Models /\ Len(order) = ModelCount
        /\ \A i, j \in 1 .. ModelCount :
            order[j] \in refs[order[i]] /\ ~ BehindCircle(order[i]) => j < i
        /\ \A i, j \in 1 .. ModelCount :
            BehindCircle(order[i]) /\ ~ BehindCircle(order[j]) => j < i
=============================================================================
