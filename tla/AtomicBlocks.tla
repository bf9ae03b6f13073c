---------------------------- MODULE AtomicBlocks ----------------------------
(***************************************************************************)
(* What the database layer promises its callers, whatever the connections, *)
(* locks and savepoints behind it: a block of statements reaches the       *)
(* database whole or not at all, a nested block that fails takes back its  *)
(* own writes and no others, and nothing that was committed is lost.       *)
(*                                                                         *)
(* block[p] is what p has in progress: the empty sequence when nothing is, *)
(* otherwise one set of writes per nesting level, the outermost first,     *)
(* each holding the writes made up to the opening of the next one.         *)
(* outcome[p] says how the innermost block was left while its end is being *)
(* carried out.                                                            *)
(***************************************************************************)
EXTENDS Naturals, Sequences, SequencesExt

CONSTANTS Procs, Writes

VARIABLES
    db,         \* the committed writes
    block,      \* what each process has in progress
    outcome,    \* "none", or how the innermost block was left
    issued      \* every write issued so far

vars == <<db, block, outcome, issued>>

TypeOK ==
    /\ db \subseteq Writes
    /\ block \in [Procs -> Seq(SUBSET Writes)]
    /\ outcome \in [Procs -> {"none", "success", "failure"}]
    /\ issued \subseteq Writes

Init ==
    /\ db = {}
    /\ block = [p \in Procs |-> <<>>]
    /\ outcome = [p \in Procs |-> "none"]
    /\ issued = {}

Begin(p) ==
    /\ block[p] = <<>>
    /\ block' = [block EXCEPT ![p] = <<{}>>]
    /\ UNCHANGED <<db, outcome, issued>>

Write(p, w) ==
    /\ block[p] # <<>> /\ outcome[p] = "none"
    /\ w \notin issued
    /\ issued' = issued \cup {w}
    /\ block' = [block EXCEPT ![p] = Front(@) \o <<Last(@) \cup {w}>>]
    /\ UNCHANGED <<db, outcome>>

Nest(p) ==
    /\ block[p] # <<>> /\ outcome[p] = "none"
    /\ block' = [block EXCEPT ![p] = Append(@, Last(@))]
    /\ UNCHANGED <<db, outcome, issued>>

\* The innermost block is left, normally or with an exception.
End(p) ==
    /\ block[p] # <<>> /\ outcome[p] = "none"
    /\ \E o \in {"success", "failure"} : outcome' = [outcome EXCEPT ![p] = o]
    /\ UNCHANGED <<db, block, issued>>

\* A nested block left normally hands its writes to the block around it; one
\* left with an exception takes them back.
EndNested(p) ==
    /\ Len(block[p]) > 1
    /\ \/ /\ outcome[p] = "success"
          /\ block' = [block EXCEPT ![p] = Front(Front(@)) \o <<Last(@)>>]
       \/ /\ outcome[p] = "failure"
          /\ block' = [block EXCEPT ![p] = Front(@)]
    /\ outcome' = [outcome EXCEPT ![p] = "none"]
    /\ UNCHANGED <<db, issued>>

\* Only a block nobody raised in can reach the database, and then whole.
Commit(p) ==
    /\ Len(block[p]) = 1 /\ outcome[p] # "failure"
    /\ db' = db \cup block[p][1]
    /\ block' = [block EXCEPT ![p] = <<>>]
    /\ outcome' = [outcome EXCEPT ![p] = "none"]
    /\ UNCHANGED issued

Abort(p) ==
    /\ Len(block[p]) = 1
    /\ block' = [block EXCEPT ![p] = <<>>]
    /\ outcome' = [outcome EXCEPT ![p] = "none"]
    /\ UNCHANGED <<db, issued>>

\* A statement outside any block.
AutoWrite(p, w) ==
    /\ block[p] = <<>>
    /\ w \notin issued
    /\ issued' = issued \cup {w}
    /\ db' = db \cup {w}
    /\ UNCHANGED <<block, outcome>>

\* Writes the caller will never make after all.
Discard ==
    /\ issued \subseteq issued'
    /\ issued' \subseteq Writes
    /\ UNCHANGED <<db, block, outcome>>

Next ==
    \/ Discard
    \/ \E p \in Procs :
        \/ Begin(p) \/ Nest(p) \/ End(p) \/ EndNested(p)
        \/ Commit(p) \/ Abort(p)
        \/ \E w \in Writes : Write(p, w) \/ AutoWrite(p, w)

Spec == Init /\ [][Next]_vars
=============================================================================
