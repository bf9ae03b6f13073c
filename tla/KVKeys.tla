------------------------------- MODULE KVKeys -------------------------------
(***************************************************************************)
(* The key type of a KVStore.  Several KVStore objects, of one process or  *)
(* of several, use one table and namespace.  With enforce_key_type each    *)
(* keeps in memory the one type that its keys are to have: declared, found *)
(* in the table when it is opened, or fixed by the first key it encodes,   *)
(* and encodes no key of another.  A restart forgets the object.           *)
(***************************************************************************)
EXTENDS Naturals, FiniteSets

CONSTANTS
    Stores,     \* KVStore objects
    Types,      \* the sortable types: int, float, str, bytes
    Pickle,     \* any other type
    NoType,     \* no type
    Ids,        \* distinguishes keys of one type
    Modes       \* how stores are opened: some of Mode

ASSUME TypesAssumption == NoType \notin Types

Formats == Types \cup {Pickle}
Key == [format : Formats, id : Ids]
Mode == [enforce : BOOLEAN, declared : Types \cup {NoType}]

VARIABLES
    stored,     \* the keys in the table
    state,      \* where each object stands
    mode,       \* how it was opened
    resolved,   \* _resolved_key_type
    key,        \* the key its call has encoded
    op          \* what the call is going to do with it

keyVars == <<stored, state, mode, resolved, key, op>>

StartKeys ==
    /\ stored = {}
    /\ state = [s \in Stores |-> "closed"]
    /\ mode = [s \in Stores |-> [enforce |-> TRUE, declared |-> NoType]]
    /\ resolved = [s \in Stores |-> NoType]
    /\ key = [s \in Stores |-> NoType]
    /\ op = [s \in Stores |-> "none"]

FormatsIn(R) == {k.format : k \in R}
Becomes(s, l) == state' = [state EXCEPT ![s] = l]

-----------------------------------------------------------------------------
\* __init__, up to the table.
Construct(s) ==
    /\ state[s] = "closed"
    /\ \E m \in Modes : /\ mode' = [mode EXCEPT ![s] = m]
                        /\ resolved' = [resolved EXCEPT ![s] = m.declared]
    /\ Becomes(s, "new")
    /\ UNCHANGED <<stored, key, op>>

\* Faulty: the declared type is not compared with the rows.
LoadTrustsDeclared(s) ==
    \/ FormatsIn(stored) = {} /\ UNCHANGED resolved
    \/ \E t \in Types :
        /\ FormatsIn(stored) = {t}
        /\ resolved' = [resolved EXCEPT ![s] =
                          IF mode[s].declared = NoType THEN t ELSE mode[s].declared]

\* _load_existing_key_type, where it does not raise: it looks at the formats
\* there are.
Load(s) ==
    \/ FormatsIn(stored) = {} /\ UNCHANGED resolved
    \/ \E t \in Types :
        /\ FormatsIn(stored) = {t}
        /\ mode[s].declared \in {NoType, t}
        /\ resolved' = [resolved EXCEPT ![s] = t]

Open(s) ==
    /\ state[s] = "new"
    /\ \/ mode[s].enforce /\ Load(s)
       \/ ~mode[s].enforce /\ UNCHANGED resolved
    /\ Becomes(s, "open")
    /\ UNCHANGED <<stored, mode, key, op>>

\* It raises, or the process ends; in the middle of a call, too.
Discard(s) ==
    /\ state[s] # "closed"
    /\ Becomes(s, "closed")
    /\ key' = [key EXCEPT ![s] = NoType]
    /\ op' = [op EXCEPT ![s] = "none"]
    /\ resolved' = [resolved EXCEPT ![s] = NoType]
    /\ UNCHANGED <<stored, mode>>

\* range() and slices, while the type is not known.
RangeQuery(s) ==
    /\ state[s] = "open"
    /\ mode[s].enforce
    /\ resolved[s] = NoType
    /\ Load(s)
    /\ UNCHANGED <<stored, state, mode, key, op>>

\* _encode_sortable_key or _encode_flexible_key, where it does not raise.
Encode(s, k) ==
    \/ /\ mode[s].enforce
       /\ k.format \in Types
       /\ resolved[s] \in {NoType, k.format}
       /\ resolved' = [resolved EXCEPT ![s] = k.format]
    \/ ~mode[s].enforce /\ UNCHANGED resolved

EncodeKey(s) ==
    /\ state[s] = "open"
    /\ \E k \in Key : Encode(s, k) /\ key' = [key EXCEPT ![s] = k]
    /\ \E o \in {"set", "delete", "get"} : op' = [op EXCEPT ![s] = o]
    /\ Becomes(s, "call")
    /\ UNCHANGED <<stored, mode>>

\* The statement is executed, or raises: the type stays resolved.
Send(s) ==
    /\ state[s] = "call"
    /\ \/ op[s] = "set" /\ stored' = stored \cup {key[s]}
       \/ op[s] = "delete" /\ stored' = stored \ {key[s]}
       \/ UNCHANGED stored
    /\ Becomes(s, "open")
    /\ key' = [key EXCEPT ![s] = NoType]
    /\ op' = [op EXCEPT ![s] = "none"]
    /\ UNCHANGED <<mode, resolved>>

Clear(s) ==
    /\ state[s] = "open"
    /\ stored' = {}
    /\ UNCHANGED <<state, mode, resolved, key, op>>

UseKeys == \E s \in Stores :
    Construct(s) \/ Open(s) \/ Discard(s) \/ RangeQuery(s) \/ EncodeKey(s) \/ Send(s) \/ Clear(s)

KeysSpec == StartKeys /\ [][UseKeys]_keyVars

-----------------------------------------------------------------------------
(***************************************************************************)
(* Properties.                                                             *)
(***************************************************************************)
\* A store that enforces a type sees every row of its namespace: keys(), items()
\* and range() select the rows of the resolved type only.
NothingHidden ==
    \A s \in Stores : state[s] \in {"open", "call"} /\ mode[s].enforce /\ resolved[s] # NoType =>
        FormatsIn(stored) \subseteq {resolved[s]}
=============================================================================
