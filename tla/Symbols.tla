------------------------------- MODULE Symbols -------------------------------
(***************************************************************************)
(* The symbol table (symbol.c): an array of strings, a symbol is an index. *)
(* Threads look a name up, or add it, under one lock, and turn symbols     *)
(* back into strings under the same lock. The lock is initialized by the   *)
(* first caller.                                                           *)
(***************************************************************************)
EXTENDS Integers, Sequences

CONSTANTS
  Thread, Name, None,
  Initialized \* whether snow_init has interned symbols before threads start

ASSUME SymbolsAssumption ==
  /\ None \notin Thread
  /\ Initialized \in BOOLEAN

VARIABLES
  pc,
  name,      \* of each thread: the argument of its call
  index,     \* of each thread: its position in the table, or its symbol
  storage,   \* the strings, by symbol
  lock,      \* the holder of symbol_table_lock
  lock_init, \* symbol_table_lock_init
  given      \* ghost: the symbols that callers got for their names

vars == <<pc, name, index, storage, lock, lock_init, given>>

Init ==
  /\ pc = [t \in Thread |-> "idle"]
  /\ name \in [Thread -> Name]
  /\ index = [t \in Thread |-> 1]
  /\ storage = <<>>
  /\ lock = None
  /\ lock_init = Initialized
  /\ given = {}

Goto(t, place) == pc' = [pc EXCEPT ![t] = place]

(***************************************************************************)
(* snow_symbol                                                             *)
(***************************************************************************)
Call(t, n) ==
  /\ pc[t] = "idle"
  /\ name' = [name EXCEPT ![t] = n]
  /\ Goto(t, IF lock_init THEN "lock" ELSE "init")
  /\ UNCHANGED <<index, storage, lock, lock_init, given>>

\* pthread_mutex_init: the mutex is free, whoever held it.
InitLock(t) ==
  /\ pc[t] = "init"
  /\ lock' = None
  /\ Goto(t, "initialized")
  /\ UNCHANGED <<name, index, storage, lock_init, given>>

SetInitialized(t) ==
  /\ pc[t] = "initialized"
  /\ lock_init' = TRUE
  /\ Goto(t, "lock")
  /\ UNCHANGED <<name, index, storage, lock, given>>

Lock(t) ==
  /\ pc[t] = "lock"
  /\ lock = None /\ lock' = t
  /\ index' = [index EXCEPT ![t] = 1]
  /\ Goto(t, "compare")
  /\ UNCHANGED <<name, storage, lock_init, given>>

\* One turn of the loop over the table.
Compare(t) ==
  /\ pc[t] = "compare"
  /\ index[t] \in 1 .. Len(storage)
  /\ IF storage[index[t]] = name[t]
     THEN Goto(t, "unlock") /\ UNCHANGED index
     ELSE index' = [index EXCEPT ![t] = @ + 1] /\ UNCHANGED pc
  /\ UNCHANGED <<name, storage, lock, lock_init, given>>

\* Mutant: the string is allocated outside of the lock, so that a collection
\* need not wait for the threads that want it.
NotFoundUnlocked(t) ==
  /\ pc[t] = "compare"
  /\ index[t] > Len(storage)
  /\ lock' = None
  /\ Goto(t, "push")
  /\ UNCHANGED <<name, index, storage, lock_init, given>>

\* The name is new: a string is allocated.
NotFound(t) ==
  /\ pc[t] = "compare"
  /\ index[t] > Len(storage)
  /\ Goto(t, "push")
  /\ UNCHANGED <<name, index, storage, lock, lock_init, given>>

\* Mutant: the symbol is the size after the push.
PushThenSize(t) ==
  /\ pc[t] = "push"
  /\ storage' = Append(storage, name[t])
  /\ index' = [index EXCEPT ![t] = Len(storage) + 2]
  /\ Goto(t, "unlock")
  /\ UNCHANGED <<name, lock, lock_init, given>>

Push(t) ==
  /\ pc[t] = "push"
  /\ index' = [index EXCEPT ![t] = Len(storage) + 1]
  /\ storage' = Append(storage, name[t])
  /\ Goto(t, "unlock")
  /\ UNCHANGED <<name, lock, lock_init, given>>

Unlock(t) ==
  /\ pc[t] = "unlock"
  /\ lock' = None
  /\ given' = given \cup {<<name[t], index[t]>>}
  /\ Goto(t, "idle")
  /\ UNCHANGED <<name, index, storage, lock_init>>

(***************************************************************************)
(* snow_symbol_to_string, of a symbol that somebody got                    *)
(***************************************************************************)
SymbolToString(t, g) ==
  /\ pc[t] = "idle"
  /\ name' = [name EXCEPT ![t] = g[1]]
  /\ index' = [index EXCEPT ![t] = g[2]]
  /\ Goto(t, "read")
  /\ UNCHANGED <<storage, lock, lock_init, given>>

Read(t) ==
  /\ pc[t] = "read"
  /\ lock = None
  /\ lock' = t
  /\ Goto(t, IF index[t] \in 1 .. Len(storage) /\ storage[index[t]] = name[t]
             THEN "unlock" ELSE "misread")
  /\ UNCHANGED <<name, index, storage, lock_init, given>>

Next ==
  \E t \in Thread :
    \/ \E n \in Name : Call(t, n)
    \/ InitLock(t)
    \/ SetInitialized(t)
    \/ Lock(t)
    \/ Compare(t)
    \/ NotFound(t)
    \/ Push(t)
    \/ Unlock(t)
    \/ \E g \in given : SymbolToString(t, g)
    \/ Read(t)

Spec == Init /\ [][Next]_vars

(***************************************************************************)
(* Properties                                                              *)
(***************************************************************************)
TypeOK ==
  /\ pc \in [Thread -> {"idle", "init", "initialized", "lock", "compare", "push", "unlock",
                        "read", "misread"}]
  /\ name \in [Thread -> Name]
  /\ index \in [Thread -> Nat \ {0}]
  /\ storage \in Seq(Name)
  /\ lock \in Thread \cup {None}
  /\ lock_init \in BOOLEAN
  /\ given \subseteq Name \X (Nat \ {0})

\* Two symbols never stand for one name: whatever thread asks, and however its
\* scan of the table meets the additions of others, a name that is in the
\* table is found and not added again (symbol.c:35-49). Names are compared as
\* symbols everywhere else.
SymbolsAreUnique ==
  \A i, j \in 1 .. Len(storage) : storage[i] = storage[j] => i = j

\* A symbol that was handed out is that of its name for ever, for every thread
\* that reads it, while the table grows (symbol.c:68-78).
SymbolsKeepTheirNames ==
  /\ \A g \in given : g[2] \in 1 .. Len(storage) /\ storage[g[2]] = g[1]
  /\ \A t \in Thread : pc[t] # "misread"
=============================================================================
