-------------------------- MODULE ParallelTransform --------------------------
(***************************************************************************)
(* What EncryptionThreadPoolDoWork promises its clients, with no thread,   *)
(* ring or event in sight: between the call and the return every unit of   *)
(* the buffer is transformed exactly once, in any order and any grouping,  *)
(* and no unit is touched before the call or after the return.             *)
(***************************************************************************)
EXTENDS Naturals

CONSTANTS Clients, MaxUnits

VARIABLES
    called,  \* the clients whose call has not returned
    units,   \* the number of units in each client's buffer
    data     \* how often each unit of it was transformed

vars == <<called, units, data>>

Init ==
    /\ called = {}
    /\ units = [c \in Clients |-> 0]
    /\ data = [c \in Clients |-> [u \in 1 .. MaxUnits |-> 0]]

Pending(c) == {u \in 1 .. units[c] : data[c][u] = 0}

Call(c) == \E n \in 0 .. MaxUnits :
    /\ c \notin called
    /\ called' = called \cup {c}
    /\ units' = [units EXCEPT ![c] = n]
    /\ UNCHANGED data

\* Some of the units that still have to be transformed are.
Process(c) == \E U \in SUBSET Pending(c) :
    /\ c \in called
    /\ data' = [data EXCEPT ![c] = [u \in 1 .. MaxUnits |-> IF u \in U THEN 1 ELSE @[u]]]
    /\ UNCHANGED <<called, units>>

\* Afterwards the buffer is the caller's again, and counts as fresh.
Return(c) ==
    /\ c \in called
    /\ Pending(c) = {}
    /\ called' = called \ {c}
    /\ units' = [units EXCEPT ![c] = 0]
    /\ data' = [data EXCEPT ![c] = [u \in 1 .. MaxUnits |-> 0]]

Next == \E c \in Clients : Call(c) \/ Process(c) \/ Return(c)

Spec == Init /\ [][Next]_vars
==============================================================================
