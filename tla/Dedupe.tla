------------------------------- MODULE Dedupe --------------------------------
(***************************************************************************)
(* The filter of src/dedupe.go as operators on its table: a function from  *)
(* the signatures it remembers to when the error was last let through and  *)
(* how many copies were held back since.  The window, how long a repeat is *)
(* held back, is an option of the client.                                  *)
(***************************************************************************)
EXTENDS Integers, FiniteSets

CONSTANTS
    Signatures,     \* type, culprit and message of an error, taken together
    MaxEntries      \* the capacity of the table

ASSUME MaxEntriesAssumption == MaxEntries \in Nat \ {0}

Entry == [sentAt : Nat, dropped : Nat]
Empty == [s \in {} |-> [sentAt |-> 0, dropped |-> 0]]

\* Slip: a copy whose time is before the entry's is taken for a new error.
Repeats_LateIsNew(table, s, now, window) ==
    s \in DOMAIN table /\ now - table[s].sentAt \in 0..(window - 1)

\* seen, and its window still runs.
Repeats(table, s, now, window) ==
    s \in DOMAIN table /\ now - table[s].sentAt < window

HoldBack(table, s) == [table EXCEPT ![s].dropped = @ + 1]

Forget(table, gone) == [s \in DOMAIN table \ gone |-> table[s]]

\* evict: the entries whose window is over go; when none is, all of them go.
Expired(table, now, window) == {s \in DOMAIN table : now - table[s].sentAt >= window}
Evict(table, now, window) ==
    LET left == Forget(table, Expired(table, now, window))
    IN  IF Cardinality(DOMAIN left) >= MaxEntries THEN Empty ELSE left

\* Slip: the size is never looked at.
MakeRoom_Never(table, now, window) == table

MakeRoom(table, now, window) ==
    IF Cardinality(DOMAIN table) >= MaxEntries THEN Evict(table, now, window) ELSE table

Insert(table, s, now) ==
    [r \in DOMAIN table \cup {s} |->
        IF r = s THEN [sentAt |-> now, dropped |-> 0] ELSE table[r]]

\* The table after a copy was let through, and the repeats it reports: the
\* entry is read before the table is changed, so an evicted one still counts.
LetThrough(table, s, now, window) == Insert(MakeRoom(table, now, window), s, now)
Dropped(table, s) == IF s \in DOMAIN table THEN table[s].dropped ELSE 0
=============================================================================
