------------------------------- MODULE Capture -------------------------------
(***************************************************************************)
(* The capture path of the client (src/client.go): goroutines capture      *)
(* errors, panics and messages, the duplicates are held back, BeforeSend   *)
(* may drop an event, and the rest is handed to the transport.  The time a *)
(* capture goes by is read before the filter's lock is taken, so captures  *)
(* may reach the filter in another order than their times.                 *)
(*                                                                         *)
(* What an event says is left out: the scope, the stack and the modifiers  *)
(* touch no state of the client.                                           *)
(***************************************************************************)
EXTENDS Dedupe, FiniteSetsExt

CONSTANTS
    Calls,      \* the captures, each made by a goroutine of its own
    Windows,    \* DedupeWindow: what the application may ask for; negative is off
    MaxTime     \* the clock stops here

ASSUME CallsAssumption   == IsFiniteSet(Calls)
ASSUME WindowsAssumption == Windows \subseteq Int
ASSUME MaxTimeAssumption == MaxTime \in Nat

VARIABLES
    window,     \* dedupe.window
    now,        \* time.Now()
    table,      \* dedupe.entries
    callPc,     \* where each capture stands
    sig,        \* the signature of what it captures
    time,       \* the time it read
    repeats,    \* repeats_dropped of its event
    result,     \* how it ended
    sampled, duplicates, beforeSend,    \* clientStats
    generation, \* history: how often the table forgot each signature
    admittedIn, \* history: the generation a capture was let through in
    forgotten   \* history: the repeats that went with a forgotten entry

stats   == <<sampled, duplicates, beforeSend>>
history == <<generation, admittedIn, forgotten>>
vars == <<window, now, table, callPc, sig, time, repeats, result, sampled, duplicates,
          beforeSend, generation, admittedIn, forgotten>>

\* CaptureEvent takes a ready-made event past the filter.
NoSignature == "ready-made"

Init ==
    /\ window \in Windows /\ now = 0 /\ table = Empty
    /\ callPc = [c \in Calls |-> "idle"]
    /\ sig \in [Calls -> Signatures \cup {NoSignature}]
    /\ time = [c \in Calls |-> 0] /\ repeats = [c \in Calls |-> 0]
    /\ result = [c \in Calls |-> "none"]
    /\ sampled = 0 /\ duplicates = 0 /\ beforeSend = 0
    /\ generation = [s \in Signatures |-> 0]
    /\ admittedIn = [c \in Calls |-> -1]
    /\ forgotten = [s \in Signatures |-> 0]

CallMoves(c, from, to) ==
    /\ callPc[c] = from
    /\ callPc' = [callPc EXCEPT ![c] = to]
    /\ UNCHANGED <<window, sig>>

\* The capture returns.
Returns(c, from, how) ==
    /\ CallMoves(c, from, "returned")
    /\ result' = [result EXCEPT ![c] = how]

-----------------------------------------------------------------------------
\* sampled: SampleRate leaves the event out.
SampleOut(c) ==
    /\ Returns(c, "idle", "sampled")
    /\ sampled' = sampled + 1
    /\ UNCHANGED <<now, table, time, repeats, duplicates, beforeSend, history>>

\* newEvent: the signature is built and the clock read, outside the lock.
ReadClock(c) ==
    /\ sig[c] # NoSignature
    /\ CallMoves(c, "idle", "timed")
    /\ time' = [time EXCEPT ![c] = now]
    /\ UNCHANGED <<now, table, repeats, result, stats, history>>

\* Slip: a repeat moves the window on.
HeldBack_Slides(c) ==
    /\ window >= 0 /\ Repeats(table, sig[c], time[c], window)
    /\ CallMoves(c, "timed", "heldBack")
    /\ table' = [HoldBack(table, sig[c]) EXCEPT ![sig[c]].sentAt = time[c]]
    /\ UNCHANGED <<now, time, repeats, result, stats, history>>

\* admit holds a repeat back.
HeldBack(c) ==
    /\ window >= 0 /\ Repeats(table, sig[c], time[c], window)
    /\ CallMoves(c, "timed", "heldBack")
    /\ table' = HoldBack(table, sig[c])
    /\ UNCHANGED <<now, time, repeats, result, stats, history>>

\* newEvent counts it, when admit's lock is free again.
CountDuplicate(c) ==
    /\ Returns(c, "heldBack", "duplicate")
    /\ duplicates' = duplicates + 1
    /\ UNCHANGED <<now, table, time, repeats, sampled, beforeSend, history>>

\* The repeats that go with the entries that had to make room.
Forgets(before, after) ==
    LET gone == DOMAIN before \ DOMAIN after
    IN  /\ generation' = [s \in Signatures |->
                             generation[s] + (IF s \in gone THEN 1 ELSE 0)]
        /\ forgotten' = [s \in Signatures |->
                             forgotten[s] + (IF s \in gone THEN before[s].dropped ELSE 0)]

\* Slip: the repeats are read from the table that has already made room.
Admitted_ReadsLate(c) ==
    /\ window >= 0 /\ ~Repeats(table, sig[c], time[c], window)
    /\ CallMoves(c, "timed", "built")
    /\ repeats' = [repeats EXCEPT ![c] = Dropped(MakeRoom(table, time[c], window), sig[c])]
    /\ table' = LetThrough(table, sig[c], time[c], window)
    /\ Forgets(table, table')
    /\ admittedIn' = [admittedIn EXCEPT ![c] = generation[sig[c]]]
    /\ UNCHANGED <<now, time, result, stats>>

\* admit lets it through, with the repeats counted so far.
Admitted(c) ==
    /\ window >= 0 /\ ~Repeats(table, sig[c], time[c], window)
    /\ CallMoves(c, "timed", "built")
    /\ repeats' = [repeats EXCEPT ![c] = Dropped(table, sig[c])]
    /\ table' = LetThrough(table, sig[c], time[c], window)
    /\ Forgets(table, table')
    /\ admittedIn' = [admittedIn EXCEPT ![c] = generation[sig[c]]]
    /\ UNCHANGED <<now, time, result, stats>>

Unfiltered(c) ==
    /\ window < 0
    /\ CallMoves(c, "timed", "built")
    /\ UNCHANGED <<now, table, time, repeats, result, stats, history>>

\* CaptureEvent
ReadyMade(c) ==
    /\ sig[c] = NoSignature
    /\ CallMoves(c, "idle", "built")
    /\ UNCHANGED <<now, table, time, repeats, result, stats, history>>

\* finish: BeforeSend returns nil.
BeforeSendDrops(c) ==
    /\ Returns(c, "built", "beforeSend")
    /\ beforeSend' = beforeSend + 1
    /\ UNCHANGED <<now, table, time, repeats, sampled, duplicates, history>>

\* finish: transport.Send takes the event or, without a word, does not (the
\* queue is full, the server asked to wait, the transport is closed).
Send(c) ==
    /\ \E how \in {"accepted", "refused"} : Returns(c, "built", how)
    /\ UNCHANGED <<now, table, time, repeats, stats, history>>

Tick ==
    /\ now < MaxTime
    /\ now' = now + 1
    /\ UNCHANGED <<window, table, callPc, sig, time, repeats, result, stats, history>>

Capturing(c) == \/ SampleOut(c) \/ ReadClock(c) \/ HeldBack(c)
                \/ CountDuplicate(c) \/ Admitted(c) \/ Unfiltered(c)
                \/ ReadyMade(c) \/ BeforeSendDrops(c) \/ Send(c)

\* Every capture has returned.
Terminated == (\A c \in Calls : callPc[c] = "returned") /\ UNCHANGED vars

Next == (\E c \in Calls : Capturing(c)) \/ Tick \/ Terminated

Spec == Init /\ [][Next]_vars

-----------------------------------------------------------------------------
(* What holds.                                                              *)

\* Types; the table never holds more than MaxEntries.
TypeOK ==
    /\ window \in Windows /\ now \in 0..MaxTime
    /\ DOMAIN table \subseteq Signatures /\ \A s \in DOMAIN table : table[s] \in Entry
    /\ Cardinality(DOMAIN table) <= MaxEntries
    /\ callPc \in [Calls -> {"idle", "timed", "heldBack", "built", "returned"}]
    /\ sig \in [Calls -> Signatures \cup {NoSignature}]
    /\ time \in [Calls -> Nat] /\ repeats \in [Calls -> Nat]
    /\ result \in [Calls -> {"none", "sampled", "duplicate", "beforeSend", "accepted",
                             "refused"}]
    /\ sampled \in Nat /\ duplicates \in Nat /\ beforeSend \in Nat
    /\ generation \in [Signatures -> Nat] /\ admittedIn \in [Calls -> Nat \cup {-1}]
    /\ forgotten \in [Signatures -> Nat]

\* Every repeat held back is reported by a later event, still counted in the
\* table, or went with an entry that had to make room; Stats has them all, but for
\* the captures that have yet to count themselves.
Held(c) == callPc[c] = "heldBack"
Captured == Signatures \cap {sig[c] : c \in Calls}
counted == [s \in Signatures |-> Dropped(table, s)]
RepeatsAddUp ==
    /\ TypeOK
    /\ duplicates + Quantify(Calls, Held)
               = SumFunction(repeats) + SumFunctionOnSet(counted, Captured)
                                      + SumFunctionOnSet(forgotten, Captured)

\* As long as its entry is not forgotten, an error is let through once per window
\* however the goroutines that capture it are delayed between clock and lock.
OncePerWindow ==
    \A c, d \in Calls :
        c # d /\ sig[c] = sig[d] /\ admittedIn[c] >= 0 /\ admittedIn[c] = admittedIn[d]
            => time[c] - time[d] >= window \/ time[d] - time[c] >= window

\* A copy is held back only because another one was let through less than a
\* window before its own time: the first copy of a rare error always passes.
FirstCopyPasses ==
    [][\A c \in Calls : ~Held(c) /\ Held(c)'
          => \E d \in Calls : /\ sig[d] = sig[c] /\ admittedIn[d] = generation[sig[c]]
                              /\ time[c] - time[d] < window]_vars

=============================================================================
