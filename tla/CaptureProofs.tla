--------------------------- MODULE CaptureProofs -----------------------------
(***************************************************************************)
(* The duplicate filter lets one error through per window and loses no     *)
(* repeat, for any number of errors, of captures under way and of entries. *)
(***************************************************************************)
EXTENDS Capture, DataLemmas

\* The table, as the filter's operators leave it.
Table(t) == /\ DOMAIN t \subseteq Signatures /\ IsFiniteSet(DOMAIN t)
            /\ \A s \in DOMAIN t : t[s] \in Entry

\* The error of a call that is past its clock has a signature.
Signed == \A c \in Calls :
    callPc[c] \in {"timed", "heldBack"} \/ admittedIn[c] # -1 => sig[c] \in Signatures

\* A call has no repeats to report and was not let through before it is built.
Fresh == \A c \in Calls :
    callPc[c] \in {"idle", "timed"} => repeats[c] = 0 /\ admittedIn[c] = -1

\* No call was let through in a generation that is yet to come, nor in the present one
\* of a signature the table does not remember.
Past == \A c \in Calls :
    admittedIn[c] # -1 => /\ admittedIn[c] <= generation[sig[c]]
                         /\ (sig[c] \notin DOMAIN table => admittedIn[c] < generation[sig[c]])

\* Call c was let through since the table last forgot s.
Recent(c, s) == sig[c] = s /\ admittedIn[c] = generation[s]

\* An entry tells the latest of them.
Latest == \A s \in DOMAIN table :
    /\ \E d \in Calls : Recent(d, s) /\ time[d] = table[s].sentAt
    /\ \A d \in Calls : Recent(d, s) => time[d] <= table[s].sentAt

Bounded == TypeOK /\ IsFiniteSet(DOMAIN table)
Filtered == Signed /\ Fresh /\ Past /\ Latest /\ OncePerWindow
IInv == Bounded /\ Filtered

-----------------------------------------------------------------------------
(* The operators on the table.                                              *)

\* Making room leaves some of the entries as they were, and room for one more.
LEMMA MakeRoomFacts ==
    ASSUME NEW t, Table(t), NEW now0, NEW w
    PROVE  LET m == MakeRoom(t, now0, w)
           IN  /\ DOMAIN m \subseteq DOMAIN t /\ \A s \in DOMAIN m : m[s] = t[s]
               /\ IsFiniteSet(DOMAIN m)
               /\ Cardinality(DOMAIN m) < MaxEntries
<1> DEFINE m == MakeRoom(t, now0, w)
           left == Forget(t, Expired(t, now0, w))
<1>1. DOMAIN left \subseteq DOMAIN t /\ \A s \in DOMAIN left : left[s] = t[s]
  BY DEF Forget
<1>2. DOMAIN Empty = {}
  BY DEF Empty
<1>3. DOMAIN m \subseteq DOMAIN t /\ \A s \in DOMAIN m : m[s] = t[s]
  <2> HIDE DEF left
  <2>1. m \in {Empty, left, t}
    BY DEF MakeRoom, Evict, left
  <2> HIDE DEF m
  <2> QED BY <1>1, <1>2, <2>1
<1>4. IsFiniteSet(DOMAIN m) /\ IsFiniteSet(DOMAIN left)
  BY <1>1, <1>3, FS_Subset DEF Table
<1>5. /\ Cardinality({}) = 0 /\ Cardinality(DOMAIN left) \in Nat
      /\ Cardinality(DOMAIN t) \in Nat /\ MaxEntries \in Nat \ {0}
  BY <1>4, FS_EmptySet, FS_CardinalityType, MaxEntriesAssumption DEF Table
<1>6. Cardinality(DOMAIN m) < MaxEntries
  <2> HIDE DEF left
  <2>1. CASE Cardinality(DOMAIN t) >= MaxEntries
    <3>1. m = IF Cardinality(DOMAIN left) >= MaxEntries THEN Empty ELSE left
      BY <2>1 DEF MakeRoom, Evict, left
    <3> QED BY <1>2, <1>5, <3>1
  <2>2. CASE ~(Cardinality(DOMAIN t) >= MaxEntries)
    <3>1. m = t
      BY <2>2 DEF MakeRoom
    <3> QED BY <1>5, <2>2, <3>1
  <2> QED BY <2>1, <2>2
<1> QED
  BY <1>3, <1>4, <1>6

\* An error that is let through is remembered; of the others nothing is added.
LEMMA LetThroughFacts ==
    ASSUME NEW t, Table(t), NEW s \in Signatures, NEW now0 \in Nat, NEW w
    PROVE  LET n == LetThrough(t, s, now0, w)
           IN  /\ Table(n) /\ Cardinality(DOMAIN n) <= MaxEntries
               /\ s \in DOMAIN n /\ n[s] = [sentAt |-> now0, dropped |-> 0]
               /\ \A r \in DOMAIN n \ {s} : r \in DOMAIN t /\ n[r] = t[r]
<1> DEFINE m == MakeRoom(t, now0, w)
           n == LetThrough(t, s, now0, w)
<1>1. /\ DOMAIN m \subseteq DOMAIN t /\ \A r \in DOMAIN m : m[r] = t[r]
      /\ IsFiniteSet(DOMAIN m) /\ Cardinality(DOMAIN m) < MaxEntries
  BY MakeRoomFacts
<1>2. n = Insert(m, s, now0)
  BY DEF LetThrough
<1> HIDE DEF m, n
<1>3. /\ DOMAIN n = DOMAIN m \cup {s}
      /\ n[s] = [sentAt |-> now0, dropped |-> 0]
      /\ \A r \in DOMAIN n \ {s} : n[r] = m[r]
  BY <1>2 DEF Insert
<1>4. IsFiniteSet(DOMAIN n) /\ Cardinality(DOMAIN n) <= MaxEntries
  <2>1. /\ IsFiniteSet(DOMAIN m \cup {s})
        /\ Cardinality(DOMAIN m \cup {s}) <= Cardinality(DOMAIN m) + 1
    BY <1>1, FS_AddElement, FS_CardinalityType
  <2>2. Cardinality(DOMAIN m) \in Nat /\ Cardinality(DOMAIN n) \in Nat
    BY <1>1, <1>3, <2>1, FS_CardinalityType
  <2> QED
    BY <1>1, <1>3, <2>1, <2>2, MaxEntriesAssumption
<1>5. Table(n)
  <2>1. DOMAIN n \subseteq Signatures
    BY <1>1, <1>3 DEF Table
  <2>2. ASSUME NEW r \in DOMAIN n PROVE n[r] \in Entry
    <3>1. CASE r = s
      BY <1>3, <3>1 DEF Entry
    <3>2. CASE r # s
      <4>1. r \in DOMAIN t /\ n[r] = t[r]
        BY <1>1, <1>3, <3>2
      <4> QED
        BY <4>1 DEF Table
    <3> QED
      BY <3>1, <3>2
  <2> QED
    BY <1>4, <2>1, <2>2 DEF Table
<1> QED
  BY <1>1, <1>3, <1>4, <1>5 DEF n

\* One that is held back is counted in its entry.
LEMMA HoldBackFacts ==
    ASSUME NEW t, Table(t), NEW s \in DOMAIN t
    PROVE  LET n == HoldBack(t, s)
           IN  /\ Table(n) /\ DOMAIN n = DOMAIN t
               /\ n[s] = [t[s] EXCEPT !.dropped = @ + 1]
               /\ \A r \in DOMAIN t \ {s} : n[r] = t[r]
BY DEF HoldBack, Table, Entry

-----------------------------------------------------------------------------
(* Types.                                                                   *)

Places == {"idle", "timed", "heldBack", "built", "returned"}
Ends   == {"none", "sampled", "duplicate", "beforeSend", "accepted", "refused"}

\* At first the table is empty.
LEMMA InitBounded == Init => Bounded
<1> SUFFICES ASSUME Init PROVE Bounded
  OBVIOUS
<1>1. DOMAIN table = {} /\ IsFiniteSet({}) /\ Cardinality({}) = 0
  BY FS_EmptySet DEF Init, Empty
<1>2. 0 \in 0..MaxTime /\ 0 <= MaxEntries
  BY MaxTimeAssumption, MaxEntriesAssumption
<1> QED
  BY <1>1, <1>2 DEF Init, Bounded, TypeOK

\* What a capture that moves leaves alone, and where it goes.
LEMMA MoveFacts ==
    ASSUME TypeOK, NEW c \in Calls, NEW from, NEW to \in Places, CallMoves(c, from, to)
    PROVE  /\ callPc[c] = from /\ callPc' \in [Calls -> Places]
           /\ callPc'[c] = to /\ \A d \in Calls \ {c} : callPc'[d] = callPc[d]
           /\ window' = window /\ sig' = sig
BY DEF TypeOK, CallMoves, Places

\* ... and one that returns.
LEMMA ReturnFacts ==
    ASSUME TypeOK, NEW c \in Calls, NEW from, NEW how \in Ends, Returns(c, from, how)
    PROVE  CallMoves(c, from, "returned") /\ result' \in [Calls -> Ends]
BY DEF TypeOK, Returns, Ends

\* A step that leaves the table alone keeps the types when what it changes has them.
LEMMA KeepsTable ==
    ASSUME Bounded, UNCHANGED <<window, table, sig, generation, admittedIn, forgotten>>,
           now' \in 0..MaxTime, callPc' \in [Calls -> Places], time' \in [Calls -> Nat],
           repeats' \in [Calls -> Nat], result' \in [Calls -> Ends],
           sampled' \in Nat, duplicates' \in Nat, beforeSend' \in Nat
    PROVE  Bounded'
BY DEF Bounded, TypeOK, Places, Ends

\* Every step keeps the types and a finite table within its bound.
LEMMA StepBounded == IInv /\ [Next]_vars => Bounded'
<1> SUFFICES ASSUME Bounded, Signed, [Next]_vars PROVE Bounded'
  BY DEF IInv, Filtered
<1> DEFINE Types == /\ now \in 0..MaxTime /\ callPc \in [Calls -> Places]
                    /\ time \in [Calls -> Nat] /\ repeats \in [Calls -> Nat]
                    /\ result \in [Calls -> Ends] /\ sampled \in Nat
                    /\ duplicates \in Nat /\ beforeSend \in Nat
<1>0. TypeOK /\ Types /\ Table(table) /\ now \in Nat
  BY MaxTimeAssumption DEF Bounded, TypeOK, Table, Places, Ends
<1>1. ASSUME NEW c \in Calls, SampleOut(c) PROVE Bounded'
  <2>1. /\ callPc' \in [Calls -> Places] /\ result' \in [Calls -> Ends]
        /\ UNCHANGED <<window, sig>>
    BY <1>0, <1>1, MoveFacts, ReturnFacts DEF SampleOut, Places, Ends
  <2> QED
    BY <1>0, <1>1, <2>1, KeepsTable DEF SampleOut, history
<1>2. ASSUME NEW c \in Calls, ReadClock(c) PROVE Bounded'
  <2>1. callPc' \in [Calls -> Places] /\ UNCHANGED <<window, sig>>
    BY <1>0, <1>2, MoveFacts DEF ReadClock, Places
  <2> QED
    BY <1>0, <1>2, <2>1, KeepsTable DEF ReadClock, history, stats
<1>3. ASSUME NEW c \in Calls, HeldBack(c) PROVE Bounded'
  <2>1. callPc' \in [Calls -> Places] /\ UNCHANGED <<window, sig>>
    BY <1>0, <1>3, MoveFacts DEF HeldBack, Places
  <2>2. Table(table') /\ DOMAIN table' = DOMAIN table
    BY <1>0, <1>3, HoldBackFacts DEF HeldBack, Repeats
  <2> QED
    BY <1>0, <1>3, <2>1, <2>2
    DEF HeldBack, Bounded, TypeOK, Table, history, stats, Places, Ends
<1>4. ASSUME NEW c \in Calls, CountDuplicate(c) PROVE Bounded'
  <2>1. /\ callPc' \in [Calls -> Places] /\ result' \in [Calls -> Ends]
        /\ UNCHANGED <<window, sig>>
    BY <1>0, <1>4, MoveFacts, ReturnFacts DEF CountDuplicate, Places, Ends
  <2> QED
    BY <1>0, <1>4, <2>1, KeepsTable DEF CountDuplicate, history
<1>5. ASSUME NEW c \in Calls, Admitted(c) PROVE Bounded'
  <2>1. /\ callPc' \in [Calls -> Places] /\ UNCHANGED <<window, sig>>
        /\ callPc[c] = "timed"
    BY <1>0, <1>5, MoveFacts DEF Admitted, Places
  <2>2. sig[c] \in Signatures /\ time[c] \in Nat
    BY <1>0, <2>1 DEF Signed
  <2>3. Table(table') /\ Cardinality(DOMAIN table') <= MaxEntries
    BY <1>0, <1>5, <2>2, LetThroughFacts DEF Admitted
  <2>4. repeats' \in [Calls -> Nat]
    BY <1>0, <1>5, <2>2 DEF Admitted, Dropped, Table, Entry
  <2>5. generation' \in [Signatures -> Nat] /\ forgotten' \in [Signatures -> Nat]
    <3>1. generation \in [Signatures -> Nat] /\ forgotten \in [Signatures -> Nat]
      BY <1>0 DEF TypeOK
    <3>2. \A s \in DOMAIN table : table[s].dropped \in Nat
      BY <1>0 DEF Table, Entry
    <3> QED
      BY <1>5, <3>1, <3>2 DEF Admitted, Forgets
  <2>6. admittedIn' \in [Calls -> Nat \cup {-1}]
    BY <1>0, <1>5, <2>2 DEF Admitted, TypeOK
  <2> QED
    BY <1>0, <1>5, <2>1, <2>3, <2>4, <2>5, <2>6
    DEF Admitted, Bounded, TypeOK, Table, stats, Places, Ends
<1>6. ASSUME NEW c \in Calls, Unfiltered(c) \/ ReadyMade(c) PROVE Bounded'
  <2>1. callPc' \in [Calls -> Places] /\ UNCHANGED <<window, sig>>
    BY <1>0, <1>6, MoveFacts DEF Unfiltered, ReadyMade, Places
  <2> QED
    BY <1>0, <1>6, <2>1, KeepsTable DEF Unfiltered, ReadyMade, history, stats
<1>7. ASSUME NEW c \in Calls, BeforeSendDrops(c) PROVE Bounded'
  <2>1. /\ callPc' \in [Calls -> Places] /\ result' \in [Calls -> Ends]
        /\ UNCHANGED <<window, sig>>
    BY <1>0, <1>7, MoveFacts, ReturnFacts DEF BeforeSendDrops, Places, Ends
  <2> QED
    BY <1>0, <1>7, <2>1, KeepsTable DEF BeforeSendDrops, history
<1>8. ASSUME NEW c \in Calls, Send(c) PROVE Bounded'
  <2>1. /\ callPc' \in [Calls -> Places] /\ result' \in [Calls -> Ends]
        /\ UNCHANGED <<window, sig>>
    BY <1>0, <1>8, MoveFacts, ReturnFacts DEF Send, Places, Ends
  <2> QED
    BY <1>0, <1>8, <2>1, KeepsTable DEF Send, history, stats
<1>9. CASE Tick
  BY <1>0, <1>9, KeepsTable, MaxTimeAssumption DEF Tick, history, stats
<1>10. CASE UNCHANGED vars
  BY <1>0, <1>10, KeepsTable DEF vars
<1> QED
  BY <1>1, <1>2, <1>3, <1>4, <1>5, <1>6, <1>7, <1>8, <1>9, <1>10
  DEF Next, Capturing, Terminated

-----------------------------------------------------------------------------
(* What the table and the calls that went through say of each other.        *)

\* At first nothing has been let through.
LEMMA InitFiltered == Init => Filtered
<1> SUFFICES ASSUME Init PROVE Filtered
  OBVIOUS
<1>1. \A c \in Calls : admittedIn[c] = -1 /\ repeats[c] = 0 /\ callPc[c] = "idle"
  BY DEF Init
<1>2. DOMAIN table = {}
  BY DEF Init, Empty
<1> QED
  BY <1>1, <1>2 DEF Filtered, Signed, Fresh, Past, Latest, OncePerWindow

\* A step after which the entries still tell of the same calls.
LEMMA KeepsFiltered ==
    ASSUME IInv, UNCHANGED <<window, sig, repeats, generation, admittedIn>>,
           DOMAIN table' = DOMAIN table,
           \A s \in DOMAIN table : table'[s].sentAt = table[s].sentAt,
           \A d \in Calls : /\ admittedIn[d] # -1 => time'[d] = time[d]
                            /\ callPc'[d] \in {"idle", "timed"} => callPc[d] \in {"idle", "timed"}
                            /\ callPc'[d] \in {"timed", "heldBack"} => sig[d] \in Signatures
    PROVE  Filtered'
<1> USE DEF IInv, Filtered
<1>1. Signed' /\ Fresh' /\ Past'
  BY DEF Signed, Fresh, Past
<1>2. \A d \in Calls : \A s \in DOMAIN table : Recent(d, s) => time'[d] = time[d]
  BY DEF Recent, Bounded, TypeOK
<1>3. \A d, s : Recent(d, s)' <=> Recent(d, s)
  BY DEF Recent
<1>4. Latest'
  BY <1>2, <1>3 DEF Latest
<1>5. OncePerWindow'
  BY DEF OncePerWindow, Bounded, TypeOK
<1> QED
  BY <1>1, <1>4, <1>5

\* A capture that is let through.
LEMMA AdmittedFiltered == ASSUME IInv, NEW c \in Calls, Admitted(c) PROVE Filtered'
<1> DEFINE s0 == sig[c]
<1>1. /\ callPc[c] = "timed" /\ callPc' \in [Calls -> Places] /\ callPc'[c] = "built"
      /\ \A d \in Calls \ {c} : callPc'[d] = callPc[d]
      /\ window' = window /\ sig' = sig
  BY MoveFacts DEF Admitted, IInv, Bounded, Places
<1>2. /\ s0 \in Signatures /\ time' = time /\ time \in [Calls -> Nat] /\ window >= 0
      /\ window \in Int /\ generation \in [Signatures -> Nat]
      /\ admittedIn \in [Calls -> Nat \cup {-1}] /\ repeats \in [Calls -> Nat]
  BY <1>1, WindowsAssumption DEF Admitted, IInv, Bounded, TypeOK, Filtered, Signed
<1>3. Table(table)
  BY DEF IInv, Bounded, TypeOK, Table
<1>4. /\ Table(table')
      /\ s0 \in DOMAIN table' /\ table'[s0].sentAt = time[c]
      /\ \A r \in DOMAIN table' \ {s0} : r \in DOMAIN table /\ table'[r] = table[r]
  <2>1. table' = LetThrough(table, s0, time[c], window)
    BY DEF Admitted
  <2>2. time[c] \in Nat /\ s0 \in Signatures
    BY <1>2
  <2> HIDE DEF s0
  <2>3. /\ Table(table')
        /\ s0 \in DOMAIN table' /\ table'[s0] = [sentAt |-> time[c], dropped |-> 0]
        /\ \A r \in DOMAIN table' \ {s0} : r \in DOMAIN table /\ table'[r] = table[r]
    BY <1>3, <2>1, <2>2, LetThroughFacts
  <2> QED
    BY <2>3
<1>5. \A s \in Signatures :
         generation'[s] = IF s \in DOMAIN table \ DOMAIN table' THEN generation[s] + 1
                          ELSE generation[s]
  BY <1>2 DEF Admitted, Forgets
<1>6. /\ admittedIn'[c] = generation[s0] /\ generation'[s0] = generation[s0]
      /\ \A d \in Calls \ {c} : admittedIn'[d] = admittedIn[d] /\ repeats'[d] = repeats[d]
      /\ admittedIn' \in [Calls -> Nat \cup {-1}]
  BY <1>2, <1>4, <1>5 DEF Admitted
<1>7. \A d \in Calls : admittedIn[d] # -1 => sig[d] \in Signatures
  BY DEF IInv, Filtered, Signed
<1>8. ASSUME NEW d \in Calls \ {c}, Recent(d, s0)
      PROVE  time[c] - time[d] >= window /\ time[d] <= time[c]
  <2>1. admittedIn[d] = generation[s0] /\ admittedIn[d] # -1 /\ sig[d] = s0
    BY <1>2, <1>8 DEF Recent
  <2>2. s0 \in DOMAIN table
    BY <1>2, <2>1 DEF IInv, Filtered, Past
  <2>3. time[d] <= table[s0].sentAt /\ table[s0].sentAt \in Nat
    BY <1>3, <1>8, <2>2 DEF IInv, Filtered, Latest, Table, Entry
  <2>4. time[c] - table[s0].sentAt >= window
    BY <1>2, <2>2, <2>3 DEF Admitted, Repeats
  <2> QED
    BY <1>2, <2>3, <2>4
<1>9. Signed'
  BY <1>1, <1>2, <1>6 DEF IInv, Filtered, Signed
<1>10. Fresh'
  BY <1>1, <1>6 DEF IInv, Filtered, Fresh
<1>11. Past'
  <2> SUFFICES ASSUME NEW d \in Calls, admittedIn'[d] # -1
               PROVE  /\ admittedIn'[d] <= generation'[sig[d]]
                      /\ sig[d] \notin DOMAIN table' => admittedIn'[d] < generation'[sig[d]]
    BY <1>1 DEF Past
  <2>1. CASE d = c
    BY <1>2, <1>4, <1>6, <2>1
  <2>2. CASE d # c
    <3>1. /\ sig[d] \in Signatures /\ admittedIn[d] <= generation[sig[d]]
          /\ sig[d] \notin DOMAIN table => admittedIn[d] < generation[sig[d]]
      BY <1>6, <1>7, <2>2 DEF IInv, Filtered, Past
    <3> QED
      BY <1>2, <1>5, <1>6, <2>2, <3>1
  <2> QED
    BY <2>1, <2>2
<1>12. ASSUME NEW d \in Calls \ {c}, NEW s \in Signatures, s \in DOMAIN table'
       PROVE  Recent(d, s)' <=> Recent(d, s)
  BY <1>1, <1>5, <1>6, <1>12 DEF Recent
<1>13. Latest'
  <2> SUFFICES ASSUME NEW s \in DOMAIN table'
               PROVE  /\ \E d \in Calls : Recent(d, s)' /\ time[d] = table'[s].sentAt
                      /\ \A d \in Calls : Recent(d, s)' => time[d] <= table'[s].sentAt
    BY <1>2 DEF Latest
  <2>1. s \in Signatures
    BY <1>4 DEF Table
  <2>2. CASE s = s0
    <3>1. Recent(c, s)'
      BY <1>1, <1>6, <2>2 DEF Recent
    <3>2. ASSUME NEW d \in Calls, Recent(d, s)' PROVE time[d] <= time[c]
      <4>1. CASE d = c
        BY <1>2, <4>1
      <4>2. CASE d # c
        BY <1>8, <1>12, <2>1, <2>2, <3>2, <4>2
      <4> QED
        BY <4>1, <4>2
    <3> QED
      BY <1>4, <2>2, <3>1, <3>2
  <2>3. CASE s # s0
    <3>1. s \in DOMAIN table /\ table'[s] = table[s]
      BY <1>4, <2>3
    <3>2. /\ \E d \in Calls : Recent(d, s) /\ time[d] = table[s].sentAt
          /\ \A d \in Calls : Recent(d, s) => time[d] <= table[s].sentAt
      BY <3>1 DEF IInv, Filtered, Latest
    <3>3. ~Recent(c, s) /\ ~Recent(c, s)'
      BY <1>1, <2>3 DEF Recent
    <3> QED
      BY <1>12, <2>1, <3>1, <3>2, <3>3
  <2> QED
    BY <2>2, <2>3
<1>14. OncePerWindow'
  <2> SUFFICES ASSUME NEW d \in Calls, NEW e \in Calls, d # e, sig[d] = sig[e],
                      admittedIn'[d] >= 0, admittedIn'[d] = admittedIn'[e]
               PROVE  time[d] - time[e] >= window \/ time[e] - time[d] >= window
    BY <1>1, <1>2 DEF OncePerWindow
  <2>1. CASE d # c /\ e # c
    BY <1>6, <2>1 DEF IInv, Filtered, OncePerWindow
  <2>2. CASE d = c
    BY <1>6, <1>8, <2>2 DEF Recent
  <2>3. CASE e = c
    BY <1>6, <1>8, <2>3 DEF Recent
  <2> QED
    BY <2>1, <2>2, <2>3
<1> QED
  BY <1>9, <1>10, <1>11, <1>13, <1>14 DEF Filtered

\* Every step keeps the entries true.
LEMMA StepFiltered == IInv /\ [Next]_vars => Filtered'
<1> SUFFICES ASSUME IInv, [Next]_vars PROVE Filtered'
  OBVIOUS
<1>0. /\ TypeOK /\ Table(table)
      /\ \A d \in Calls : callPc[d] \in {"timed", "heldBack"} => sig[d] \in Signatures
      /\ \A d \in Calls : admittedIn[d] # -1 => callPc[d] \notin {"idle", "timed"}
  BY DEF IInv, Bounded, TypeOK, Table, Filtered, Signed, Fresh
<1>1. ASSUME NEW c \in Calls, NEW from, NEW to \in Places \ {"idle", "timed", "heldBack"},
             CallMoves(c, from, to), UNCHANGED <<table, time, repeats, generation, admittedIn>>
      PROVE  Filtered'
  BY <1>0, <1>1, MoveFacts, KeepsFiltered
<1>2. ASSUME NEW c \in Calls, SampleOut(c) \/ CountDuplicate(c) \/ BeforeSendDrops(c) \/ Send(c)
      PROVE  Filtered'
  BY <1>1, <1>2 DEF SampleOut, CountDuplicate, BeforeSendDrops, Send, Returns, history, Places
<1>3. ASSUME NEW c \in Calls, Unfiltered(c) \/ ReadyMade(c) PROVE Filtered'
  BY <1>1, <1>3 DEF Unfiltered, ReadyMade, history, Places
<1>4. ASSUME NEW c \in Calls, ReadClock(c) PROVE Filtered'
  <2>1. /\ callPc[c] = "idle" /\ UNCHANGED <<window, sig>>
        /\ callPc'[c] = "timed" /\ \A d \in Calls \ {c} : callPc'[d] = callPc[d]
    BY <1>0, <1>4, MoveFacts DEF ReadClock, Places
  <2>2. /\ sig[c] \in Signatures /\ admittedIn[c] = -1
        /\ \A d \in Calls \ {c} : time'[d] = time[d]
    BY <1>0, <1>4, <2>1 DEF ReadClock, TypeOK
  <2> QED
    BY <1>0, <1>4, <2>1, <2>2, KeepsFiltered DEF ReadClock, history
<1>5. ASSUME NEW c \in Calls, HeldBack(c) PROVE Filtered'
  <2>1. /\ callPc[c] = "timed" /\ UNCHANGED <<window, sig>>
        /\ callPc'[c] = "heldBack" /\ \A d \in Calls \ {c} : callPc'[d] = callPc[d]
    BY <1>0, <1>5, MoveFacts DEF HeldBack, Places
  <2>2. DOMAIN table' = DOMAIN table /\ \A s \in DOMAIN table : table'[s].sentAt = table[s].sentAt
    BY <1>0, <1>5 DEF HeldBack, HoldBack, Repeats, Table, Entry
  <2> QED
    BY <1>0, <1>5, <2>1, <2>2, KeepsFiltered DEF HeldBack, history
<1>6. CASE Tick
  BY <1>0, <1>6, KeepsFiltered DEF Tick, history
<1>7. CASE UNCHANGED vars
  BY <1>0, <1>7, KeepsFiltered DEF vars
<1> QED
  BY <1>2, <1>3, <1>4, <1>5, <1>6, <1>7, AdmittedFiltered DEF Next, Capturing, Terminated

\* The two together are inductive.
LEMMA Inductive == Spec => []IInv
<1>1. Init => IInv
  BY InitBounded, InitFiltered DEF IInv
<1>2. IInv /\ [Next]_vars => IInv'
  BY StepBounded, StepFiltered DEF IInv
<1> QED
  BY <1>1, <1>2, PTL DEF Spec

\* Types, and the table's bound: whatever MaxEntries, the table holds no more.
THEOREM TypeCorrect == Spec => []TypeOK
<1>1. IInv => TypeOK
  BY DEF IInv, Bounded
<1> QED
  BY <1>1, Inductive, PTL

\* Two captures of one error that are let through are a window apart, or the table forgot
\* the first in between; however many captures run at once.
THEOREM LetThroughOnce == Spec => []OncePerWindow
<1>1. IInv => OncePerWindow
  BY DEF IInv, Filtered
<1> QED
  BY <1>1, Inductive, PTL

\* An error the table does not remember is not held back.
THEOREM NewErrorsPass == Spec => FirstCopyPasses
<1> DEFINE A == \A c \in Calls : ~Held(c) /\ Held(c)'
                 => \E d \in Calls : /\ sig[d] = sig[c] /\ admittedIn[d] = generation[sig[c]]
                                     /\ time[c] - time[d] < window
<1>1. IInv /\ [Next]_vars => [A]_vars
  <2> SUFFICES ASSUME IInv, Next PROVE A
    OBVIOUS
  <2>0. TypeOK /\ Table(table)
    BY DEF IInv, Bounded, TypeOK, Table
  <2>1. ASSUME NEW c \in Calls, ~Held(c), Held(c)'
        PROVE  \E d \in Calls : /\ sig[d] = sig[c] /\ admittedIn[d] = generation[sig[c]]
                                /\ time[c] - time[d] < window
    <3>1. HeldBack(c)
      <4>1. ASSUME NEW e \in Calls, NEW from, NEW to \in Places \ {"heldBack"},
                   CallMoves(e, from, to)
            PROVE  FALSE
        BY <2>0, <2>1, <4>1, MoveFacts DEF Held, Places
      <4>2. ASSUME NEW e \in Calls, HeldBack(e), e # c PROVE FALSE
        BY <2>0, <2>1, <4>2, MoveFacts DEF Held, HeldBack, Places
      <4>3. ~(Tick \/ Terminated)
        BY <2>1 DEF Held, Tick, Terminated, vars
      <4>4. ASSUME NEW e \in Calls,
                   SampleOut(e) \/ CountDuplicate(e) \/ BeforeSendDrops(e) \/ Send(e)
            PROVE  FALSE
        BY <4>1, <4>4 DEF SampleOut, CountDuplicate, BeforeSendDrops, Send, Returns, Places
      <4>5. ASSUME NEW e \in Calls, ReadClock(e) \/ Admitted(e) \/ Unfiltered(e) \/ ReadyMade(e)
            PROVE  FALSE
        BY <4>1, <4>5 DEF ReadClock, Admitted, Unfiltered, ReadyMade, Places
      <4> QED
        BY <4>2, <4>3, <4>4, <4>5 DEF Next, Capturing
    <3>2. sig[c] \in DOMAIN table /\ time[c] - table[sig[c]].sentAt < window
      BY <3>1 DEF HeldBack, Repeats
    <3>3. PICK d \in Calls : Recent(d, sig[c]) /\ time[d] = table[sig[c]].sentAt
      BY <3>2 DEF IInv, Filtered, Latest
    <3> QED
      BY <3>2, <3>3 DEF Recent
  <2> QED
    BY <2>1
<1> QED
  BY <1>1, Inductive, PTL DEF Spec, FirstCopyPasses

-----------------------------------------------------------------------------
(* Repeats.                                                                 *)

\* RepeatsAddUp without the types.
AddsUp == duplicates + Quantify(Calls, Held)
              = SumFunction(repeats) + SumFunctionOnSet(counted, Captured)
                                     + SumFunctionOnSet(forgotten, Captured)

HeldCalls == {c \in Calls : Held(c)}

\* The sums are over finite sets, and of naturals.
LEMMA SumFacts ==
    ASSUME Bounded
    PROVE  /\ IsFiniteSet(Captured) /\ Captured \subseteq Signatures
           /\ IsFiniteSet(HeldCalls) /\ Cardinality(HeldCalls) \in Nat
           /\ Quantify(Calls, Held) = Cardinality(HeldCalls)
           /\ SumFunction(repeats) = SumFunctionOnSet(repeats, Calls)
           /\ \A c \in Calls : repeats[c] \in Nat
           /\ \A s \in Signatures : forgotten[s] \in Nat /\ counted[s] \in Nat
           /\ SumFunction(repeats) \in Int
           /\ SumFunctionOnSet(counted, Captured) \in Int
           /\ SumFunctionOnSet(forgotten, Captured) \in Int
<1>1. Captured \subseteq Signatures
  BY DEF Captured, Bounded, TypeOK
<1>2. IsFiniteSet({sig[c] : c \in Calls})
  <2> DEFINE f == [c \in Calls |-> sig[c]]
  <2>1. f \in Surjection(Calls, {sig[c] : c \in Calls})
    BY DEF Surjection
  <2> QED
    BY <2>1, CallsAssumption, FS_Surjection
<1>3. IsFiniteSet(Captured)
  BY <1>2, FS_Subset DEF Captured
<1>4. IsFiniteSet(HeldCalls) /\ Cardinality(HeldCalls) \in Nat
  BY CallsAssumption, FS_Subset, FS_CardinalityType DEF HeldCalls
<1>5. Quantify(Calls, Held) = Cardinality(HeldCalls)
  BY DEF Quantify, HeldCalls
<1>6. SumFunction(repeats) = SumFunctionOnSet(repeats, Calls)
  BY DEF SumFunction, Bounded, TypeOK
<1>7. /\ \A c \in Calls : repeats[c] \in Nat
      /\ \A s \in Signatures : forgotten[s] \in Nat /\ counted[s] \in Nat
  BY DEF Bounded, TypeOK, counted, Dropped, Entry
<1>8. SumFunctionOnSet(repeats, Calls) \in Int
  BY <1>7, CallsAssumption, SumInt
<1>9. SumFunctionOnSet(counted, Captured) \in Int /\ SumFunctionOnSet(forgotten, Captured) \in Int
  BY <1>1, <1>3, <1>7, SumInt
<1> QED
  BY <1>1, <1>3, <1>4, <1>5, <1>6, <1>7, <1>8, <1>9

\* At first there is nothing to add up.
LEMMA InitAddsUp == Init => AddsUp
<1> SUFFICES ASSUME Init PROVE AddsUp
  OBVIOUS
<1>1. Bounded
  BY InitBounded
<1>2. HeldCalls = {} /\ duplicates = 0
  BY DEF Init, HeldCalls, Held
<1>3. \A c \in Calls : repeats[c] = 0
  BY DEF Init
<1>4. \A s \in Captured : counted[s] = 0 /\ forgotten[s] = 0
  BY <1>1, SumFacts DEF Init, counted, Dropped, Empty
<1>5. /\ SumFunctionOnSet(repeats, Calls) = 0
      /\ SumFunctionOnSet(counted, Captured) = 0 /\ SumFunctionOnSet(forgotten, Captured) = 0
  BY <1>1, <1>3, <1>4, CallsAssumption, SumFacts, SumZero
<1> QED
  BY <1>1, <1>2, <1>5, SumFacts, FS_EmptySet DEF AddsUp

\* A step that holds back, counts or lets through nothing.
LEMMA KeepsSums ==
    ASSUME AddsUp, UNCHANGED <<duplicates, table, sig, repeats, forgotten>>,
           HeldCalls' = HeldCalls, Bounded, Bounded'
    PROVE  AddsUp'
<1>1. Captured' = Captured /\ counted' = counted
  BY DEF Captured, counted
<1>2. Quantify(Calls, Held)' = Quantify(Calls, Held)
  BY DEF Quantify, HeldCalls
<1> QED
  BY <1>1, <1>2 DEF AddsUp

\* A capture that is held back counts in its entry and is one of those yet to be counted.
LEMMA HeldBackAddsUp ==
    ASSUME IInv, Bounded', AddsUp, NEW c \in Calls, HeldBack(c)
    PROVE  AddsUp'
<1>1. /\ callPc[c] = "timed" /\ callPc'[c] = "heldBack" /\ sig' = sig
      /\ \A d \in Calls \ {c} : callPc'[d] = callPc[d]
  BY MoveFacts DEF HeldBack, IInv, Bounded, Places
<1>2. UNCHANGED <<duplicates, repeats, forgotten>>
  BY DEF HeldBack, stats, history
<1>3. HeldCalls' = HeldCalls \cup {c} /\ c \notin HeldCalls
  BY <1>1 DEF HeldCalls, Held
<1>4. Cardinality(HeldCalls') = Cardinality(HeldCalls) + 1
  BY <1>3, SumFacts, FS_AddElement DEF IInv
<1> DEFINE s0 == sig[c]
<1>5. s0 \in Captured /\ s0 \in DOMAIN table /\ Captured' = Captured
  <2>1. s0 \in DOMAIN table /\ DOMAIN table \subseteq Signatures
    BY DEF HeldBack, Repeats, IInv, Bounded, TypeOK
  <2> QED
    BY <1>1, <2>1 DEF Captured
<1>6. /\ counted'[s0] = counted[s0] + 1
      /\ \A s \in Captured : counted'[s] \in Int /\ (s # s0 => counted'[s] = counted[s])
  <2>1. Table(table) /\ table' = HoldBack(table, s0)
    BY DEF HeldBack, IInv, Bounded, TypeOK, Table
  <2> HIDE DEF s0
  <2>2. /\ DOMAIN table' = DOMAIN table /\ table'[s0] = [table[s0] EXCEPT !.dropped = @ + 1]
        /\ \A r \in DOMAIN table \ {s0} : table'[r] = table[r]
        /\ Table(table')
    BY <1>5, <2>1, HoldBackFacts
  <2>3. Captured \subseteq Signatures
    BY DEF Captured
  <2>4. \A s \in Captured :
           /\ counted[s] = IF s \in DOMAIN table THEN table[s].dropped ELSE 0
           /\ counted'[s] = IF s \in DOMAIN table' THEN table'[s].dropped ELSE 0
    BY <2>3 DEF counted, Dropped
  <2>5. table[s0] \in Entry /\ table'[s0].dropped = table[s0].dropped + 1
    BY <1>5, <2>1, <2>2 DEF Table, Entry
  <2>6. \A s \in DOMAIN table' : table'[s].dropped \in Int
    BY <2>2 DEF Table, Entry
  <2>7. counted'[s0] = counted[s0] + 1
    BY <1>5, <2>2, <2>4, <2>5
  <2>8. \A s \in Captured : counted'[s] \in Int
    BY <2>4, <2>6
  <2>9. \A s \in Captured \ {s0} : counted'[s] = counted[s]
    BY <2>2, <2>4
  <2> QED
    BY <2>7, <2>8, <2>9
<1>7. SumFunctionOnSet(counted', Captured) = SumFunctionOnSet(counted, Captured) + 1
  <2>1. \A s \in Captured : counted[s] \in Int
    BY SumFacts DEF IInv
  <2>2. SumFunctionOnSet(counted', Captured)
           = SumFunctionOnSet(counted, Captured) - counted[s0] + counted'[s0]
    <3> HIDE DEF s0
    <3> QED
      BY <1>5, <1>6, <2>1, SumFacts, SumUpdate DEF IInv
  <2> QED
    BY <1>5, <1>6, <2>1, <2>2, SumFacts DEF IInv
<1>8. Quantify(Calls, Held)' = Quantify(Calls, Held) + 1
  BY <1>4, SumFacts DEF Quantify, HeldCalls, IInv
<1>9. duplicates \in Int
  BY DEF IInv, Bounded, TypeOK
<1> QED
  <2>1. /\ SumFunction(repeats)' = SumFunction(repeats)
        /\ SumFunctionOnSet(forgotten, Captured)' = SumFunctionOnSet(forgotten, Captured)
        /\ SumFunctionOnSet(counted, Captured)' = SumFunctionOnSet(counted, Captured) + 1
    BY <1>2, <1>5, <1>7
  <2> QED
    BY <1>2, <1>8, <1>9, <2>1, SumFacts DEF AddsUp, IInv

\* One that is counted is no longer.
LEMMA CountDuplicateAddsUp ==
    ASSUME IInv, Bounded', AddsUp, NEW c \in Calls, CountDuplicate(c)
    PROVE  AddsUp'
<1>1. CallMoves(c, "heldBack", "returned")
  BY DEF CountDuplicate, Returns
<1>2. /\ callPc[c] = "heldBack" /\ callPc'[c] = "returned" /\ sig' = sig
      /\ \A d \in Calls \ {c} : callPc'[d] = callPc[d]
  BY <1>1, MoveFacts DEF IInv, Bounded, Places
<1>3. HeldCalls' = HeldCalls \ {c} /\ c \in HeldCalls
  BY <1>2 DEF HeldCalls, Held
<1>4. Cardinality(HeldCalls') = Cardinality(HeldCalls) - 1
  BY <1>3, SumFacts, FS_RemoveElement DEF IInv
<1>5. Quantify(Calls, Held)' = Quantify(Calls, Held) - 1
  BY <1>4, SumFacts DEF Quantify, HeldCalls, IInv
<1>6. duplicates \in Int /\ duplicates' = duplicates + 1
  BY DEF CountDuplicate, IInv, Bounded, TypeOK
<1>7. /\ UNCHANGED <<table, repeats, forgotten>>
      /\ counted' = counted /\ Captured' = Captured
  BY <1>2 DEF CountDuplicate, history, counted, Captured
<1>8. Quantify(Calls, Held) \in Int
  BY SumFacts DEF IInv
<1> QED
  BY <1>5, <1>6, <1>7, <1>8 DEF AddsUp

\* What the event reports is what the table loses: the entries that make room go to
\* the forgotten ones.
LEMMA AdmittedAddsUp ==
    ASSUME IInv, Bounded', AddsUp, NEW c \in Calls, Admitted(c)
    PROVE  AddsUp'
<1> DEFINE s0 == sig[c]
           both == [s \in Signatures |-> counted[s] + forgotten[s]]
           bothNext == [s \in Signatures |-> counted'[s] + forgotten'[s]]
<1>1. /\ callPc[c] = "timed" /\ callPc'[c] = "built" /\ sig' = sig
      /\ \A d \in Calls \ {c} : callPc'[d] = callPc[d]
  BY MoveFacts DEF Admitted, IInv, Bounded, Places
<1>2. s0 \in Signatures /\ s0 \in Captured /\ Captured' = Captured
  BY <1>1 DEF IInv, Filtered, Signed, Captured
<1>3. HeldCalls' = HeldCalls /\ duplicates' = duplicates
  BY <1>1 DEF HeldCalls, Held, Admitted, stats
<1>4. Quantify(Calls, Held)' = Quantify(Calls, Held)
  BY <1>3 DEF Quantify, HeldCalls
<1>5. /\ \A d \in Calls : repeats[d] \in Nat /\ repeats[c] = 0
      /\ \A s \in Signatures : forgotten[s] \in Nat /\ counted[s] \in Nat
      /\ IsFiniteSet(Captured) /\ Captured \subseteq Signatures
  BY <1>1, SumFacts DEF IInv, Filtered, Fresh
<1>6. /\ repeats'[c] = counted[s0]
      /\ \A d \in Calls \ {c} : repeats'[d] = repeats[d]
      /\ repeats' \in [Calls -> Nat]
  BY <1>2 DEF Admitted, counted, IInv, Bounded, TypeOK
<1>7. SumFunction(repeats)' = SumFunction(repeats) + counted[s0]
  <2>1. SumFunctionOnSet(repeats', Calls)
           = SumFunctionOnSet(repeats, Calls) - repeats[c] + repeats'[c]
    <3>1. \A d \in Calls : repeats[d] \in Int /\ repeats'[d] \in Int
                          /\ (d # c => repeats'[d] = repeats[d])
      BY <1>5, <1>6
    <3> QED
      BY <3>1, CallsAssumption, SumUpdate
  <2>2. SumFunction(repeats)' = SumFunctionOnSet(repeats', Calls)
    BY <1>6 DEF SumFunction
  <2>3. SumFunctionOnSet(repeats, Calls) = SumFunction(repeats) /\ SumFunction(repeats) \in Int
    BY SumFacts DEF IInv
  <2> QED
    BY <1>2, <1>5, <1>6, <2>1, <2>2, <2>3
<1>8. /\ \A s \in Signatures : counted'[s] \in Nat /\ forgotten'[s] \in Nat
      /\ \A s \in Signatures \ {s0} : bothNext[s] = both[s]
      /\ bothNext[s0] = both[s0] - counted[s0]
  <2>1. Table(table) /\ time[c] \in Nat
    BY DEF IInv, Bounded, TypeOK, Table
  <2>2. /\ Table(table')
        /\ s0 \in DOMAIN table' /\ table'[s0] = [sentAt |-> time[c], dropped |-> 0]
        /\ \A r \in DOMAIN table' \ {s0} : r \in DOMAIN table /\ table'[r] = table[r]
    <3>1. table' = LetThrough(table, s0, time[c], window)
      BY DEF Admitted
    <3> HIDE DEF s0
    <3> QED
      BY <1>2, <2>1, <3>1, LetThroughFacts
  <2>3. \A s \in Signatures :
           /\ counted[s] = IF s \in DOMAIN table THEN table[s].dropped ELSE 0
           /\ counted'[s] = IF s \in DOMAIN table' THEN table'[s].dropped ELSE 0
    BY DEF counted, Dropped
  <2>4. \A s \in Signatures :
           forgotten'[s] = forgotten[s] + (IF s \in DOMAIN table \ DOMAIN table'
                                           THEN table[s].dropped ELSE 0)
    BY DEF Admitted, Forgets
  <2>5. /\ \A s \in DOMAIN table : table[s].dropped \in Nat
        /\ \A s \in DOMAIN table' : table'[s].dropped \in Nat
    BY <2>1, <2>2 DEF Table, Entry
  <2>6. \A s \in Signatures : counted'[s] \in Nat /\ forgotten'[s] \in Nat
    BY <1>5, <2>3, <2>4, <2>5
  <2>7. counted'[s0] = 0 /\ forgotten'[s0] = forgotten[s0]
    BY <1>2, <1>5, <2>2, <2>3, <2>4
  <2>8. \A s \in Signatures \ {s0} : counted'[s] + forgotten'[s] = counted[s] + forgotten[s]
    BY <1>5, <2>2, <2>3, <2>4, <2>5
  <2> QED
    BY <1>2, <1>5, <2>6, <2>7, <2>8
<1>9. SumFunctionOnSet(bothNext, Captured) = SumFunctionOnSet(both, Captured) - counted[s0]
  <2>1. \A s \in Captured : /\ both[s] \in Int /\ bothNext[s] \in Int
                            /\ s # s0 => bothNext[s] = both[s]
    BY <1>5, <1>8
  <2>2. both[s0] \in Int /\ counted[s0] \in Int /\ bothNext[s0] = both[s0] - counted[s0]
    BY <1>2, <1>5, <1>8
  <2>3. SumFunctionOnSet(both, Captured) \in Int
    <3> HIDE DEF both
    <3> QED
      BY <1>5, <2>1, SumInt
  <2>4. SumFunctionOnSet(bothNext, Captured)
           = SumFunctionOnSet(both, Captured) - both[s0] + bothNext[s0]
    <3> HIDE DEF both, bothNext, s0
    <3> QED
      BY <1>2, <1>5, <2>1, SumUpdate
  <2> HIDE DEF both, bothNext, s0
  <2> QED
    BY <2>2, <2>3, <2>4
<1>10. SumFunctionOnSet(both, Captured)
          = SumFunctionOnSet(counted, Captured) + SumFunctionOnSet(forgotten, Captured)
  <2>1. \A s \in Captured : /\ counted[s] \in Int /\ forgotten[s] \in Int
                           /\ both[s] = counted[s] + forgotten[s]
    BY <1>5
  <2> HIDE DEF both
  <2> QED
    BY <1>5, <2>1, SumPlus
<1>11. SumFunctionOnSet(bothNext, Captured)
          = SumFunctionOnSet(counted', Captured) + SumFunctionOnSet(forgotten', Captured)
  <2>1. \A s \in Captured : /\ counted'[s] \in Int /\ forgotten'[s] \in Int
                           /\ bothNext[s] = counted'[s] + forgotten'[s]
    BY <1>5, <1>8
  <2> HIDE DEF bothNext
  <2> QED
    BY <1>5, <2>1, SumPlus
<1>12. /\ counted[s0] \in Int /\ duplicates \in Int /\ Quantify(Calls, Held) \in Int
       /\ SumFunction(repeats) \in Int
       /\ SumFunctionOnSet(counted, Captured) \in Int
       /\ SumFunctionOnSet(forgotten, Captured) \in Int
  BY <1>2, SumFacts DEF IInv, Bounded, TypeOK
<1>13. /\ SumFunctionOnSet(counted', Captured) \in Int
       /\ SumFunctionOnSet(forgotten', Captured) \in Int
  <2>1. \A s \in Captured : counted'[s] \in Int /\ forgotten'[s] \in Int
    BY <1>5, <1>8
  <2> QED
    BY <1>5, <2>1, SumInt
<1> HIDE DEF s0, both, bothNext
<1>14. duplicates' + Quantify(Calls, Held)'
          = SumFunction(repeats)' + SumFunctionOnSet(counted', Captured)
                                  + SumFunctionOnSet(forgotten', Captured)
  BY <1>3, <1>4, <1>7, <1>9, <1>10, <1>11, <1>12, <1>13 DEF AddsUp
<1> QED
  BY <1>2, <1>14 DEF AddsUp

\* Every step keeps the sums equal.
LEMMA StepAddsUp == IInv /\ Bounded' /\ AddsUp /\ [Next]_vars => AddsUp'
<1> SUFFICES ASSUME IInv, Bounded', AddsUp, [Next]_vars PROVE AddsUp'
  OBVIOUS
<1>0. TypeOK /\ Bounded
  BY DEF IInv, Bounded
<1>1. ASSUME NEW c \in Calls, NEW from \in Places \ {"heldBack"}, NEW to \in Places \ {"heldBack"},
             CallMoves(c, from, to), UNCHANGED <<duplicates, table, repeats, forgotten>>
      PROVE  AddsUp'
  <2>1. HeldCalls' = HeldCalls /\ sig' = sig
    BY <1>0, <1>1, MoveFacts DEF HeldCalls, Held
  <2> QED
    BY <1>0, <1>1, <2>1, KeepsSums
<1>2. ASSUME NEW c \in Calls, SampleOut(c) \/ BeforeSendDrops(c) \/ Send(c)
      PROVE  AddsUp'
  BY <1>1, <1>2 DEF SampleOut, BeforeSendDrops, Send, Returns, history, stats, Places
<1>3. ASSUME NEW c \in Calls, ReadClock(c) \/ Unfiltered(c) \/ ReadyMade(c) PROVE AddsUp'
  BY <1>1, <1>3 DEF ReadClock, Unfiltered, ReadyMade, history, stats, Places
<1>4. CASE Tick \/ UNCHANGED vars
  <2>1. HeldCalls' = HeldCalls /\ UNCHANGED <<duplicates, table, sig, repeats, forgotten>>
    BY <1>4 DEF Tick, vars, stats, history, HeldCalls, Held
  <2> QED
    BY <1>0, <2>1, KeepsSums
<1> QED
  BY <1>2, <1>3, <1>4, HeldBackAddsUp, CountDuplicateAddsUp, AdmittedAddsUp
  DEF Next, Capturing, Terminated

\* No repeat is lost: each is in an event's count, in the table, or among those forgotten
\* when room was made; for any number of errors, captures and entries.
THEOREM NoRepeatIsLost == Spec => []RepeatsAddUp
<1>1. Init => AddsUp
  BY InitAddsUp
<1>2. IInv /\ IInv' /\ AddsUp /\ [Next]_vars => AddsUp'
  BY StepAddsUp DEF IInv
<1>3. IInv /\ AddsUp => RepeatsAddUp
  BY DEF IInv, Bounded, AddsUp, RepeatsAddUp
<1> QED
  BY <1>1, <1>2, <1>3, Inductive, PTL DEF Spec
=============================================================================
