----------------------------- MODULE LogRecords ------------------------------
(***************************************************************************)
(* The slog handler (src/log-handler.go): handlers derived from each other *)
(* with attributes and groups, and what becomes of a record: an event, a   *)
(* breadcrumb, a line of the wrapped handler.  A key is the sequence of    *)
(* its dotted parts, so <<>> is the empty one and joinKey concatenates.    *)
(***************************************************************************)
EXTENDS Integers, SequencesExt

CONSTANTS
    Attrs,      \* [key, inner, value]: the attributes given, and those inside them;
                \* value "group" for a group
    ErrorValues,\* the values that are errors
    Names,      \* of groups
    Levels,     \* the levels of records, thresholds among them
    MaxDerived  \* handlers derived one from the other

VARIABLES
    settings,   \* [event, crumb, next : the lowest level of each, enabled : the client is]
    attrs,      \* of the handler, already prefixed
    group,
    opened,     \* the groups the application opened, in order
    given,      \* [within, attr]: the attributes it gave, and the groups then open
    wrapped,    \* what the wrapped handler holds: its groups, and what it was given in them
    report      \* what became of the record; [done |-> FALSE] before

vars == <<settings, attrs, group, opened, given, wrapped, report>>

\* A level no record has: of a handler that wraps none.
Never == 1000

Init == /\ settings \in [event : Levels, crumb : Levels, next : Levels \cup {Never},
                        enabled : BOOLEAN]
        /\ attrs = <<>> /\ group = <<>> /\ opened = <<>> /\ given = <<>>
        /\ wrapped = [opened |-> <<>>, given |-> <<>>]
        /\ report = [done |-> FALSE]

-----------------------------------------------------------------------------
joinKey(prefix, key) == prefix \o key

prefixAttrs(prefix, list) ==
    [i \in DOMAIN list |-> [list[i] EXCEPT !.key = joinKey(prefix, @)]]

\* What one attribute adds: pairs of a key and a value.  A group adds what is in it,
\* an attribute without a key nothing.
Pair(prefix, attr) ==
    IF attr.key = <<>> THEN <<>> ELSE << <<joinKey(prefix, attr.key), attr.value>> >>

Pairs[prefix \in Seq(STRING), inner \in Seq(Attrs)] ==
    FlattenSeq([i \in DOMAIN inner |->
        IF inner[i].value = "group" THEN Pairs[joinKey(prefix, inner[i].key), inner[i].inner]
        ELSE Pair(prefix, inner[i])])
flattenGroup(prefix, inner) == Pairs[prefix, inner]

flattenAttr(prefix, attr) ==
    IF attr.value = "group" THEN flattenGroup(joinKey(prefix, attr.key), attr.inner)
    ELSE Pair(prefix, attr)

\* A later attribute takes the place of an earlier one of the same key.
Fields(pairs) == FoldLeft(LAMBDA map, p : (p[1] :> p[2]) @@ map, <<>>, pairs)

fields(record) ==
    Fields(FlattenSeq([i \in DOMAIN attrs |-> flattenAttr(<<>>, attrs[i])])
           \o flattenAttr(group, record))

\* Slips: only the wrapped handler is asked; a group forgets the one it is in.
Enabled_OnlyNext(level) == level >= settings.next
WithGroup_Replaces(name) ==
    /\ group' = <<name>>
    /\ opened' = Append(opened, name)
    /\ wrapped' = [wrapped EXCEPT !.opened = IF settings.next = Never THEN @ ELSE Append(@, name)]
    /\ UNCHANGED <<settings, attrs, given, report>>

Enabled(level) == level >= settings.crumb \/ level >= settings.event \/ level >= settings.next

-----------------------------------------------------------------------------
\* Either hands the same on to the wrapped handler, which has its own groups.
WithGroup(name) ==
    /\ group' = joinKey(group, <<name>>)
    /\ opened' = Append(opened, name)
    /\ wrapped' = [wrapped EXCEPT !.opened = IF settings.next = Never THEN @ ELSE Append(@, name)]
    /\ UNCHANGED <<settings, attrs, given, report>>

WithAttrs(attr) ==
    /\ attrs' = attrs \o prefixAttrs(group, <<attr>>)
    /\ given' = Append(given, [within |-> opened, attr |-> attr])
    /\ wrapped' = [wrapped EXCEPT !.given =
                      IF settings.next = Never THEN @
                      ELSE Append(@, [within |-> wrapped.opened, attr |-> attr])]
    /\ UNCHANGED <<settings, group, opened, report>>

\* Map order: which of several errors names the event is any of them.
EventTypes(map) ==
    LET found == {map[k] : k \in DOMAIN map} \cap ErrorValues
    IN  IF found = {} THEN {"log"} ELSE found

\* slog's Logger asks Enabled, then Handle does all of it.  newEvent has no event for a
\* record that the duplicate filter holds back.
Log(level, attr) ==
    /\ ~report.done
    /\ \E sampled, heldBack \in BOOLEAN, type \in EventTypes(fields(attr)) :
          LET handled == Enabled(level)
              event   == level >= settings.event
          IN  report' = [done   |-> TRUE, level |-> level, attr |-> attr,
                         wanted |-> sampled /\ ~heldBack,
                         type   |-> type, fields |-> fields(attr),
                         event  |-> handled /\ settings.enabled /\ event
                                    /\ sampled /\ ~heldBack,
                         crumb  |-> handled /\ settings.enabled /\ ~event
                                    /\ level >= settings.crumb,
                         next   |-> handled /\ level >= settings.next]
    /\ UNCHANGED <<settings, attrs, group, opened, given, wrapped>>

Next == /\ ~report.done
        /\ \/ /\ Len(given) + Len(opened) < MaxDerived
              /\ \/ \E name \in Names : WithGroup(name)
                 \/ \E attr \in Attrs : WithAttrs(attr)
           \/ \E level \in Levels, attr \in Attrs : Log(level, attr)

-----------------------------------------------------------------------------
\* What an attribute given to a handler should come to: what it would in a record;
\* but a value without a key, which records leave out, goes by the group's name.
Expected(prefix, attr) ==
    IF attr.key = <<>> /\ attr.value # "group" /\ prefix # <<>>
    THEN << <<prefix, attr.value>> >>
    ELSE flattenAttr(prefix, attr)

\* What a record tells does not depend on when its attributes were given: those of
\* the handlers it went through are found under the groups that were open when
\* they were added, as if the record had brought them all; later ones win
\* (WithAttrs, WithGroup, fields; log-handler.go:93-166).
FieldsAsGiven ==
    report.done =>
        report.fields = Fields(FlattenSeq([i \in DOMAIN given |->
                                   Expected(given[i].within, given[i].attr)])
                               \o flattenAttr(opened, report.attr))

\* Reporting and writing do not get in each other's way (Enabled, Handle;
\* log-handler.go:56-90): the wrapped handler sees exactly the records of its own
\* level, with the attributes and groups the application gave; whatever that level is, a
\* record is an event or a breadcrumb, never both, and an event unless it was not sampled
\* or is held back; an event takes its type from one of its errors if it has any.
RecordReachesEveryone ==
    report.done =>
        /\ report.next = (report.level >= settings.next)
        /\ settings.next # Never => wrapped = [opened |-> opened, given |-> given]
        /\ ~(report.event /\ report.crumb)
        /\ settings.enabled /\ report.wanted /\ report.level >= settings.event => report.event
        /\ settings.enabled /\ report.level >= settings.crumb
              => report.crumb \/ report.level >= settings.event
        /\ report.event => (report.type = "log")
              = ({report.fields[k] : k \in DOMAIN report.fields} \cap ErrorValues = {})

LogTellsAll == FieldsAsGiven /\ RecordReachesEveryone
=============================================================================
