------------------------------- MODULE Scope ---------------------------------
(***************************************************************************)
(* The scopes of src/scope.go: the client's global one, one per request,   *)
(* and one per goroutine a request starts, each inheriting from the one it *)
(* was made from while both go on changing.  An event collects breadcrumbs,*)
(* tags and the user from a chain of scopes whose locks are taken one      *)
(* after another.  A step is one critical section of one scope.            *)
(*                                                                         *)
(* A tag and a user are told apart by the scope they were set on: whether  *)
(* a scope has one is all that is kept.  Every scope keeps the same number *)
(* of breadcrumbs, as child passes the limit on.                           *)
(***************************************************************************)
EXTENDS Integers, Sequences, FiniteSets, SequencesExt

CONSTANTS
    Scopes,     \* the scopes made from others
    Global,     \* the client's own scope
    None,       \* no parent, no user, no tag
    Settable,   \* the scopes the application sets the tag and the user on
    Crumbs,     \* the breadcrumbs, each added by a goroutine of its own
    Limit,      \* how many a scope keeps
    MaxTime     \* the clock stops here

ASSUME ScopesAssumption == /\ IsFiniteSet(Scopes) /\ Global \notin Scopes
                           /\ None \notin Scopes \cup {Global}
ASSUME SettableAssumption == Settable \subseteq Scopes \cup {Global}
ASSUME LimitAssumption  == Limit \in Nat \ {0} /\ MaxTime \in Nat

AllScopes == Scopes \cup {Global}

VARIABLES
    now,        \* time.Now()
    parent,     \* of each scope that was made; None for the others and Global
    trail,      \* the breadcrumbs of each scope, in the order they were added
    hasTag,     \* the scopes with the tag
    hasUser,    \* the scopes with a user
    crumbPc,    \* where each AddBreadcrumb stands
    scopeOf,    \* the scope it adds to
    at,         \* the time of each breadcrumb
    capture,    \* the event being built: where its capture stands, for which
                \*   scope, what is still to be read and what was collected
    early       \* history: what the capture has to respect

scopeVars   == <<parent, trail, hasTag, hasUser>>
crumbVars   == <<crumbPc, scopeOf, at>>
captureVars == <<capture, early>>
eventVars   == <<now, parent, trail, hasTag, hasUser, crumbPc, scopeOf, at, capture, early>>

live == {Global} \cup {s \in Scopes : parent[s] # None}

\* The scopes an event of s reads, s first.
Chain(s) == LET up[n \in 0..Cardinality(Scopes)] ==
                    IF n = 0 THEN <<s>>
                    ELSE LET last == up[n - 1][Len(up[n - 1])]
                         IN  IF last = Global THEN up[n - 1]
                             ELSE Append(up[n - 1], parent[last])
            IN  up[Cardinality(Scopes)]

NoCapture == [pc |-> "idle", scope |-> Global, left |-> <<>>, lists |-> <<>>,
              tag |-> None, user |-> None]
Nothing   == [crumbs |-> {}, tag |-> FALSE, user |-> FALSE]

ScopeInit ==
    /\ now = 0
    /\ parent = [s \in AllScopes |-> None]
    /\ trail = [s \in AllScopes |-> <<>>]
    /\ hasTag = {} /\ hasUser = {}
    /\ crumbPc = [c \in Crumbs |-> "idle"]
    /\ scopeOf = [c \in Crumbs |-> Global] /\ at = [c \in Crumbs |-> 0]
    /\ capture = NoCapture /\ early = Nothing

-----------------------------------------------------------------------------
(* Slips, each of which takes the place of the definition it is named after. *)

\* A child inherits the steps of the global scope.
Inherited_Global(chain) == chain

\* The oldest step stays when there is no room.
Trim_Never(list) == list

\* A scope with steps of its own does not look at the inherited ones.
Merge_OwnOnly(own, inherited) == IF own # <<>> THEN own ELSE inherited

\* The user of the outermost scope wins, as if users were merged like tags.
ReadUser_Outermost ==
    /\ capture.pc = "user" /\ capture.left # <<>>
    /\ capture' = [capture EXCEPT !.left = Tail(@),
                      !.user = IF Head(capture.left) \in hasUser THEN Head(capture.left)
                               ELSE @]
    /\ UNCHANGED <<now, scopeVars, crumbVars, early>>

-----------------------------------------------------------------------------
(* The operations on a scope.                                               *)

\* ContextWithScope and child: from the scope the context carries or the global one.
ContextWithScope(s) ==
    /\ s \in Scopes \ live
    /\ \E from \in live : parent' = [parent EXCEPT ![s] = from]
    /\ UNCHANGED <<now, trail, hasTag, hasUser, crumbVars, captureVars>>

\* AddBreadcrumb reads the clock first ...
ReadClock(c) ==
    /\ crumbPc[c] = "idle"
    /\ crumbPc' = [crumbPc EXCEPT ![c] = "timed"]
    /\ \E s \in live : scopeOf' = [scopeOf EXCEPT ![c] = s]
    /\ at' = [at EXCEPT ![c] = now]
    /\ UNCHANGED <<now, scopeVars, captureVars>>

Trim(list) == IF Len(list) > Limit THEN SubSeq(list, Len(list) - Limit + 1, Len(list))
              ELSE list

\* ... and takes the lock then.
AddBreadcrumb(c) ==
    /\ crumbPc[c] = "timed"
    /\ crumbPc' = [crumbPc EXCEPT ![c] = "added"]
    /\ trail' = [trail EXCEPT ![scopeOf[c]] = Trim(Append(@, c))]
    /\ UNCHANGED <<now, parent, hasTag, hasUser, scopeOf, at, captureVars>>

SetTag(s) ==
    /\ s \in live \cap Settable /\ hasTag' = hasTag \cup {s}
    /\ UNCHANGED <<now, parent, trail, hasUser, crumbVars, captureVars>>

SetUser(s) ==
    /\ s \in live \cap Settable /\ hasUser' = hasUser \cup {s}
    /\ UNCHANGED <<now, parent, trail, hasTag, crumbVars, captureVars>>

Clear(s) ==
    /\ s \in live
    /\ trail' = [trail EXCEPT ![s] = <<>>]
    /\ hasTag' = hasTag \ {s} /\ hasUser' = hasUser \ {s}
    /\ early' = IF s = capture.scope
                THEN [early EXCEPT !.tag = FALSE, !.user = FALSE] ELSE early
    /\ UNCHANGED <<now, parent, crumbVars, capture>>

-----------------------------------------------------------------------------
(* newEvent: breadcrumbs from the scope outwards, tags from the outermost    *)
(* inwards, the user from the scope outwards.                                *)

\* The global scope, the last of every chain, has its steps for its own events only.
Inherited(chain) == IF Len(chain) = 1 THEN chain ELSE Front(chain)

Steps(s) == {c \in Crumbs : \E i \in DOMAIN trail[s] : trail[s][i] = c}

BeginCapture(s) ==
    /\ capture.pc = "idle" /\ s \in live
    /\ capture' = [NoCapture EXCEPT !.pc = "breadcrumbs", !.scope = s,
                                    !.left = Inherited(Chain(s))]
    /\ early' = [crumbs |-> UNION {Steps(r) : r \in Range(Chain(s))},
                 tag |-> s \in hasTag, user |-> s \in hasUser]
    /\ UNCHANGED <<now, scopeVars, crumbVars>>

\* A copy of one scope's steps, the last one added first.
ReadBreadcrumbs ==
    /\ capture.pc = "breadcrumbs" /\ capture.left # <<>>
    /\ capture' = [capture EXCEPT !.left = Tail(@),
                      !.lists = Append(@, Reverse(trail[Head(capture.left)]))]
    /\ UNCHANGED <<now, scopeVars, crumbVars, early>>

\* sort.SliceStable by time, the newest first.
NewestFirst(list) ==
    LET before(i, j) == at[list[i]] > at[list[j]] \/ (at[list[i]] = at[list[j]] /\ i < j)
        order == CHOOSE p \in Bijection(DOMAIN list, DOMAIN list) :
                     \A i, j \in DOMAIN list : i < j => before(p[i], p[j])
    IN  [i \in DOMAIN list |-> list[order[i]]]

\* Nothing inherited: the scope's own steps as they are.
Merge(own, inherited) ==
    IF inherited = <<>> THEN own
    ELSE LET merged == NewestFirst(own \o inherited)
         IN  SubSeq(merged, 1, IF Len(merged) > Limit THEN Limit ELSE Len(merged))

\* The tags are read next: the parent's before the scope's own.
MergeBreadcrumbs ==
    /\ capture.pc = "breadcrumbs" /\ capture.left = <<>>
    /\ capture' = [capture EXCEPT !.pc = "tags", !.left = Reverse(Chain(capture.scope)),
                      !.lists = <<FoldRight(Merge, capture.lists, <<>>)>>]
    /\ UNCHANGED <<now, scopeVars, crumbVars, early>>

\* tags: a scope's own value replaces the inherited one.
ReadTags ==
    /\ capture.pc = "tags" /\ capture.left # <<>>
    /\ capture' = [capture EXCEPT !.left = Tail(@),
                      !.tag = IF Head(capture.left) \in hasTag THEN Head(capture.left) ELSE @]
    /\ UNCHANGED <<now, scopeVars, crumbVars, early>>

BeginUser ==
    /\ capture.pc = "tags" /\ capture.left = <<>>
    /\ capture' = [capture EXCEPT !.pc = "user", !.left = Chain(capture.scope)]
    /\ UNCHANGED <<now, scopeVars, crumbVars, early>>

\* user: the first one met.
ReadUser ==
    /\ capture.pc = "user" /\ capture.left # <<>>
    /\ capture' = IF Head(capture.left) \in hasUser
                  THEN [capture EXCEPT !.left = <<>>, !.user = Head(capture.left)]
                  ELSE [capture EXCEPT !.left = Tail(@)]
    /\ UNCHANGED <<now, scopeVars, crumbVars, early>>

EndCapture ==
    /\ capture.pc = "user" /\ capture.left = <<>>
    /\ capture' = [capture EXCEPT !.pc = "done"]
    /\ UNCHANGED <<now, scopeVars, crumbVars, early>>

Capturing == ReadBreadcrumbs \/ MergeBreadcrumbs \/ ReadTags \/ BeginUser \/ ReadUser
             \/ EndCapture

Tick == /\ now < MaxTime
        /\ now' = now + 1
        /\ UNCHANGED <<scopeVars, crumbVars, captureVars>>

\* One event is followed; what happens once it is built says nothing about it.
Finished == capture.pc = "done"

ScopeNext == /\ ~Finished
             /\ \/ \E s \in AllScopes : \/ ContextWithScope(s) \/ Clear(s)
                                        \/ SetTag(s) \/ SetUser(s) \/ BeginCapture(s)
                \/ \E c \in Crumbs : ReadClock(c) \/ AddBreadcrumb(c)
                \/ Capturing
                \/ Tick

ScopeSpec == ScopeInit /\ [][ScopeNext]_eventVars

-----------------------------------------------------------------------------
(* What holds.                                                              *)

ScopeTypeOK ==
    /\ now \in 0..MaxTime
    /\ parent \in [AllScopes -> AllScopes \cup {None}] /\ parent[Global] = None
    /\ \A s \in AllScopes : trail[s] \in Seq(Crumbs) /\ Len(trail[s]) <= Limit
    /\ hasTag \subseteq live /\ hasUser \subseteq live
    /\ crumbPc \in [Crumbs -> {"idle", "timed", "added"}]
    /\ scopeOf \in [Crumbs -> live] /\ at \in [Crumbs -> 0..MaxTime]
    /\ capture.pc \in {"idle", "breadcrumbs", "tags", "user", "done"}
    /\ capture.scope \in live
    /\ {capture.tag, capture.user} \subseteq AllScopes \cup {None}

Event == [crumbs |-> IF Finished THEN capture.lists[1] ELSE <<>>,
          tag |-> capture.tag, user |-> capture.user]

\* Concurrent requests see neither each other's user nor each other's steps: what
\* an event carries comes from the chain of its scope, and the steps of the
\* global scope are in its own events only.
NothingLeaks ==
    Finished =>
        LET chain == Range(Chain(capture.scope))
        IN  /\ {Event.tag, Event.user} \subseteq chain \cup {None}
            /\ \A c \in Range(Event.crumbs) :
                  scopeOf[c] \in chain /\ (scopeOf[c] = Global => capture.scope = Global)

\* A tag and a user that are set on the scope before the capture and not cleared
\* meanwhile are the event's, whatever happens on the scopes it inherits from.
OwnContextWins ==
    Finished => /\ early.tag => Event.tag = capture.scope
                /\ early.user => Event.user = capture.scope

\* What an event says of its flow: nothing of another one, and all that its own
\* scope says.
FlowIsItsOwn == NothingLeaks /\ OwnContextWins

\* A step that was there before the capture and still is afterwards is in the event,
\* unless the event is full of steps that are no older, wherever on the chain they
\* were added; no step is in it twice.
StepsAreKept ==
    /\ ScopeTypeOK
    /\ Finished =>
          /\ \A s \in Range(Inherited(Chain(capture.scope))) :
                \A c \in (early.crumbs \cap Steps(s)) \ Range(Event.crumbs) :
                   /\ Len(Event.crumbs) = Limit
                   /\ \A d \in Range(Event.crumbs) : at[d] >= at[c]
          /\ IsInjective(Event.crumbs) /\ Len(Event.crumbs) <= Limit
=============================================================================
