---------------------------- MODULE MCBreadcrumbs ----------------------------
(***************************************************************************)
(* Breadcrumbs on small instances: the ones the wrapper of a SQL driver    *)
(* leaves (SqlBreadcrumbs), and what an event finds of a flow's in its     *)
(* scopes (Scope).  A behaviour is about one of the two, and the other     *)
(* stays as it was at first.                                               *)
(***************************************************************************)
EXTENDS MCSqlBreadcrumbs, Scope, TLC

VARIABLE subject

\* Scopes are interchangeable, and so are breadcrumbs.
Symmetry == Permutations(Scopes) \cup Permutations(Crumbs)

\* The setting that stands still while the scopes are looked at.
AnyOne == CHOOSE s \in Settings : TRUE

BreadcrumbsInit ==
    /\ subject \in {"sql", "event"}
    /\ Init /\ (subject = "event" => setting = AnyOne)
    /\ ScopeInit

\* There is nothing left to say of an event that is built.
EventBuilt == Finished /\ UNCHANGED <<vars, eventVars>>

BreadcrumbsNext ==
    /\ UNCHANGED subject
    /\ \/ subject = "sql"   /\ Next      /\ UNCHANGED eventVars
       \/ subject = "event" /\ ScopeNext /\ UNCHANGED vars
       \/ subject = "event" /\ EventBuilt

BreadcrumbsSpec == BreadcrumbsInit /\ [][BreadcrumbsNext]_<<subject, vars, eventVars>>
=============================================================================
