------------------------------ MODULE MCHealth -------------------------------
(***************************************************************************)
(* What is said of the application's health, on small instances: the guard *)
(* around one request or job (Requests), and the aggregator that counts    *)
(* the sessions of many (Sessions).  A behaviour is about one of the two,  *)
(* and the other stays as it was at first.                                 *)
(***************************************************************************)
EXTENDS Sessions, Requests

VARIABLE subject

\* The options of the guard that stands still while the aggregator is looked at.
AnyOptions == CHOOSE o \in Options :
                 ~o.repanic /\ ~o.captureErrors /\ ~o.onPanic /\ o.errorCodes = {}

HealthInit ==
    /\ subject \in {"request", "counts"}
    /\ Init /\ (subject = "request" => \A r \in Requests : status[r] = "ok")
    /\ GuardInit /\ (subject = "counts" => kind = "net/http" /\ options = AnyOptions)

HealthNext ==
    /\ UNCHANGED subject
    /\ \/ subject = "request" /\ GuardNext /\ UNCHANGED vars
       \/ subject = "counts"  /\ Next      /\ UNCHANGED guardVars

\* The aggregator's fairness; what is said of a guard is safety.
HealthSpec == /\ HealthInit /\ [][HealthNext]_<<subject, vars, guardVars>>
              /\ subject = "counts" => Fairness
=============================================================================
