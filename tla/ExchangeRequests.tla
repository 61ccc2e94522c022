--------------------------- MODULE ExchangeRequests ---------------------------
(***************************************************************************)
(* What asks an exchange over REST: AccountManager, RestClient for one     *)
(* call, and OrderReports for one order.  They share nothing, so a         *)
(* behaviour is one of any of them, with the others at rest.               *)
(***************************************************************************)
EXTENDS AccountManager

CONSTANTS
  MaxRetries, Window, MaxTime, \* of RestClient
  Reporting, Size              \* exchanges and order size of OrderReports

VARIABLES
  part,
  now, begun, step, tries, network, done, reply, result, late,
  exchange, order, wire, known

restVars == <<now, begun, step, tries, network, done, reply, result, late>>
reportVars == <<exchange, order, wire, known>>

Rest == INSTANCE RestClient WITH answer <- result
Reports == INSTANCE OrderReports WITH Exchanges <- Reporting

ASSUME RestAssumption == Rest!RestClientAssumption
ASSUME ReportsAssumption == Reports!OrderReportsAssumption

all == <<part, vars, restVars, reportVars>>

InitPart ==
  /\ part \in {"account", "rest", "reports"}
  /\ Init /\ Rest!Init /\ Reports!Init
  /\ part # "reports" => exchange = "bybit" /\ order.status = "new"

NextPart ==
  /\ UNCHANGED part
  /\ \/ part = "account" /\ Next /\ UNCHANGED <<restVars, reportVars>>
     \/ part = "rest" /\ Rest!Next /\ UNCHANGED <<vars, reportVars>>
     \/ part = "reports" /\ Reports!Next /\ UNCHANGED <<vars, restVars>>

AnyPart == InitPart /\ [][NextPart]_all

(* Nothing that is fair of a part is enabled while it is at rest. *)
PolledPart == AnyPart /\ Fairness /\ PolledFairness /\ Reports!Fairness

(* What the modules state, here. *)
AllTypesOK == TypeOK /\ Rest!TypeOK /\ Reports!TypeOK
AnswersAreTrue == Rest!AnswersAreTrue
StaleOnlyWhenLate == Rest!StaleOnlyWhenLate
NothingEndsEarly == Reports!NothingEndsEarly
EndIsLearnt == Reports!EndIsLearnt
=============================================================================
