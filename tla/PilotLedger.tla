----------------------------- MODULE PilotLedger ------------------------------
(***************************************************************************)
(* The request ledger of the remote pilot (scripts/run_phase5a_pilot.py):  *)
(* what its preflight, its resumed runs and its consistency sessions write *)
(* down of the requests that they send.  Each session is a process of its  *)
(* own; what it sends is known to nobody else until its artifact or its    *)
(* report is written, last.  How an example is asked is PilotExecution's.  *)
(***************************************************************************)
EXTENDS Naturals, FiniteSets

CONSTANTS
  PilotIds,       \* the frozen examples
  RepairLimit,    \* a preflight is refused from here on (300)
  MaxSent         \* bound: no session begins after as many requests

ASSUME LedgerAssumption == IsFiniteSet(PilotIds) /\ RepairLimit \in Nat /\ MaxSent \in Nat

VARIABLES
  artifact,   \* the preflight's: whether it is there and ready, and the requests it tells
  ledger,     \* the report's status, population and numbers
  outcomes,   \* the state file: each example's last outcome
  repeats,    \* the two state files of the consistency sessions
  asking,     \* the session
  sent,       \* the requests sent so far (history)
  unbooked    \* those of sessions that died, and of preflights since the report (history)

ledgerVars == <<artifact, ledger, outcomes, repeats, asking, sent, unbooked>>

NoAsking   == [mode |-> "idle"]
NoOutcomes == [i \in PilotIds |-> "NONE"]
NoLedger   == [written |-> FALSE]

LedgerInit ==
  /\ artifact = [written |-> FALSE, ready |-> FALSE, repair |-> 0]
  /\ ledger = NoLedger
  /\ outcomes = NoOutcomes
  /\ repeats = [r \in 1..2 |-> NoOutcomes]
  /\ asking = NoAsking
  /\ sent = 0
  /\ unbooked = 0

Idle == asking = NoAsking /\ sent <= MaxSent
Pending(file) == {i \in PilotIds : file[i] # "SUCCESS"}

-----------------------------------------------------------------------------
(* The preflight: two synthetic requests, added to those of earlier ones *)

BeginPreflight ==
  /\ Idle
  /\ artifact.repair < RepairLimit
  /\ asking' = [mode |-> "preflight", used |-> 2]
  /\ sent' = sent + 2
  /\ UNCHANGED <<artifact, ledger, outcomes, repeats, unbooked>>

SlipRepair(used) == used    \* earlier preflights are forgotten
Repair(used) == artifact.repair + used

EndPreflight ==
  /\ asking.mode = "preflight"
  /\ \E ready \in BOOLEAN :
       artifact' = [written |-> TRUE, ready |-> ready, repair |-> Repair(asking.used)]
  /\ unbooked' = IF ledger.written THEN unbooked + asking.used ELSE unbooked
  /\ asking' = NoAsking
  /\ UNCHANGED <<ledger, outcomes, repeats, sent>>

-----------------------------------------------------------------------------
(* A run: every example without a success is asked once more.  It takes its *)
(* numbers from the last report, or from the preflight where there is none. *)

BeginRun ==
  /\ Idle
  /\ artifact.ready
  /\ LET base     == IF ledger.written THEN ledger.base ELSE artifact.repair
         lifetime == IF ledger.written THEN ledger.external ELSE base
     IN  /\ lifetime >= base            \* else INVALID_RESUME_REQUEST_LEDGER
         /\ asking' = [mode |-> "run", todo |-> Pending(outcomes), used |-> 0, limited |-> FALSE,
                       base |-> base, lifetime |-> lifetime,
                       resumed |-> IF ledger.written THEN ledger.resumed ELSE lifetime - base]
  /\ UNCHANGED <<artifact, ledger, outcomes, repeats, sent, unbooked>>

\* The smallest example that is left is asked, by one request or, after a rate limit, by two.
First(i) == \A j \in asking.todo : i <= j
Ask(i, cost) ==
  /\ First(i)
  /\ asking' = [asking EXCEPT !.todo = @ \ {i}, !.used = @ + cost, !.limited = @ \/ cost > 1]
  /\ sent' = sent + cost

AskPrimary ==
  /\ asking.mode = "run"
  /\ \E i \in asking.todo, outcome \in {"SUCCESS", "FAILED"}, cost \in 1..2 :
       Ask(i, cost) /\ outcomes' = [outcomes EXCEPT ![i] = outcome]
  /\ UNCHANGED <<artifact, ledger, repeats, unbooked>>

\* A quota that is used up, or rate limits in a row, end the session with its report.
StopRun ==
  /\ asking.mode = "run"
  /\ \E i \in asking.todo :
       /\ First(i)
       /\ outcomes' = [outcomes EXCEPT ![i] = "FAILED"]
  /\ asking' = [asking EXCEPT !.todo = {}, !.used = @ + 1, !.limited = TRUE]
  /\ sent' = sent + 1
  /\ UNCHANGED <<artifact, ledger, repeats, unbooked>>

SlipExternal(session) == session.base + session.used     \* the first run's base again
External(session) == session.lifetime + session.used

ReportRun ==
  /\ asking.mode = "run"
  /\ asking.todo = {}
  /\ LET complete == Pending(outcomes) = {}
     IN  ledger' = [written |-> TRUE, complete |-> complete, pressure |-> asking.limited,
                    external |-> External(asking), base |-> asking.base,
                    resumed |-> asking.resumed + asking.used,
                    repair |-> (IF ledger.written THEN ledger.repair ELSE artifact.repair)
                                 + asking.used,
                    consistency |-> IF complete THEN "NOT_RUN" ELSE "NOT_RUN_PRIMARY_INCOMPLETE"]
  /\ asking' = NoAsking
  /\ UNCHANGED <<artifact, outcomes, repeats, sent, unbooked>>

-----------------------------------------------------------------------------
(* Consistency: two more requests an example, each of which may fail, once  *)
(* the primary run is complete and its last session met no rate limit.      *)

Deferred ==
  IF ~ledger.complete THEN "PRIMARY_INCOMPLETE"
  ELSE IF ledger.pressure THEN "RATE_LIMIT_PRESSURE" ELSE "none"

BeginConsistency ==
  /\ Idle
  /\ ledger.written
  /\ IF Deferred # "none"
       THEN /\ ledger' = [ledger EXCEPT !.consistency = Deferred]
            /\ UNCHANGED asking
       ELSE /\ asking' = [mode |-> "repeat", round |-> 1, todo |-> Pending(repeats[1]), used |-> 0,
                          limited |-> FALSE]
            /\ UNCHANGED ledger
  /\ UNCHANGED <<artifact, outcomes, repeats, sent, unbooked>>

AskAgain ==
  /\ asking.mode = "repeat"
  /\ \E i \in asking.todo, outcome \in {"SUCCESS", "FAILED"} :
       /\ Ask(i, 1)
       /\ repeats' = [repeats EXCEPT ![asking.round][i] = outcome]
  /\ UNCHANGED <<artifact, ledger, outcomes, unbooked>>

NextRound ==
  /\ asking.mode = "repeat"
  /\ asking.todo = {}
  /\ asking.round = 1
  /\ asking' = [asking EXCEPT !.round = 2, !.todo = Pending(repeats[2])]
  /\ UNCHANGED <<artifact, ledger, outcomes, repeats, sent, unbooked>>

\* Repeats that fail do not keep the session from being called complete.
ReportConsistency ==
  /\ asking.mode = "repeat"
  /\ asking.todo = {}
  /\ asking.round = 2
  /\ ledger' = [ledger EXCEPT !.consistency = "COMPLETE", !.external = @ + asking.used,
                              !.repair = @ + asking.used]
  /\ asking' = NoAsking
  /\ UNCHANGED <<artifact, outcomes, repeats, sent, unbooked>>

\* The request that a rate limit ended counts in the ledger, though not as a repair.
StopConsistency ==
  /\ asking.mode = "repeat"
  /\ \E i \in asking.todo :
       /\ First(i)
       /\ repeats' = [repeats EXCEPT ![asking.round][i] = "FAILED"]
  /\ ledger' = [ledger EXCEPT !.consistency = "RATE_LIMIT_PRESSURE",
                              !.external = @ + asking.used + 1]
  /\ sent' = sent + 1
  /\ asking' = NoAsking
  /\ UNCHANGED <<artifact, outcomes, unbooked>>

-----------------------------------------------------------------------------
\* A session that dies, or that an exception ends, writes nothing of what it sent.
DieAsking ==
  /\ asking # NoAsking
  /\ unbooked' = unbooked + asking.used
  /\ asking' = NoAsking
  /\ UNCHANGED <<artifact, ledger, outcomes, repeats, sent>>

Pilot ==
  \/ BeginPreflight \/ EndPreflight
  \/ BeginRun \/ AskPrimary \/ StopRun \/ ReportRun
  \/ BeginConsistency \/ AskAgain \/ NextRound \/ ReportConsistency \/ StopConsistency
  \/ DieAsking

LedgerSpec == LedgerInit /\ [][Pilot]_ledgerVars

\* Between sessions the report's ledger is what was sent, but for what nobody booked; a report
\* is complete only over the successes that the state file still holds, and consistency only
\* over examples that were all repeated twice.
LedgerTellsRequests ==
  /\ asking = NoAsking => sent = unbooked + (IF ledger.written THEN ledger.external
                                             ELSE artifact.repair)
  /\ ledger.written =>
       /\ ledger.base + ledger.resumed <= ledger.external
       /\ ledger.complete => Pending(outcomes) = {}
       /\ ledger.consistency = "COMPLETE" =>
            /\ ledger.complete
            /\ \A r \in 1..2, i \in PilotIds : repeats[r][i] # "NONE"
=============================================================================
