---------------------------- MODULE OwnerSessions ----------------------------
(***************************************************************************)
(* Who may use the workspace (workspace/security.py, cli.py, api/app.py):  *)
(* each start of the process hands out one link; whoever opens it first    *)
(* gets a session, which lives as long as the process.                     *)
(*                                                                         *)
(* The link of a start is the start's number.  The nonce that replaces a   *)
(* consumed one is told to nobody, so that no link has it.                 *)
(***************************************************************************)
EXTENDS Naturals, FiniteSets, Sequences

CONSTANTS Tabs, MaxStarts      \* bound: starts of the process

ASSUME SessionsAssumption == IsFiniteSet(Tabs) /\ MaxStarts \in Nat \ {0}

VARIABLES
  scenario,   \* what the owner does: "overview", "inputs" or "progress"
  browser,    \* [Tabs -> browser]: tabs of one browser share its cookie
  start,      \* the number of the running process
  nonce,      \* of the process: its link's, or one nobody was told
  sessions,   \* of the process: <<start, browser that opened the link>>
  cookie      \* [browser -> session], the last one that it was given

sessionVars == <<scenario, browser, start, nonce, sessions, cookie>>

Secret == 0
NoSession == <<0, 0>>
Browsers == {browser[t] : t \in Tabs}

\* A second tab belongs to the same browser or to another.
SessionsInit(scenarios) ==
  /\ scenario \in scenarios
  /\ browser \in IF scenario = "overview"
                   THEN {f \in [Tabs -> Tabs] : \A t \in Tabs : f[t] <= t} ELSE {[t \in Tabs |-> 1]}
  /\ start = 1 /\ nonce = 1
  /\ sessions = {}
  /\ cookie = [b \in {browser[t] : t \in Tabs} |-> NoSession]

\* _require_session
Authenticated(t) == cookie[browser[t]] \in sessions

\* consume_bootstrap_nonce: the session is added, and the nonce replaced.
SlipRotated == nonce       \* the link stays good
Rotated == Secret

OpenLink(t, link) ==
  /\ link = nonce
  /\ sessions' = sessions \cup {<<start, browser[t]>>}
  /\ cookie' = [cookie EXCEPT ![browser[t]] = <<start, browser[t]>>]
  /\ nonce' = Rotated
  /\ UNCHANGED <<scenario, browser, start>>

\* Sessions and nonce are in memory alone.
NextStart ==
  /\ start < MaxStarts
  /\ start' = start + 1
  /\ nonce' = start + 1
  /\ sessions' = {}
  /\ UNCHANGED <<scenario, browser, cookie>>

\* A start lets in one browser, and no session outlives its process.
OneOwner == Cardinality(sessions) <= 1 /\ \A s \in sessions : s[1] = start
=============================================================================
