-------------------------- MODULE WorkspaceRegistry --------------------------
(***************************************************************************)
(* The registry of workspaces (storage.py), its requests (api/app.py) and  *)
(* the overview page (apps/workspace/src/app.tsx).                         *)
(*                                                                         *)
(* The handlers are coroutines that await nothing: the event loop runs     *)
(* each of them to its end before the next.  The process can die between   *)
(* two of their writes, and a write can fail.                              *)
(***************************************************************************)
EXTENDS OwnerSessions

CONSTANT Workspaces     \* identifiers, in the order of their creation: 1..n

VARIABLES
  registry,    \* registry.json
  record,      \* [Workspaces -> name or NoName]: workspace.json
  creating,    \* [Tabs -> the create request of the page]
  listing,     \* [Tabs -> its list request]
  overview,      \* [Tabs -> the overview's list, and what it created since it was opened]
  told,        \* workspaces that an owner was told are there (history)
  failures     \* writes that failed

registryVars == <<registry, record, creating, listing, overview, told, failures>>

NoName == "none"
NoRequest == [pc |-> "idle"]
NoPage == [status |-> "closed", list |-> {}, made |-> {}]

RegistryInit ==
  /\ registry = {}          \* initialize() has written it
  /\ record = [w \in Workspaces |-> NoName]
  /\ creating = [t \in Tabs |-> NoRequest]
  /\ listing = [t \in Tabs |-> NoRequest]
  /\ overview = [t \in Tabs |-> NoPage]
  /\ told = {}
  /\ failures = 0

\* No other request is at its place on the event loop.
SlipLoopFree == TRUE       \* as if the handlers ran in the thread pool
LoopFree == \A t \in Tabs : creating[t].pc \notin {"record", "registry"}

Fresh == {w \in Workspaces : record[w] = NoName /\ \A t \in Tabs : creating[t].pc \in {"record", "registry"} =>
                                                      creating[t].id # w}

-----------------------------------------------------------------------------
(* The page: the list that was asked for and the workspaces it creates *)

\* The page is opened, or loaded anew, in a tab that is let in; answers to its old self are lost.
OpenPage(t) ==
  /\ Authenticated(t)
  /\ creating[t].pc \notin {"record", "registry"} /\ listing[t].pc = "idle"
  /\ overview[t].status \in {"closed", "error"}
  /\ overview' = [overview EXCEPT ![t] = [status |-> "loading", list |-> {}, made |-> {}]]
  /\ listing' = [listing EXCEPT ![t] = [pc |-> "sent"]]
  /\ creating' = [creating EXCEPT ![t] = NoRequest]
  /\ UNCHANGED <<sessionVars, registry, record, told, failures>>

\* list_workspaces: every registered workspace is loaded; one that cannot be fails them all.
ServeList(t) ==
  /\ listing[t].pc = "sent" /\ LoopFree
  /\ listing' = [listing EXCEPT ![t] =
       [pc |-> "answered", list |-> registry,
        ok |-> Authenticated(t) /\ \A w \in registry : record[w] # NoName]]
  /\ UNCHANGED <<sessionVars, registry, record, creating, overview, told, failures>>

\* WORKSPACES_LOADED keeps what was created meanwhile; WORKSPACES_ERROR keeps nothing.  An entry
\* says where it came from, since one workspace can have two; their order is left out.
Entries(S, from) == S \X {from}
SlipMerged(list, loaded) == Entries(loaded, "listed")     \* the older list replaces what was created
Merged(list, loaded) == Entries(loaded, "listed") \cup {entry \in list : entry[1] \notin loaded}

ListArrives(t) ==
  /\ listing[t].pc = "answered"
  /\ overview' = [overview EXCEPT ![t] =
       IF listing[t].ok
         THEN [status |-> "loaded", list |-> Merged(@.list, listing[t].list), made |-> @.made]
         ELSE [status |-> "error", list |-> {}, made |-> {}]]
  /\ listing' = [listing EXCEPT ![t] = NoRequest]
  /\ UNCHANGED <<sessionVars, registry, record, creating, told, failures>>

-----------------------------------------------------------------------------
(* Creation: workspace.json first, then the registry with what it held before *)

BeginCreate(t) ==
  /\ overview[t].status # "closed" /\ creating[t].pc = "idle"
  /\ LoopFree
  /\ IF Authenticated(t)
       THEN \E w \in Fresh : /\ \A v \in Fresh : w <= v
                             /\ creating' = [creating EXCEPT ![t] =
                                  [pc |-> "record", id |-> w, known |-> registry]]
       ELSE creating' = [creating EXCEPT ![t] = [pc |-> "answered", ok |-> FALSE]]
  /\ UNCHANGED <<sessionVars, registry, record, listing, overview, told, failures>>

WriteRecord(t) ==
  /\ creating[t].pc = "record"
  /\ record' = [record EXCEPT ![creating[t].id] = "first"]
  /\ creating' = [creating EXCEPT ![t].pc = "registry"]
  /\ UNCHANGED <<sessionVars, registry, listing, overview, told, failures>>

SlipRegistered(known, w) == {w}      \* the others are forgotten
Registered(known, w) == known \cup {w}

WriteRegistry(t) ==
  /\ creating[t].pc = "registry"
  /\ registry' = Registered(creating[t].known, creating[t].id)
  /\ told' = told \cup {creating[t].id}
  /\ creating' = [creating EXCEPT ![t] = [pc |-> "answered", ok |-> TRUE, id |-> creating[t].id]]
  /\ UNCHANGED <<sessionVars, record, listing, overview, failures>>

\* What was written before stays: a workspace without a place in the registry.
WriteFails(t) ==
  /\ creating[t].pc \in {"record", "registry"}
  /\ failures = 0
  /\ failures' = 1
  /\ creating' = [creating EXCEPT ![t] = [pc |-> "answered", ok |-> FALSE]]
  /\ UNCHANGED <<sessionVars, registry, record, listing, overview, told>>

\* CREATE_SUCCESS appends to a list that was loaded, and begins one otherwise.
CreateArrives(t) ==
  /\ creating[t].pc = "answered"
  /\ overview' = IF ~creating[t].ok THEN overview
             ELSE [overview EXCEPT ![t] =
                    [status |-> "loaded", made |-> @.made \cup {creating[t].id},
                     list |-> (IF @.status = "loaded" THEN @.list ELSE {})
                               \cup Entries({creating[t].id}, "created")]]
  /\ creating' = [creating EXCEPT ![t] = NoRequest]
  /\ UNCHANGED <<sessionVars, registry, record, listing, told, failures>>

\* rename_workspace: of a registered workspace, and only its workspace.json.
Rename(t) ==
  /\ Authenticated(t) /\ LoopFree
  /\ \E w \in registry :
       /\ record[w] = "first"
       /\ record' = [record EXCEPT ![w] = "second"]
  /\ UNCHANGED <<sessionVars, registry, creating, listing, overview, told, failures>>

\* The process dies, and another one starts; requests under way end with an error.
RegistryDies ==
  /\ NextStart
  /\ creating' = [t \in Tabs |->
       CASE creating[t].pc \in {"record", "registry"} -> [pc |-> "answered", ok |-> FALSE]
         [] OTHER -> creating[t]]
  /\ listing' = [t \in Tabs |->
       IF listing[t].pc = "sent" THEN [pc |-> "answered", list |-> {}, ok |-> FALSE] ELSE listing[t]]
  /\ UNCHANGED <<registry, record, overview, told, failures>>

ManageWorkspaces ==
  \E t \in Tabs :
    \/ OpenPage(t) \/ ServeList(t) \/ ListArrives(t)
    \/ BeginCreate(t) \/ WriteRecord(t) \/ WriteRegistry(t) \/ WriteFails(t) \/ CreateArrives(t)
    \/ Rename(t)

-----------------------------------------------------------------------------
\* What an owner was told exists stays registered, and all that is registered can be loaded; a
\* page that shows a list shows every workspace that it has created.
WorkspacesStay ==
  /\ told \subseteq registry
  /\ \A w \in registry : record[w] # NoName
  /\ \A t \in Tabs : overview[t].status = "loaded" =>
       overview[t].made \subseteq {entry[1] : entry \in overview[t].list}
=============================================================================
