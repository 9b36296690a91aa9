-------------------------- MODULE MCAdministration --------------------------
(***************************************************************************)
(* An instance of Administration.  What happens together is kept small by  *)
(* scenarios: one is chosen at the start, and says what may be asked, in   *)
(* which realms, and what an operator changes.                             *)
(***************************************************************************)
EXTENDS Administration, TLC

CONSTANTS ra, rb

VARIABLE scenario

\* A call is an identifier: the calls are alike.
MCCalls == Permutations(Calls)

MCNameOf == (ra :> "acme") @@ (rb :> "globex")

\* The clients asked for: one that may create others, one that asks for what
\* its maker may not hold, an application, and one that would hold a capability.
MCService(i, caps) == [id |-> i, scopes |-> {"admin"}, capabilities |-> caps,
                       app |-> FALSE, public |-> FALSE, people |-> FALSE]
MCApplication(caps) == [id |-> "b", scopes |-> {"admin"}, capabilities |-> caps,
                        app |-> TRUE, public |-> TRUE, people |-> TRUE]
MCApplications == {MCApplication({}), MCApplication({"client:write"})}
MCWanted == {MCService("a", {"client:write"}), MCService("b", {"client:write", "user:write"})}
              \union MCApplications
MCRoots == {{"client:write"}, {"client:write", "user:write"}}

\* What is asked, how often, in which realms, for which clients, what an
\* operator changes, where, and what the realms were founded with.
Scenarios == [
  \* Realms are provisioned under names that are taken or raced for, and their
  \* first clients ask for tokens.
  provisioned |-> [kinds |-> {"provision", "grant"}, calls |-> 3, names |-> {"globex", "initech"},
                   clients |-> {Root}, wanted |-> {}, hands |-> {"realm"}, on |-> "initech",
                   roots |-> {{"client:write"}}],
  \* Clients of one realm create others, and are taken their capabilities.
  delegated |-> [kinds |-> {"grant", "admin"}, calls |-> 3, names |-> {"acme"},
                 clients |-> Ids, wanted |-> MCWanted, hands |-> {"capability"}, on |-> "acme",
                 roots |-> MCRoots],
  \* Calls of two realms, while everything is taken away in one of them.
  admitted |-> [kinds |-> {"admin"}, calls |-> 2, names |-> {"acme", "globex"}, clients |-> {},
                wanted |-> MCApplications \union {None}, hands |-> {"realm", "client", "capability"},
                on |-> "acme", roots |-> {{"client:write", "user:write"}}]]

\* What an operator just changed in realm r.
Changed(r) ==
  IF call' # call \/ kept'[r] = kept[r] THEN {}
  ELSE IF kept'[r].enabled # kept[r].enabled THEN {"realm"}
  ELSE IF \E i \in Ids : /\ kept[r].clients[i] # None
                          /\ kept'[r].clients[i].enabled # kept[r].clients[i].enabled
  THEN {"client"} ELSE {"capability"}

Within ==
  LET s == Scenarios[scenario] IN
  /\ Cardinality({c \in Calls : call'[c].step # "idle"}) <= s.calls
  /\ \A c \in Calls : call[c].step = "idle" /\ call'[c].step # "idle" =>
       /\ call'[c].kind \in s.kinds /\ call'[c].name \in s.names
       /\ call'[c].kind = "admin" => call'[c].wanted \in s.wanted /\ call'[c].required = "client:write"
       /\ call'[c].kind = "provision" => call'[c].asked \in s.roots \union {None}
       /\ call'[c].kind = "grant" => call'[c].asked # {} /\ call'[c].client \in s.clients
  /\ \A r \in Realms : Changed(r) # {} => Changed(r) \subseteq s.hands /\ kept[r].name = s.on

MCInit ==
  /\ Init
  /\ scenario \in {x \in DOMAIN Scenarios : \A r \in Founded :
       kept[r].root \in Scenarios[x].roots /\ (x = "delegated" /\ r = rb => kept[r].root = {"client:write"})}

MCSpec == MCInit /\ [][Next /\ Within /\ UNCHANGED scenario]_<<vars, scenario>>
=============================================================================
