------------------------------ MODULE MCSignIn ------------------------------
(***************************************************************************)
(* An instance of SignIn.  What happens together is kept small by          *)
(* scenarios: one is chosen at the start, and says what may be called, what *)
(* a client may ask and what else may happen.                              *)
(***************************************************************************)
EXTENDS SignIn, Naturals, TLC

CONSTANTS b1, alice, bob, carol, s1, email, profile

VARIABLE scenario

MCRows == Begins \cup AllSessions \cup People \cup {"client"}

Interchangeable == Permutations(SignIns) \cup Permutations(Answers)

Prompt(f, s, c) == [fresh |-> f, silent |-> s, consent |-> c]
Plain == Prompt(FALSE, FALSE, FALSE)
MCPrompts == {Plain, Prompt(TRUE, FALSE, FALSE), Prompt(FALSE, TRUE, FALSE),
              Prompt(FALSE, FALSE, TRUE)}

\* Carol owes a second factor; alice has a session, and allowed one scope.
MCHolds == [p \in People |-> IF p = carol THEN {"code", "key"} ELSE {}]
MCSessions == (s1 :> alice)
MCKept == [p \in People |-> IF p = alice THEN {email} ELSE None]
MCScopes == {{email}, {email, profile}}
MCAsks == [c \in Begins |-> IF c = b1
            THEN [scopes : MCScopes, proof : MCPrompts, hint : {None, alice}]
            ELSE [scopes : {{email}}, proof : {Plain}, hint : {None, carol}]]
MCClients == {[enabled |-> TRUE, requires |-> r] : r \in BOOLEAN}

Scenarios == [
  \* Two forms of one page and two answers to its consent, sent together.
  submitted |-> [requires |-> TRUE, begins |-> 1, forms |-> 2, answers |-> 2,
                 people |-> {alice, bob},
                 prompts |-> {Plain}, scopes |-> {{email}}, tickets |-> {None},
                 meanwhile |-> {"expire", "end"}],
  \* Two forms on the pages of two requests, one hinted at carol or not.
  proven |-> [requires |-> FALSE, begins |-> 2, forms |-> 2, answers |-> 0,
              people |-> {alice, carol},
              prompts |-> {Plain}, scopes |-> {{email}}, tickets |-> {None},
              meanwhile |-> {}],
  \* A request with every prompt, with the session of alice or without.
  prompted |-> [requires |-> TRUE, begins |-> 1, forms |-> 1, answers |-> 1,
                people |-> {alice, bob},
                prompts |-> MCPrompts, scopes |-> MCScopes, tickets |-> {None, s1},
                meanwhile |-> {"withdraw", "change"}]]

Served(C) == Cardinality({c \in C : pc'[c] # "idle"})

\* What just happened beside the calls.
Happened ==
  {h \in {"expire", "end", "withdraw", "change"} :
     CASE h = "expire" -> expired' # expired
       [] h = "end" -> \E s \in AllSessions : com'[s] # com[s]
       [] h = "withdraw" -> \E p \in People : com'[p] # com[p]
       [] h = "change" -> com'["client"] # com["client"]}

Within ==
  LET s == Scenarios[scenario] IN
  /\ pc'[b1] # "idle" \/ Served(Begins) = 0
  /\ Served(Begins) <= s.begins /\ Served(SignIns) <= s.forms /\ Served(Answers) <= s.answers
  /\ \A c \in Begins : pc[c] = "idle" /\ pc'[c] # "idle" =>
       /\ mine'[c].proof \in s.prompts /\ mine'[c].scopes \in s.scopes
       /\ mine'[c].ticket \in s.tickets
  /\ \A c \in SignIns : mine'[c].person \in s.people \cup {None}
  /\ \A c \in Answers : mine'[c].ticket \in s.tickets \cup SignIns
  /\ com'[s1] = com[s1] \/ s1 \in s.tickets
  /\ pc' = pc => Happened \subseteq s.meanwhile

MCInit ==
  /\ Init /\ scenario \in {x \in DOMAIN Scenarios : Scenarios[x].requires = com["client"].requires}

MCSpec == MCInit /\ [][Next /\ Within /\ UNCHANGED scenario]_<<vars, scenario>>
=============================================================================
