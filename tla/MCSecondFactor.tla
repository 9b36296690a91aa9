--------------------------- MODULE MCSecondFactor ---------------------------
(***************************************************************************)
(* An instance of SecondFactor.  What happens together is kept small by    *)
(* scenarios: one is chosen at the start, with what the person holds, and  *)
(* says who calls what.                                                    *)
(***************************************************************************)
EXTENDS SecondFactor, TLC

CONSTANTS r1, r2, r3, r4, r5, k1, k2, s1, s2

VARIABLE scenario

MCRows == {"totp", "attempts", "started"} \cup Keys \cup Sessions \cup Requests

Holding(enrolled, keys, proven) == [enrolled |-> enrolled, keys |-> keys, proven |-> proven]

\* What the person holds, what each request calls, and which counters the keys
\* answer with.
Scenarios == [
  \* Codes typed together, and a key or an administrator beside them.
  codes |-> [start |-> Holding(TRUE, {k1}, {}), counters |-> {0},
             calls |-> (r1 :> {"code"}) @@ (r2 :> {"code"}) @@ (r3 :> {"code"}) @@
                       (r4 :> {"key", "resume_codes"}) @@ (r5 :> {})],
  \* An application taken away and set up anew while codes are typed, the first
  \* of them a step ahead.
  replaced |-> [start |-> Holding(TRUE, {}, {s1}), counters |-> {},
                calls |-> (r1 :> {"code"}) @@ (r2 :> {"remove_totp"}) @@ (r3 :> {"begin_totp"}) @@
                          (r4 :> {"confirm_totp"}) @@ (r5 :> {"code"})],
  \* A key and its copy, and an administrator who takes the keys away.
  copied |-> [start |-> Holding(FALSE, {k1}, {}), counters |-> {0, 1, 2},
              calls |-> (r1 :> {"key"}) @@ (r2 :> {"key"}) @@ (r3 :> {"key"}) @@
                        (r4 :> {"remove_keys", "sign_in"}) @@ (r5 :> {})],
  \* A key taken away and set up again while it and its copy are answered with.
  again |-> [start |-> Holding(FALSE, {k1}, {s1}), counters |-> {1},
             calls |-> (r1 :> {"key"}) @@ (r2 :> {"key"}) @@ (r3 :> {"remove_keys"}) @@
                       (r4 :> {"begin_key"}) @@ (r5 :> {"finish_key"})],
  \* Two sessions of the password alone set up a factor each.
  enrollments |-> [start |-> Holding(FALSE, {}, {}), counters |-> {},
                   calls |-> (r1 :> {"begin_key"}) @@ (r2 :> {"finish_key"}) @@ (r3 :> {"finish_key"}) @@
                             (r4 :> {"begin_key", "begin_totp"}) @@ (r5 :> {"confirm_totp"})]]

MCStarts == {Scenarios[x].start : x \in DOMAIN Scenarios}
MCOperations == [r \in Requests |-> UNION {Scenarios[x].calls[r] : x \in DOMAIN Scenarios}]

Within ==
  LET s == Scenarios[scenario] IN
  \A r \in Requests : pc[r] # "idle" =>
    /\ mine[r].op \in s.calls[r]
    /\ mine[r].code # None => mine[r].code.step = IF scenario = "replaced" /\ r = r1 THEN 2 ELSE 1
    /\ mine[r].op = "code" =>
         mine[r].code.secret \in {Old, None} \cup {q \in Requests : "begin_totp" \in s.calls[q]}
    /\ mine[r].op = "key" => mine[r].key = k1 /\ mine[r].counter \in s.counters
    /\ mine[r].session # None =>
         \/ mine[r].session = s1 /\ r \notin {r4, r5}
         \/ mine[r].session = s1 /\ scenario # "enrollments"
         \/ mine[r].session = s2 /\ r \in {r3, r4, r5} /\ scenario = "enrollments"

\* Nothing begins at the start: the scenario is told by what is held.
MCInit ==
  /\ Init
  /\ scenario \in {x \in DOMAIN Scenarios :
       /\ Scenarios[x].start.enrolled = (com["totp"] # None)
       /\ \A k \in Keys : (k \in Scenarios[x].start.keys) = (com[k] # None)
       /\ \A s \in Sessions : (s \in Scenarios[x].start.proven) = com[s].proven}

MCSpec == MCInit /\ [][Next /\ UNCHANGED scenario]_<<vars, scenario>>
=============================================================================
