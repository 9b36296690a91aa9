----------------------------- MODULE FairShares -----------------------------
(***************************************************************************)
(* A fair share of something a node has few of: the password hashers       *)
(* (login/fairness.rs: of a realm, and of the network of the caller) and   *)
(* the connections questions hold (authz/shares.rs: of the node, and of a  *)
(* tenant).  A call counts under every key it is held to, all counts under *)
(* one mutex; its share goes back when the call drops it, at its end or    *)
(* because it is cancelled.                                                *)
(***************************************************************************)
EXTENDS Integers, FiniteSets

CONSTANTS Calls,    \* the calls served at once
          Keys,     \* what shares are counted by
          KeysOf,   \* the keys each call is held to
          Limit,    \* the share of each key
          Asking    \* the calls that ask whether a share is free, do something
                    \* else, and then take it

ASSUME SharesAssumption ==
  /\ IsFiniteSet(Calls)
  /\ KeysOf \in [Calls -> SUBSET Keys]
  /\ Limit \in [Keys -> Nat \ {0}]
  /\ Asking \subseteq Calls

VARIABLES held,   \* how many shares are held under each key
          state   \* where each call is

vars == <<held, state>>

\* One part in divisor, and one at least.
Part(whole, divisor) == IF whole \div divisor = 0 THEN 1 ELSE whole \div divisor

Init ==
  /\ held = [k \in Keys |-> 0]
  /\ state = [c \in Calls |-> "out"]

IsHeldWhole(c) == \E k \in KeysOf[c] : held[k] >= Limit[k]

\* Tells whether a share is free, and keeps none.
HasFreeShare(c) ==
  /\ c \in Asking /\ state[c] = "out"
  /\ state' = [state EXCEPT ![c] = IF IsHeldWhole(c) THEN "refused" ELSE "asked"]
  /\ held' = held

\* Mutant: what has_free_share told is relied on.
TakeUnchecked(c) ==
  /\ state[c] = IF c \in Asking THEN "asked" ELSE "out"
  /\ state' = [state EXCEPT ![c] = "holding"]
  /\ held' = [k \in Keys |-> IF k \in KeysOf[c] THEN held[k] + 1 ELSE held[k]]

Take(c) ==
  /\ state[c] = IF c \in Asking THEN "asked" ELSE "out"
  /\ IF IsHeldWhole(c)
     THEN state' = [state EXCEPT ![c] = "refused"] /\ held' = held
     ELSE /\ state' = [state EXCEPT ![c] = "holding"]
          /\ held' = [k \in Keys |-> IF k \in KeysOf[c] THEN held[k] + 1 ELSE held[k]]

GiveBack(c) ==
  /\ state[c] = "holding"
  /\ state' = [state EXCEPT ![c] = "out"]
  /\ held' = [k \in Keys |-> IF k \in KeysOf[c] /\ held[k] > 0 THEN held[k] - 1 ELSE held[k]]

\* A call that holds nothing ends, and another one comes.
Leave(c) ==
  /\ state[c] \in {"asked", "refused"}
  /\ state' = [state EXCEPT ![c] = "out"]
  /\ held' = held

Next == \E c \in Calls : HasFreeShare(c) \/ Take(c) \/ GiveBack(c) \/ Leave(c)

Spec == Init /\ [][Next]_vars

-----------------------------------------------------------------------------
(* Properties.                                                             *)

Holders(k) == {c \in Calls : state[c] = "holding" /\ k \in KeysOf[c]}

\* Every count is a number, and every call is somewhere.
TypeOK ==
  /\ held \in [Keys -> Nat]
  /\ state \in [Calls -> {"out", "asked", "holding", "refused"}]

\* The counts are those of the calls that hold a share, after any sequence of
\* takes, refusals and drops: none leaks, none is given back twice.
CountsAreHolders == \A k \in Keys : held[k] = Cardinality(Holders(k))

\* However many calls come at once, a key holds its share and no more, even
\* when every one of them was told before that a share was free.
NoneBeyondShare == \A k \in Keys : Cardinality(Holders(k)) <= Limit[k]

\* A call is refused for nothing but calls that hold, at that moment, the
\* whole share of one of its keys.
RefusedForCause ==
  [][\A c \in Calls : state[c] # "refused" /\ state'[c] = "refused" =>
       \E k \in KeysOf[c] : Cardinality(Holders(k)) >= Limit[k]]_vars

\* Shares are fair: counted as they are held, none beyond its own, none refused
\* without a cause.
SharesAreFair == [](CountsAreHolders /\ NoneBeyondShare) /\ RefusedForCause
=============================================================================
