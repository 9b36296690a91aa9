------------------------------ MODULE Hashers ------------------------------
(***************************************************************************)
(* The hashes a node runs for the calls of FairShares: a call that holds   *)
(* its shares takes one of few workers (crypto/src/adapters/password.rs)   *)
(* and waits for the hash (login/steps/password.rs, directory/create.rs).  *)
(* A call may be dropped while it waits, as a client hangs up: its share   *)
(* goes with the call, and its worker with the hash.                       *)
(***************************************************************************)
EXTENDS FairShares

CONSTANTS Workers   \* how many hashes may run at once

ASSUME WorkersAssumption == Workers \in Nat \ {0}

VARIABLES permits,  \* the workers nobody has
          hash,     \* the hash each call waits for
          left      \* how many hashes run whose call was dropped

hashVars == <<permits, hash, left>>
allVars == <<vars, hashVars>>

HInit ==
  /\ Init
  /\ permits = Workers
  /\ hash = [c \in Calls |-> "none"]
  /\ left = 0

\* What a call does before it holds a share, which FairShares tells.
ComeAndGo(c) ==
  /\ HasFreeShare(c) \/ Take(c) \/ Leave(c)
  /\ UNCHANGED hashVars

\* take_worker: the hash starts, or no worker is free and the call, refused,
\* drops its share.
TakeWorker(c) ==
  /\ state[c] = "holding" /\ hash[c] = "none"
  /\ IF permits > 0
     THEN /\ permits' = permits - 1
          /\ hash' = [hash EXCEPT ![c] = "runs"]
          /\ UNCHANGED <<vars, left>>
     ELSE GiveBack(c) /\ UNCHANGED hashVars

\* The hash ends, by an answer, a failure or a panic: the worker is free before
\* its call knows.
EndHash(c) ==
  /\ hash[c] = "runs"
  /\ permits' = permits + 1
  /\ hash' = [hash EXCEPT ![c] = "ended"]
  /\ UNCHANGED <<vars, left>>

\* Mutant: the call keeps its share, for the next hash.
WakeAndKeep(c) ==
  /\ hash[c] = "ended"
  /\ hash' = [hash EXCEPT ![c] = "none"]
  /\ UNCHANGED <<vars, permits, left>>

\* The call wakes, and drops its share.
Wake(c) ==
  /\ hash[c] = "ended"
  /\ GiveBack(c)
  /\ hash' = [hash EXCEPT ![c] = "none"]
  /\ UNCHANGED <<permits, left>>

\* Mutant: the worker is given back with the call.
DropCallAndWorker(c) ==
  /\ hash[c] # "none"
  /\ GiveBack(c)
  /\ left' = IF hash[c] = "runs" THEN left + 1 ELSE left
  /\ permits' = IF hash[c] = "runs" THEN permits + 1 ELSE permits
  /\ hash' = [hash EXCEPT ![c] = "none"]

\* The call is dropped while it waits.  Its share goes back; its hash runs on.
DropCall(c) ==
  /\ hash[c] # "none"
  /\ GiveBack(c)
  /\ left' = IF hash[c] = "runs" THEN left + 1 ELSE left
  /\ hash' = [hash EXCEPT ![c] = "none"]
  /\ UNCHANGED permits

\* A hash nobody waits for ends.
EndLeft ==
  /\ left > 0
  /\ left' = left - 1
  /\ permits' = permits + 1
  /\ UNCHANGED <<vars, hash>>

HNext ==
  \/ \E c \in Calls : ComeAndGo(c) \/ TakeWorker(c) \/ EndHash(c) \/ Wake(c) \/ DropCall(c)
  \/ EndLeft

HSpec == HInit /\ [][HNext]_allVars

\* A hash that runs ends, and a call that may go on is polled.
HFairSpec ==
  /\ HSpec
  /\ \A c \in Calls :
       WF_allVars(TakeWorker(c)) /\ WF_allVars(EndHash(c)) /\ WF_allVars(Wake(c))
  /\ WF_allVars(EndLeft)

-----------------------------------------------------------------------------
(* Properties.                                                             *)

\* Whatever calls are dropped, and when: each worker is free or runs one hash,
\* so a node never runs more hashes than it has memory for (the bound
\* BoundedPasswordHasher is for), and no worker is lost.
WorkersAreAccountedFor ==
  permits + Cardinality({c \in Calls : hash[c] = "runs"}) + left = Workers

\* A node whose workers are all taken has one again, and a call that holds a
\* share gives it back: what is given to a call that is gone is not lost to
\* the others.
WorkersComeBack ==
  /\ permits = 0 ~> permits > 0
  /\ \A c \in Calls : state[c] = "holding" ~> state[c] # "holding"
=============================================================================
