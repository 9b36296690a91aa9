---------------------------- MODULE HashersProofs ----------------------------
(***************************************************************************)
(* For any number of calls, keys and shares, the counts of FairShares are  *)
(* those of the calls that hold a share, so no key ever holds more than    *)
(* its share, and a call is refused only because others hold it.  For any  *)
(* number of workers too, and whatever call is dropped while it waits,     *)
(* every worker is free or runs one hash, and the shares stay fair, as     *)
(* Hashers takes them as FairShares does.                                  *)
(***************************************************************************)
EXTENDS Hashers, FiniteSetTheorems, TLAPS

-----------------------------------------------------------------------------
(* Shares.                                                                 *)

\* The holders of a key are among the calls, so they are finitely many.
LEMMA HoldersAreFinite ==
  ASSUME NEW k \in Keys
  PROVE  IsFiniteSet(Holders(k)) /\ Cardinality(Holders(k)) \in Nat
<1>1. Holders(k) \subseteq Calls
  BY DEF Holders
<1>2. IsFiniteSet(Holders(k))
  BY <1>1, FS_Subset, SharesAssumption
<1> QED
  BY <1>2, FS_CardinalityType

Inv == TypeOK /\ CountsAreHolders

\* At first nobody holds anything, and every count is zero.
LEMMA InitEstablishes == Init => Inv
<1> SUFFICES ASSUME Init PROVE Inv
  OBVIOUS
<1>1. TypeOK
  BY DEF Init, TypeOK
<1>2. ASSUME NEW k \in Keys PROVE held[k] = Cardinality(Holders(k))
  <2>1. Holders(k) = {}
    BY DEF Init, Holders
  <2> QED
    BY <2>1, FS_EmptySet DEF Init
<1> QED
  BY <1>1, <1>2 DEF Inv, CountsAreHolders

\* A share taken adds one holder to each key of the call.
LEMMA TakePreserves ==
  ASSUME NEW c \in Calls, Inv, Take(c)
  PROVE  Inv'
<1> USE SharesAssumption
<1>1. CASE IsHeldWhole(c)
  <2>1. held' = held /\ state' = [state EXCEPT ![c] = "refused"] /\ state[c] # "holding"
    BY <1>1 DEF Take
  <2>2. TypeOK'
    BY <2>1 DEF Inv, TypeOK
  <2>3. ASSUME NEW k \in Keys PROVE Holders(k)' = Holders(k)
    BY <2>1 DEF Inv, TypeOK, Holders
  <2> QED
    BY <2>1, <2>2, <2>3 DEF Inv, CountsAreHolders
<1>2. CASE ~IsHeldWhole(c)
  <2>1. /\ state' = [state EXCEPT ![c] = "holding"]
        /\ held' = [k \in Keys |-> IF k \in KeysOf[c] THEN held[k] + 1 ELSE held[k]]
        /\ state[c] # "holding"
    BY <1>2 DEF Take
  <2>2. TypeOK'
    BY <2>1 DEF Inv, TypeOK
  <2>3. ASSUME NEW k \in Keys PROVE held'[k] = Cardinality(Holders(k)')
    <3>1. CASE k \in KeysOf[c]
      <4>1. Holders(k)' = Holders(k) \cup {c} /\ c \notin Holders(k)
        BY <2>1, <3>1 DEF Inv, TypeOK, Holders
      <4>2. Cardinality(Holders(k)') = Cardinality(Holders(k)) + 1
        BY <4>1, HoldersAreFinite, FS_AddElement
      <4> QED
        BY <2>1, <3>1, <4>2 DEF Inv, CountsAreHolders
    <3>2. CASE k \notin KeysOf[c]
      <4>1. Holders(k)' = Holders(k)
        BY <2>1, <3>2 DEF Inv, TypeOK, Holders
      <4> QED
        BY <2>1, <3>2, <4>1 DEF Inv, CountsAreHolders
    <3> QED
      BY <3>1, <3>2
  <2> QED
    BY <2>2, <2>3 DEF Inv, CountsAreHolders
<1> QED
  BY <1>1, <1>2

\* A share given back removes one, which the count held: it is not yet zero.
LEMMA GiveBackPreserves ==
  ASSUME NEW c \in Calls, Inv, GiveBack(c)
  PROVE  Inv'
<1> USE SharesAssumption
<1>1. /\ state[c] = "holding"
      /\ state' = [state EXCEPT ![c] = "out"]
      /\ held' = [k \in Keys |-> IF k \in KeysOf[c] /\ held[k] > 0 THEN held[k] - 1 ELSE held[k]]
  BY DEF GiveBack
<1>2. TypeOK'
  BY <1>1 DEF Inv, TypeOK
<1>3. ASSUME NEW k \in Keys PROVE held'[k] = Cardinality(Holders(k)')
  <2>1. CASE k \in KeysOf[c]
    <3>1. Holders(k)' = Holders(k) \ {c} /\ c \in Holders(k)
      BY <1>1, <2>1 DEF Inv, TypeOK, Holders
    <3>2. Cardinality(Holders(k)') = Cardinality(Holders(k)) - 1
      BY <3>1, HoldersAreFinite, FS_RemoveElement
    <3>3. Cardinality(Holders(k)) # 0
      BY <3>1, HoldersAreFinite, FS_EmptySet
    <3>4. held[k] = Cardinality(Holders(k)) /\ held[k] \in Nat
      BY DEF Inv, CountsAreHolders, TypeOK
    <3>5. held[k] > 0
      BY <3>3, <3>4
    <3> QED
      BY <1>1, <2>1, <3>2, <3>4, <3>5
  <2>2. CASE k \notin KeysOf[c]
    <3>1. Holders(k)' = Holders(k)
      BY <1>1, <2>2 DEF Inv, TypeOK, Holders
    <3> QED
      BY <1>1, <2>2, <3>1 DEF Inv, CountsAreHolders
  <2> QED
    BY <2>1, <2>2
<1> QED
  BY <1>2, <1>3 DEF Inv, CountsAreHolders

\* Asking, and leaving without a share, change no holder.
LEMMA OtherStepsPreserve ==
  ASSUME NEW c \in Calls, Inv, HasFreeShare(c) \/ Leave(c)
  PROVE  Inv'
<1>1. held' = held /\ state[c] # "holding"
      /\ \E to \in {"out", "asked", "refused"} : state' = [state EXCEPT ![c] = to]
  BY DEF HasFreeShare, Leave
<1>2. TypeOK'
  BY <1>1 DEF Inv, TypeOK
<1>3. ASSUME NEW k \in Keys PROVE Holders(k)' = Holders(k)
  BY <1>1 DEF Inv, TypeOK, Holders
<1> QED
  BY <1>1, <1>2, <1>3 DEF Inv, CountsAreHolders

\* The counts are those of the holders, whatever is taken, refused and dropped.
THEOREM SharesAreCounted == Spec => [](TypeOK /\ CountsAreHolders)
<1>1. Init => Inv
  BY InitEstablishes
<1>2. Inv /\ [Next]_vars => Inv'
  <2> SUFFICES ASSUME Inv, [Next]_vars PROVE Inv'
    OBVIOUS
  <2>1. CASE UNCHANGED vars
    BY <2>1 DEF vars, Inv, TypeOK, CountsAreHolders, Holders
  <2>2. ASSUME NEW c \in Calls, HasFreeShare(c) \/ Take(c) \/ GiveBack(c) \/ Leave(c)
        PROVE  Inv'
    BY <2>2, TakePreserves, GiveBackPreserves, OtherStepsPreserve
  <2> QED
    BY <2>1, <2>2 DEF Next
<1> QED
  BY <1>1, <1>2, PTL DEF Spec, Inv

\* Of any calls that come at once, no more hold a key than its share: the
\* answer of has_free_share reserves nothing, and take asks again.
THEOREM NoKeyBeyondItsShare == Spec => []NoneBeyondShare
<1> DEFINE IInv == Inv /\ NoneBeyondShare
<1>1. Init => IInv
  <2> SUFFICES ASSUME Init, NEW k \in Keys PROVE Cardinality(Holders(k)) <= Limit[k]
    BY InitEstablishes DEF NoneBeyondShare
  <2>1. Holders(k) = {}
    BY DEF Init, Holders
  <2> QED
    BY <2>1, FS_EmptySet, SharesAssumption
<1>2. IInv /\ [Next]_vars => IInv'
  <2> SUFFICES ASSUME IInv, [Next]_vars PROVE IInv'
    OBVIOUS
  <2>1. CASE UNCHANGED vars
    BY <2>1 DEF vars, Inv, TypeOK, CountsAreHolders, Holders, NoneBeyondShare
  <2>2. ASSUME NEW c \in Calls, HasFreeShare(c) \/ Take(c) \/ GiveBack(c) \/ Leave(c)
        PROVE  IInv'
    <3>1. Inv'
      BY <2>2, TakePreserves, GiveBackPreserves, OtherStepsPreserve
    <3>2. ASSUME NEW k \in Keys PROVE held'[k] <= Limit[k]
      <4>1. held[k] \in Nat /\ held[k] <= Limit[k] /\ Limit[k] \in Nat
        BY SharesAssumption DEF Inv, TypeOK, CountsAreHolders, NoneBeyondShare
      <4> QED
        BY <2>2, <4>1, SharesAssumption DEF HasFreeShare, Take, GiveBack, Leave, IsHeldWhole
    <3> QED
      BY <3>1, <3>2 DEF Inv, CountsAreHolders, NoneBeyondShare
  <2> QED
    BY <2>1, <2>2 DEF Next
<1> QED
  BY <1>1, <1>2, PTL DEF Spec

\* Whoever is refused finds one of its keys held whole by calls that hold it.
THEOREM RefusalsHaveACause == Spec => RefusedForCause
<1>1. Inv /\ [Next]_vars =>
        [\A c \in Calls : state[c] # "refused" /\ state'[c] = "refused" =>
           \E k \in KeysOf[c] : Cardinality(Holders(k)) >= Limit[k]]_vars
  <2> SUFFICES ASSUME Inv, Next, NEW c \in Calls,
                      state[c] # "refused", state'[c] = "refused"
               PROVE  \E k \in KeysOf[c] : Cardinality(Holders(k)) >= Limit[k]
    OBVIOUS
  <2>1. IsHeldWhole(c)
    BY DEF Next, HasFreeShare, Take, GiveBack, Leave, Inv, TypeOK
  <2>2. PICK k \in KeysOf[c] : held[k] >= Limit[k]
    BY <2>1 DEF IsHeldWhole
  <2>3. k \in Keys
    BY SharesAssumption
  <2> QED
    BY <2>2, <2>3 DEF Inv, CountsAreHolders
<1> QED
  BY <1>1, SharesAreCounted, PTL DEF Spec, Inv, RefusedForCause

\* Both at once: for any calls, keys and limits, shares are fair.
THEOREM SharesStayFair == Spec => SharesAreFair
<1> QED
  BY SharesAreCounted, NoKeyBeyondItsShare, RefusalsHaveACause, PTL DEF SharesAreFair

-----------------------------------------------------------------------------
(* Workers.                                                                *)

Running == {c \in Calls : hash[c] = "runs"}

HTypeOK ==
  /\ permits \in Nat /\ left \in Nat
  /\ hash \in [Calls -> {"none", "runs", "ended"}]

\* A call that waits for a hash holds its share until it wakes or is dropped.
WaitingHolds == \A c \in Calls : hash[c] # "none" => state[c] = "holding"

HInv == Inv /\ HTypeOK /\ WaitingHolds /\ WorkersAreAccountedFor

\* The hashes calls wait for are finitely many.
LEMMA RunningIsFinite == IsFiniteSet(Running) /\ Cardinality(Running) \in Nat
<1>1. Running \subseteq Calls
  BY DEF Running
<1>2. IsFiniteSet(Running)
  BY <1>1, FS_Subset, SharesAssumption
<1> QED
  BY <1>2, FS_CardinalityType

\* One hash that starts is one more, one no longer waited for is one less.
LEMMA RunningCounts ==
  ASSUME NEW c \in Calls, HTypeOK, NEW to, hash' = [hash EXCEPT ![c] = to]
  PROVE  /\ to = "runs" /\ hash[c] # "runs" => Cardinality(Running') = Cardinality(Running) + 1
         /\ to # "runs" /\ hash[c] = "runs" => Cardinality(Running') = Cardinality(Running) - 1
         /\ to # "runs" /\ hash[c] # "runs" => Cardinality(Running') = Cardinality(Running)
<1>1. ASSUME to = "runs", hash[c] # "runs"
      PROVE  Cardinality(Running') = Cardinality(Running) + 1
  <2>1. Running' = Running \cup {c} /\ c \notin Running
    BY <1>1 DEF HTypeOK, Running
  <2> QED
    BY <2>1, RunningIsFinite, FS_AddElement
<1>2. ASSUME to # "runs", hash[c] = "runs"
      PROVE  Cardinality(Running') = Cardinality(Running) - 1
  <2>1. Running' = Running \ {c} /\ c \in Running
    BY <1>2 DEF HTypeOK, Running
  <2> QED
    BY <2>1, RunningIsFinite, FS_RemoveElement
<1>3. ASSUME to # "runs", hash[c] # "runs" PROVE Running' = Running
  BY <1>3 DEF HTypeOK, Running
<1> QED
  BY <1>1, <1>2, <1>3

\* What moves a call and leaves its hash alone.
LEMMA ComeAndGoKeeps ==
  ASSUME NEW c \in Calls, HInv, ComeAndGo(c)
  PROVE  HInv'
<1>1. Inv'
  BY TakePreserves, OtherStepsPreserve DEF HInv, ComeAndGo
<1>2. HTypeOK' /\ WorkersAreAccountedFor'
  BY DEF HInv, HTypeOK, WorkersAreAccountedFor, ComeAndGo, hashVars
<1>3. state[c] # "holding" /\ \A d \in Calls : d # c => state'[d] = state[d]
  BY DEF ComeAndGo, HasFreeShare, Take, Leave, HInv, Inv, TypeOK
<1>4. WaitingHolds'
  BY <1>3 DEF HInv, WaitingHolds, ComeAndGo, hashVars
<1> QED
  BY <1>1, <1>2, <1>4 DEF HInv

\* take_worker: a worker that was free runs the hash, or the share goes back.
LEMMA TakeWorkerKeeps ==
  ASSUME NEW c \in Calls, HInv, TakeWorker(c)
  PROVE  HInv'
<1>1. CASE permits > 0
  <2>1. /\ permits' = permits - 1 /\ hash' = [hash EXCEPT ![c] = "runs"] /\ left' = left
        /\ UNCHANGED vars /\ hash[c] = "none" /\ state[c] = "holding"
    BY <1>1 DEF TakeWorker
  <2>2. Inv'
    BY <2>1 DEF vars, HInv, Inv, TypeOK, CountsAreHolders, Holders
  <2>3. HTypeOK'
    BY <1>1, <2>1 DEF HInv, HTypeOK
  <2>4. Cardinality(Running') = Cardinality(Running) + 1
    BY <2>1, RunningCounts, Zenon DEF HInv
  <2>5. WorkersAreAccountedFor'
    BY <2>1, <2>4, RunningIsFinite, WorkersAssumption
       DEF HInv, HTypeOK, WorkersAreAccountedFor, Running
  <2>6. WaitingHolds'
    BY <2>1 DEF vars, HInv, HTypeOK, WaitingHolds
  <2> QED
    BY <2>2, <2>3, <2>5, <2>6 DEF HInv
<1>2. CASE ~(permits > 0)
  <2>1. GiveBack(c) /\ UNCHANGED hashVars /\ hash[c] = "none"
    BY <1>2 DEF TakeWorker
  <2>2. Inv'
    BY <2>1, GiveBackPreserves DEF HInv
  <2>3. HTypeOK' /\ WorkersAreAccountedFor'
    BY <2>1 DEF HInv, HTypeOK, WorkersAreAccountedFor, hashVars
  <2>4. WaitingHolds'
    BY <2>1 DEF hashVars, GiveBack, HInv, Inv, TypeOK, WaitingHolds
  <2> QED
    BY <2>2, <2>3, <2>4 DEF HInv
<1> QED
  BY <1>1, <1>2

\* The hash ends, and its worker is free before its call knows.
LEMMA EndHashKeeps ==
  ASSUME NEW c \in Calls, HInv, EndHash(c)
  PROVE  HInv'
<1>1. /\ permits' = permits + 1 /\ hash' = [hash EXCEPT ![c] = "ended"] /\ left' = left
      /\ UNCHANGED vars /\ hash[c] = "runs"
  BY DEF EndHash
<1>2. Inv' /\ WaitingHolds'
  BY <1>1 DEF vars, HInv, HTypeOK, Inv, TypeOK, CountsAreHolders, Holders, WaitingHolds
<1>3. HTypeOK'
  BY <1>1 DEF HInv, HTypeOK
<1>4. Cardinality(Running') = Cardinality(Running) - 1
  <2>1. "ended" # "runs"
    OBVIOUS
  <2> QED
    BY <1>1, <2>1, RunningCounts, Zenon DEF HInv
<1>5. WorkersAreAccountedFor'
  BY <1>1, <1>4, RunningIsFinite, WorkersAssumption
     DEF HInv, HTypeOK, WorkersAreAccountedFor, Running
<1> QED
  BY <1>2, <1>3, <1>5 DEF HInv

\* The call goes, woken or dropped: its share goes back, and its worker only
\* with the hash.
LEMMA GoneKeeps ==
  ASSUME NEW c \in Calls, HInv, Wake(c) \/ DropCall(c)
  PROVE  HInv'
<1>1. /\ GiveBack(c) /\ hash' = [hash EXCEPT ![c] = "none"] /\ permits' = permits
      /\ left' = IF hash[c] = "runs" THEN left + 1 ELSE left
  BY DEF Wake, DropCall, HInv, HTypeOK
<1>2. Inv'
  BY <1>1, GiveBackPreserves DEF HInv
<1>3. HTypeOK'
  BY <1>1 DEF HInv, HTypeOK
<1>4. WaitingHolds'
  BY <1>1 DEF GiveBack, HInv, HTypeOK, Inv, TypeOK, WaitingHolds
<1>5. Cardinality(Running') = IF hash[c] = "runs" THEN Cardinality(Running) - 1
                                                    ELSE Cardinality(Running)
  <2>1. "none" # "runs"
    OBVIOUS
  <2> QED
    BY <1>1, <2>1, RunningCounts, Zenon DEF HInv
<1>6. WorkersAreAccountedFor'
  BY <1>1, <1>5, RunningIsFinite, WorkersAssumption
     DEF HInv, HTypeOK, WorkersAreAccountedFor, Running
<1> QED
  BY <1>2, <1>3, <1>4, <1>6 DEF HInv

\* A hash nobody waits for gives its worker back.
LEMMA EndLeftKeeps ==
  ASSUME HInv, EndLeft
  PROVE  HInv'
<1>1. Inv' /\ WaitingHolds'
  BY DEF EndLeft, vars, HInv, Inv, TypeOK, CountsAreHolders, Holders, WaitingHolds
<1>2. HTypeOK'
  BY DEF EndLeft, HInv, HTypeOK
<1>3. WorkersAreAccountedFor'
  BY RunningIsFinite, WorkersAssumption
     DEF EndLeft, HInv, HTypeOK, WorkersAreAccountedFor, Running
<1> QED
  BY <1>1, <1>2, <1>3 DEF HInv

\* A step of Hashers is a step of FairShares, or leaves its shares alone.
LEMMA StepsTakeSharesFairly == HNext => [Next]_vars
  BY DEF HNext, ComeAndGo, TakeWorker, EndHash, Wake, DropCall, EndLeft, Next

\* The inductive invariant: no share leaks, a call that waits holds its share,
\* and each worker is free or runs one hash.
LEMMA HInvHolds == HSpec => []HInv
<1>1. HInit => HInv
  <2> SUFFICES ASSUME HInit PROVE HInv
    OBVIOUS
  <2>1. Inv
    BY InitEstablishes DEF HInit
  <2>2. HTypeOK /\ WaitingHolds
    BY WorkersAssumption DEF HInit, HTypeOK, WaitingHolds
  <2>3. {c \in Calls : hash[c] = "runs"} = {}
    BY DEF HInit
  <2>4. WorkersAreAccountedFor
    BY <2>3, FS_EmptySet, WorkersAssumption DEF HInit, WorkersAreAccountedFor
  <2> QED
    BY <2>1, <2>2, <2>4 DEF HInv
<1>2. HInv /\ [HNext]_allVars => HInv'
  <2> SUFFICES ASSUME HInv, [HNext]_allVars PROVE HInv'
    OBVIOUS
  <2>1. CASE UNCHANGED allVars
    BY <2>1 DEF allVars, hashVars, vars, HInv, HTypeOK, Inv, TypeOK, CountsAreHolders,
                Holders, WaitingHolds, WorkersAreAccountedFor
  <2>2. ASSUME NEW c \in Calls,
               ComeAndGo(c) \/ TakeWorker(c) \/ EndHash(c) \/ Wake(c) \/ DropCall(c)
        PROVE  HInv'
    BY <2>2, ComeAndGoKeeps, TakeWorkerKeeps, EndHashKeeps, GoneKeeps
  <2> QED
    BY <2>1, <2>2, EndLeftKeeps DEF HNext
<1> QED
  BY <1>1, <1>2, PTL DEF HSpec

\* Whatever calls are dropped, and when: each worker is free or runs one hash.
THEOREM WorkersStayAccountedFor == HSpec => []WorkersAreAccountedFor
<1>1. HInv => WorkersAreAccountedFor
  BY DEF HInv
<1> QED
  BY <1>1, HInvHolds, PTL

\* The node that hashes takes its shares as FairShares tells.
THEOREM HashersImplementShares == HSpec => Spec
<1>1. HInit => Init
  BY DEF HInit
<1>2. [HNext]_allVars => [Next]_vars
  BY StepsTakeSharesFairly DEF allVars
<1> QED
  BY <1>1, <1>2, PTL DEF HSpec, Spec

\* So the shares stay fair when calls wait for hashes and are dropped.
THEOREM HashersStayFair == HSpec => SharesAreFair
  BY HashersImplementShares, SharesStayFair, PTL
=============================================================================
