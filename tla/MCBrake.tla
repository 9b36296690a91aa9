------------------------------- MODULE MCBrake -------------------------------
(***************************************************************************)
(* Small instances of Brake over one set of variables.  A behaviour is of  *)
(* one of them, chosen at the start: who may call, from where, with which  *)
(* password, how often and until when, and the bounds that matter to it.   *)
(*                                                                         *)
(* In all of them a short bucket is one instant, a long one two, a day     *)
(* several long ones kept for two days, and the bounds follow each other   *)
(* as in the code: recent failures, those of a browser in a day, those of  *)
(* a name, those of a name in a day.                                       *)
(***************************************************************************)
EXTENDS Brake, TLC

CONSTANTS home, boss, d1, d2, d3

VARIABLE part

MCPerson == [n \in Names |-> n]

\* The rows of an instance with these addresses and browsers, up to `last`.
Sized(from, devices, last) == INSTANCE Brake
  WITH Rows <- {}, Addresses <- from, Devices <- devices, LastInstant <- last
RowsOf(from, devices, last) == Sized(from, devices, last)!Buckets \cup devices

\* Wrong guesses on a name, from an address or from nowhere known, while time
\* passes from one short bucket to the next: the instance EXTENDS gives.
MCRows == RowsOf(Addresses, Devices, LastInstant)

\* A browser its person signed in from.
Known == d1 :> [person |-> CHOOSE n \in Names : TRUE, expires |-> 3]

\* Sign-ins right and wrong, from it, from browsers that become known, and
\* from nowhere known; past the bound they are evicted.
BrowserRows == RowsOf({}, {d1, d2, d3}, 0)
Browsers == INSTANCE Brake
  WITH Rows <- BrowserRows, Addresses <- {}, Devices <- {d1, d2, d3}, LastInstant <- 0,
       Guesses <- BOOLEAN

\* Requests left waiting, from an address or from a browser it knows.
WaitingRows == RowsOf({home}, {d1}, 1)
Waiting == INSTANCE Brake
  WITH Rows <- WaitingRows, Devices <- {d1}, Operations <- {"sign_in", "wait"},
       Guesses <- {TRUE}, MaxBegun <- 3

\* An administrator unlocks a name that is being guessed.
UnlockRows == RowsOf({home}, {}, 0)
Unlock == INSTANCE Brake
  WITH Rows <- UnlockRows, Works <- Attempts \cup {boss}, Administrators <- {boss},
       LastInstant <- 0, MaxBegun <- 3

\* Counters are purged two days of two long buckets after they opened, while
\* a name is guessed and unlocked.  A purge tells counters apart by nothing but
\* the length of their buckets: those of a name are enough.
WindowsRows == RowsOf({}, {}, 9)
Windows == INSTANCE Brake
  WITH Rows <- WindowsRows, Addresses <- {},
       Works <- Attempts \cup {boss}, Administrators <- {boss},
       LastInstant <- 9, MaxBegun <- 2, LongWindowBuckets <- 2, CountersKept <- 8

\* Guesses spread over a day, so that recent ones never suffice to lock.
DayRows == RowsOf({}, {}, 4)
Day == INSTANCE Brake
  WITH Rows <- DayRows, Addresses <- {}, LastInstant <- 4, MaxBegun <- 5

\* The same from a browser the person signed in from, or without it.
OwnDayRows == RowsOf({}, {d1}, 2)
OwnDay == INSTANCE Brake
  WITH Rows <- OwnDayRows, Addresses <- {}, Devices <- {d1}, LastInstant <- 2

\* Browsers that expire, are purged and are given anew.
ExpiryRows == RowsOf({}, {d1, d2}, 2)
Expiry == INSTANCE Brake
  WITH Rows <- ExpiryRows, Addresses <- {}, Devices <- {d1, d2}, LastInstant <- 2,
       MaxBegun <- 3, Guesses <- {TRUE}

ASSUME InstancesAssumption ==
  /\ Browsers!RowsAssumption /\ Browsers!BrakeAssumption
  /\ Waiting!RowsAssumption /\ Waiting!BrakeAssumption
  /\ Unlock!RowsAssumption /\ Unlock!BrakeAssumption
  /\ Windows!RowsAssumption /\ Windows!BrakeAssumption
  /\ Day!RowsAssumption /\ Day!BrakeAssumption
  /\ OwnDay!RowsAssumption /\ OwnDay!BrakeAssumption
  /\ Expiry!RowsAssumption /\ Expiry!BrakeAssumption

MCInit ==
  \/ part = "guesses" /\ Init
  \/ part = "browsers" /\ Browsers!StartsWith(Known)
  \/ part = "waiting" /\ Waiting!Init
  \/ part = "unlock" /\ Unlock!Init
  \/ part = "windows" /\ Windows!Init
  \/ part = "day" /\ Day!Init
  \/ part = "own_day" /\ OwnDay!StartsWith(Known)
  \/ part = "expiry" /\ Expiry!Init

MCNext ==
  /\ UNCHANGED part
  /\ \/ part = "guesses" /\ Next
     \/ part = "browsers" /\ Browsers!Next
     \/ part = "waiting" /\ Waiting!Next
     \/ part = "unlock" /\ Unlock!Next
     \/ part = "windows" /\ Windows!Next
     \/ part = "day" /\ Day!Next
     \/ part = "own_day" /\ OwnDay!Next
     \/ part = "expiry" /\ Expiry!Next

MCSpec == MCInit /\ [][MCNext]_<<vars, part>>

Interchangeable == Permutations(Attempts)

-----------------------------------------------------------------------------
(* Properties, of every instance.                                          *)

\* Brake!BoundsHold: what is bounded stays bounded, guesses and browsers,
\* whoever comes together, and what was handed out is counted.
EveryBoundHolds ==
  CASE part = "guesses" -> BoundsHold
    [] part = "browsers" -> Browsers!BoundsHold
    [] part = "waiting" -> Waiting!BoundsHold
    [] part = "unlock" -> Unlock!BoundsHold
    [] part = "windows" -> Windows!BoundsHold
    [] part = "day" -> Day!BoundsHold
    [] part = "own_day" -> OwnDay!BoundsHold
    [] part = "expiry" -> Expiry!BoundsHold

\* Brake!GivesNoGuessBack, of every step: in the window, no sign-in and no
\* purge lowers what a name or an address is counted for, nobody but an
\* administrator does.
NoGuessGivenBack ==
  [][CASE part = "guesses" -> GivesNoGuessBack
       [] part = "browsers" -> Browsers!GivesNoGuessBack
       [] part = "waiting" -> Waiting!GivesNoGuessBack
       [] part = "unlock" -> Unlock!GivesNoGuessBack
       [] part = "windows" -> Windows!GivesNoGuessBack
       [] part = "day" -> Day!GivesNoGuessBack
       [] part = "own_day" -> OwnDay!GivesNoGuessBack
       [] part = "expiry" -> Expiry!GivesNoGuessBack]_vars

\* Brake!LocksForItsOwn, of every step: a browser the person signed in from is
\* locked out by nothing but its own failures since it last proved the person.
BrowserAnswersForItself ==
  [][CASE part = "guesses" -> LocksForItsOwn
       [] part = "browsers" -> Browsers!LocksForItsOwn
       [] part = "waiting" -> Waiting!LocksForItsOwn
       [] part = "unlock" -> Unlock!LocksForItsOwn
       [] part = "windows" -> Windows!LocksForItsOwn
       [] part = "day" -> Day!LocksForItsOwn
       [] part = "own_day" -> OwnDay!LocksForItsOwn
       [] part = "expiry" -> Expiry!LocksForItsOwn]_vars
=============================================================================
