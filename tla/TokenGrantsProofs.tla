-------------------------- MODULE TokenGrantsProofs --------------------------
(***************************************************************************)
(* For any number of requests, codes, tokens, clients and sessions, any    *)
(* lifetimes and any clock: TokenGrants is type correct; of all the        *)
(* exchanges of one code, and of all the rotations of one refresh token,   *)
(* at most one is answered with tokens; a grant is taken back as promised, *)
(* a dead code or token obtains nothing, and GrantLifecycle is             *)
(* implemented.                                                            *)
(*                                                                         *)
(* The argument.  A request that won a code holds its row lock until the   *)
(* spend is committed, and from there on the code reads spent or is gone;  *)
(* every writer of a code row keeps it spent, and nobody issues a code     *)
(* anyone asked for.  A request that won a token holds its row lock until  *)
(* it answers, and from there on the token reads used or is gone.          *)
(***************************************************************************)
EXTENDS GrantRefinement, TLAPS

Redeeming == {"x_spent", "x_subject", "x_consent", "x_bind", "x_answer"}
Rotating == {"r_subject", "r_answer"}
Issuing == {"a_session", "a_consent", "a_issue"}

HoldsCode(r) == asked[r].op = "exchange" /\ pc[r] \in Redeeming \cup {"granted"}
HoldsToken(r) == asked[r].op = "rotate" /\ pc[r] \in Rotating \cup {"granted"}
Issues(r) == pc[r] \in Issuing

\* A code that is gone or spent, a token that is gone or used.
Burnt(row) == row = None \/ row.spent
Consumed(row) == row = None \/ row.used

\* What is written of a code and not committed keeps it spent; what is written
\* of a token keeps it used.
WritesKeep ==
  /\ \A c \in Codes : writer[c] # None =>
       com[c] # None /\ cur[c] \in CodeRow /\ cur[c].spent
  /\ \A t \in Requests : writer[t] # None =>
       /\ com[t] # None /\ cur[t] \in TokenRow
       /\ com[t].used => cur[t].used

\* The step a request is at belongs to what it asked.
StepFits(r) ==
  /\ pc[r] \in Issuing => asked[r].op \in {"authorize", "allow"}
  /\ pc[r] \in Redeeming \cup {"x_spend", "x_mark"} => asked[r].op = "exchange"
  /\ pc[r] \in Rotating \cup {"r_spend", "r_lock", "r_read"} => asked[r].op = "rotate"
  /\ pc[r] = "v_read" => asked[r].op = "revoke"
  /\ pc[r] \in {"l_read", "l_end"} => asked[r].op = "logout"
  /\ pc[r] = "w_delete" => asked[r].op = "withdraw"

\* What it asked names a row of the right table.
CallFits(r) ==
  /\ asked[r] \in Call
  /\ asked[r].op \in {"authorize", "allow", "exchange"} => asked[r].of \in Codes
  /\ asked[r].op \in {"rotate", "revoke"} =>
       asked[r].of \in Requests /\ pc[asked[r].of] = "granted"
  /\ asked[r].op = "logout" => asked[r].of \in Sessions
  /\ asked[r].op = "withdraw" => asked[r].of \in Consents
  /\ asked[r].op \in {"authorize", "allow"} \/ pc[r] \in Redeeming => asked[r].grant \in Grant

\* What a request holds is its own, or already spent for everyone.
HoldFits(r) ==
  /\ HoldsCode(r) =>
       IF pc[r] = "x_spent" THEN writer[asked[r].of] = r ELSE Burnt(com[asked[r].of])
  /\ HoldsToken(r) =>
       IF pc[r] = "granted" THEN Consumed(com[asked[r].of])
       ELSE /\ writer[asked[r].of] = r
            /\ cur[asked[r].of] \in TokenRow /\ cur[asked[r].of].used
  /\ Issues(r) => com[asked[r].of] = None /\ writer[asked[r].of] = None

\* The token a request is to write is not there before it answers.
Unminted(r) == pc[r] # "granted" => com[r] = None /\ writer[r] = None

RequestFits(r) == pc[r] # "idle" => StepFits(r) /\ CallFits(r) /\ HoldFits(r)

\* Two requests never both hold, or issue, one code or one token.
Apart(q, r) ==
  pc[q] # "idle" /\ pc[r] # "idle" /\ asked[q].of = asked[r].of =>
    /\ ~(HoldsCode(q) /\ HoldsCode(r))
    /\ ~(HoldsToken(q) /\ HoldsToken(r))
    /\ ~(Issues(q) /\ (HoldsCode(r) \/ Issues(r)))

IndInv ==
  /\ TypeOK
  /\ WritesKeep
  /\ \A r \in Requests : Unminted(r) /\ RequestFits(r)
  /\ \A q, r \in Requests : q # r => Apart(q, r)

-----------------------------------------------------------------------------
(* What a step of r may do to the rows, those of X left aside: keep them   *)
(* rows, leave alone what others write, and make nothing good again.       *)

CalmBut(r, X) ==
  /\ AreRows(com') /\ AreRows(cur')
  /\ writer' \in [Rows -> Requests \cup {None}]
  /\ sharers' \in [Rows -> SUBSET Requests]
  /\ WritesKeep'
  /\ \A x \in Rows : writer[x] \notin {r, None} =>
       writer'[x] = writer[x] /\ (x \notin X => cur'[x] = cur[x])
  /\ \A c \in Codes \ X : Burnt(com[c]) => Burnt(com'[c])
  /\ \A t \in Requests \ X : Consumed(com[t]) => Consumed(com'[t])
  /\ \A x \in (Codes \cup Requests) \ X :
       com[x] = None /\ writer[x] = None => com'[x] = None /\ writer'[x] = None

LocalTypes ==
  /\ now \in Nat
  /\ family \in [Requests -> Requests \cup {None}]
  /\ todo \in [Requests -> SUBSET Requests]
  /\ ended \in [Requests -> SUBSET Requests]
  /\ told \in [Requests -> Event \cup {None}]

\* Every request but r is where it was.
OthersStand(r) ==
  \A q \in Requests \ {r} : pc'[q] = pc[q] /\ asked'[q] = asked[q]

\* No request but r holds or issues a row of X.
OthersHoldNone(r, X) ==
  \A q \in Requests \ {r} :
    pc[q] # "idle" /\ (HoldsCode(q) \/ HoldsToken(q) \/ Issues(q)) => asked[q].of \notin X

\* A request is no row lock's absence.
LEMMA RequestsAreSome == None \notin Requests
  BY NoneAssumption, RowsAssumption

\* The tables are apart, and every key of one is a row.
LEMMA TablesAreApart ==
  /\ Codes \subseteq Rows /\ Requests \subseteq Rows
  /\ Sessions \subseteq Rows /\ Consents \subseteq Rows
  /\ \A x \in Codes : x \notin Requests /\ x \notin Sessions /\ x \notin Consents
  /\ \A x \in Requests : x \notin Sessions /\ x \notin Consents
  /\ \A x \in Sessions : x \notin Consents
  BY RowsAssumption

\* A step that leaves the rows alone is calm.
LEMMA CalmUnchanged ==
  ASSUME NEW r, IndInv, UNCHANGED storage
  PROVE  CalmBut(r, {})
  BY DEF IndInv, TypeOK, storage, CalmBut, WritesKeep

\* So is one that holds a consent FOR SHARE.
LEMMA CalmHold ==
  ASSUME NEW r \in Requests, NEW x \in Rows, IndInv, HoldRow(r, x)
  PROVE  CalmBut(r, {})
  BY DEF IndInv, TypeOK, HoldRow, CalmBut, WritesKeep

\* A rollback restores rows that were there, and frees only what r wrote.
LEMMA CalmRollback ==
  ASSUME NEW r \in Requests, IndInv, Rollback(r)
  PROVE  CalmBut(r, {})
<1>1. AreRows(com') /\ AreRows(cur')
  BY TablesAreApart DEF IndInv, TypeOK, AreRows, Rollback
<1>2. writer' \in [Rows -> Requests \cup {None}] /\ sharers' \in [Rows -> SUBSET Requests]
  BY DEF IndInv, TypeOK, Rollback, Released
<1>3. \A x \in Rows : writer'[x] # None => writer'[x] = writer[x] /\ cur'[x] = cur[x]
  BY DEF Rollback, Released
<1>4. WritesKeep'
  BY <1>3, TablesAreApart DEF IndInv, WritesKeep, Rollback
<1> QED
  BY <1>1, <1>2, <1>4, TablesAreApart DEF CalmBut, Rollback, Released

\* A commit publishes what r wrote, which keeps codes spent and tokens used.
LEMMA CalmCommit ==
  ASSUME NEW r \in Requests, IndInv, Commit(r)
  PROVE  CalmBut(r, {})
<1>1. AreRows(com') /\ AreRows(cur')
  BY TablesAreApart DEF IndInv, TypeOK, AreRows, Commit
<1>2. writer' \in [Rows -> Requests \cup {None}] /\ sharers' \in [Rows -> SUBSET Requests]
  BY DEF IndInv, TypeOK, Commit, Released
<1>3. \A x \in Rows : writer'[x] # None =>
        writer'[x] = writer[x] /\ cur'[x] = cur[x] /\ com'[x] = com[x]
  BY DEF Commit, Released
<1>4. WritesKeep'
  BY <1>3, TablesAreApart DEF IndInv, WritesKeep, Commit
<1>5. \A c \in Codes : Burnt(com[c]) => Burnt(com'[c])
  BY TablesAreApart, RequestsAreSome DEF IndInv, WritesKeep, Commit, Burnt
<1>6. \A t \in Requests : Consumed(com[t]) => Consumed(com'[t])
  BY TablesAreApart, RequestsAreSome DEF IndInv, WritesKeep, Commit, Consumed
<1>7. \A y \in Codes \cup Requests :
        com[y] = None /\ writer[y] = None => com'[y] = None /\ writer'[y] = None
  BY TablesAreApart, RequestsAreSome DEF Commit, Released
<1>8. \A x \in Rows : writer[x] \notin {r, None} => writer'[x] = writer[x] /\ cur'[x] = cur[x]
  BY DEF Commit, Released
<1> QED
  BY <1>1, <1>2, <1>4, <1>5, <1>6, <1>7, <1>8 DEF CalmBut

\* A written code stays spent, and was there; a written token stays used.
LEMMA CalmWrite ==
  ASSUME NEW r \in Requests, NEW x \in Rows, NEW v, IndInv, WriteRow(r, x, v),
         x \in Codes => com[x] # None /\ v \in CodeRow /\ v.spent,
         x \in Requests => com[x] # None /\ v \in TokenRow /\ (com[x].used => v.used),
         x \in Sessions => v \in SessionRow,
         x \in Consents => v \in (SUBSET Scopes) \cup {None}
  PROVE  CalmBut(r, {})
<1>0. DOMAIN cur = Rows /\ DOMAIN com = Rows /\ writer \in [Rows -> Requests \cup {None}]
  BY DEF IndInv, TypeOK, AreRows
<1>a. /\ cur' = [cur EXCEPT ![x] = v] /\ writer' = [writer EXCEPT ![x] = r]
      /\ com' = com /\ sharers' = sharers /\ writer[x] \in {r, None}
  BY DEF WriteRow, MayWrite
<1>1. AreRows(com') /\ AreRows(cur')
  BY <1>a, TablesAreApart DEF IndInv, TypeOK, AreRows
<1>2. writer' \in [Rows -> Requests \cup {None}] /\ sharers' \in [Rows -> SUBSET Requests]
  BY <1>a DEF IndInv, TypeOK
<1>3. \A y \in Rows : y # x => writer'[y] = writer[y] /\ cur'[y] = cur[y]
  BY <1>0, <1>a
<1>4. cur'[x] = v /\ writer'[x] = r
  BY <1>0, <1>a
<1>5. WritesKeep'
  BY <1>a, <1>3, <1>4, TablesAreApart DEF IndInv, WritesKeep
<1>6. \A y \in Rows : writer[y] \notin {r, None} => writer'[y] = writer[y] /\ cur'[y] = cur[y]
  BY <1>a, <1>3
<1>7. \A y \in Codes \cup Requests :
        com[y] = None /\ writer[y] = None => com'[y] = None /\ writer'[y] = None
  BY <1>a, <1>3, TablesAreApart
<1> QED
  BY <1>a, <1>1, <1>2, <1>5, <1>6, <1>7 DEF CalmBut

\* An inserted row is the only one that may be made good.
LEMMA CalmInsert ==
  ASSUME NEW r \in Requests, NEW x \in Rows, NEW v, IndInv, InsertAndCommit(r, x, v),
         writer[x] = None,
         (x \in Codes /\ v \in CodeRow) \/ (x \in Requests /\ v \in TokenRow)
  PROVE  CalmBut(r, {x})
<1>0. DOMAIN cur = Rows /\ DOMAIN com = Rows /\ x \in Rows
  BY TablesAreApart DEF IndInv, TypeOK, AreRows
<1>a. /\ com'[x] = v /\ cur'[x] = v
      /\ DOMAIN com' = Rows /\ DOMAIN cur' = Rows
      /\ \A y \in Rows : y # x =>
           cur'[y] = cur[y] /\ com'[y] = IF writer[y] = r THEN cur[y] ELSE com[y]
  BY <1>0 DEF InsertAndCommit
<1>b. \A y \in Rows : writer'[y] = IF writer[y] = r THEN None ELSE writer[y]
  BY DEF InsertAndCommit, Released
<1>1. AreRows(com') /\ AreRows(cur')
  BY <1>a, TablesAreApart DEF IndInv, TypeOK, AreRows
<1>2. writer' \in [Rows -> Requests \cup {None}] /\ sharers' \in [Rows -> SUBSET Requests]
  BY DEF IndInv, TypeOK, InsertAndCommit, Released
<1>3. WritesKeep'
  <2>1. ASSUME NEW c \in Codes, writer'[c] # None
        PROVE  com'[c] # None /\ cur'[c] \in CodeRow /\ cur'[c].spent
    BY <2>1, <1>a, <1>b, TablesAreApart DEF IndInv, WritesKeep
  <2>2. ASSUME NEW t \in Requests, writer'[t] # None
        PROVE  /\ com'[t] # None /\ cur'[t] \in TokenRow
               /\ com'[t].used => cur'[t].used
    BY <2>2, <1>a, <1>b, TablesAreApart DEF IndInv, WritesKeep
  <2> QED
    BY <2>1, <2>2 DEF WritesKeep
<1>4. \A c \in Codes \ {x} : Burnt(com[c]) => Burnt(com'[c])
  BY <1>a, TablesAreApart, RequestsAreSome DEF IndInv, WritesKeep, Burnt
<1>5. \A t \in Requests \ {x} : Consumed(com[t]) => Consumed(com'[t])
  BY <1>a, TablesAreApart, RequestsAreSome DEF IndInv, WritesKeep, Consumed
<1>6. \A y \in (Codes \cup Requests) \ {x} :
        com[y] = None /\ writer[y] = None => com'[y] = None /\ writer'[y] = None
  BY <1>a, <1>b, TablesAreApart, RequestsAreSome
<1>7. \A y \in Rows : writer[y] \notin {r, None} =>
        writer'[y] = writer[y] /\ (y \notin {x} => cur'[y] = cur[y])
  BY <1>a, <1>b
<1> QED
  BY <1>1, <1>2, <1>3, <1>4, <1>5, <1>6, <1>7 DEF CalmBut

\* The retention pass removes rows nobody writes; a row that is gone is good for nothing.
LEMMA CalmDelete ==
  ASSUME NEW X \in SUBSET Rows, IndInv, DeleteRows(X)
  PROVE  CalmBut(None, {})
<1>1. AreRows(com') /\ AreRows(cur')
  BY TablesAreApart DEF IndInv, TypeOK, AreRows, DeleteRows
<1>2. writer' = writer /\ sharers' = sharers
  BY DEF DeleteRows
<1>3. \A x \in Rows : writer[x] # None => cur'[x] = cur[x] /\ com'[x] = com[x]
  BY DEF DeleteRows
<1>4. \A x \in Rows : com'[x] \in {com[x], None}
  BY DEF DeleteRows
<1>5. WritesKeep'
  BY <1>2, <1>3, TablesAreApart DEF IndInv, WritesKeep
<1>7. \A c \in Codes : Burnt(com[c]) => Burnt(com'[c])
  BY <1>4, TablesAreApart DEF Burnt
<1>8. \A t \in Requests : Consumed(com[t]) => Consumed(com'[t])
  BY <1>4, TablesAreApart DEF Consumed
<1>9. \A y \in Codes \cup Requests : com[y] = None => com'[y] = None
  BY <1>4, TablesAreApart
<1> QED
  BY <1>1, <1>2, <1>3, <1>5, <1>7, <1>8, <1>9 DEF CalmBut, IndInv, TypeOK

-----------------------------------------------------------------------------
(* A step of r, or of nobody, keeps what IndInv says of the others.        *)

\* What a calm step leaves of another request: its row, its lock, its hold.
LEMMA OthersFit ==
  ASSUME NEW r, NEW X, IndInv, CalmBut(r, X), OthersStand(r), OthersHoldNone(r, X),
         X \cap Requests \subseteq {r}, r \in Requests => pc[r] # "granted",
         NEW q \in Requests \ {r}
  PROVE  Unminted(q)' /\ RequestFits(q)'
<1>1. pc'[q] = pc[q] /\ asked'[q] = asked[q]
  BY DEF OthersStand
<1>2. Unminted(q)'
  BY <1>1 DEF IndInv, Unminted, CalmBut
<1>3. ASSUME pc[q] # "idle" PROVE RequestFits(q)'
  <2>1. StepFits(q) /\ CallFits(q) /\ HoldFits(q)
    BY <1>3 DEF IndInv, RequestFits
  <2>2. StepFits(q)'
    BY <2>1, <1>1 DEF StepFits
  <2>3. asked[q].of \in Requests /\ pc[asked[q].of] = "granted" => pc'[asked[q].of] = "granted"
    BY DEF OthersStand
  <2>4. CallFits(q)'
    BY <2>1, <2>3, <1>1 DEF CallFits
  <2>5. /\ HoldsCode(q)' = HoldsCode(q) /\ HoldsToken(q)' = HoldsToken(q)
        /\ Issues(q)' = Issues(q)
    BY <1>1 DEF HoldsCode, HoldsToken, Issues
  <2>6. ASSUME HoldsCode(q)
        PROVE  IF pc[q] = "x_spent" THEN writer'[asked[q].of] = q ELSE Burnt(com'[asked[q].of])
    <3>1. asked[q].of \in Codes /\ asked[q].of \notin X
      BY <2>1, <2>6, <1>3 DEF CallFits, HoldsCode, OthersHoldNone
    <3> QED
      BY <3>1, <2>1, <2>6, TablesAreApart, RequestsAreSome DEF HoldFits, CalmBut
  <2>7. ASSUME HoldsToken(q)
        PROVE  IF pc[q] = "granted" THEN Consumed(com'[asked[q].of])
               ELSE /\ writer'[asked[q].of] = q
                    /\ cur'[asked[q].of] \in TokenRow /\ cur'[asked[q].of].used
    <3>1. asked[q].of \in Requests /\ asked[q].of \notin X
      BY <2>1, <2>7, <1>3 DEF CallFits, HoldsToken, OthersHoldNone
    <3> QED
      BY <3>1, <2>1, <2>7, TablesAreApart, RequestsAreSome DEF HoldFits, CalmBut
  <2>8. ASSUME Issues(q)
        PROVE  com'[asked[q].of] = None /\ writer'[asked[q].of] = None
    <3>1. asked[q].of \in Codes /\ asked[q].of \notin X
      BY <2>1, <2>8, <1>3 DEF StepFits, CallFits, Issues, OthersHoldNone
    <3> QED
      BY <3>1, <2>1, <2>8 DEF HoldFits, CalmBut
  <2>9. HoldFits(q)'
    BY <2>5, <2>6, <2>7, <2>8, <1>1 DEF HoldFits, Burnt, Consumed
  <2> QED
    BY <2>2, <2>4, <2>9 DEF RequestFits
<1>4. pc[q] = "idle" => RequestFits(q)'
  BY <1>1 DEF RequestFits
<1> QED
  BY <1>2, <1>3, <1>4

\* Two requests that stand stay apart.
LEMMA OthersApart ==
  ASSUME NEW r, IndInv, OthersStand(r),
         NEW p \in Requests \ {r}, NEW q \in Requests \ {r}, p # q
  PROVE  Apart(p, q)'
<1>1. Apart(p, q)
  BY DEF IndInv
<1>2. pc'[p] = pc[p] /\ asked'[p] = asked[p] /\ pc'[q] = pc[q] /\ asked'[q] = asked[q]
  BY DEF OthersStand
<1> QED
  BY <1>1, <1>2 DEF Apart, HoldsCode, HoldsToken, Issues

\* A step of the clock or of the retention pass.
LEMMA PassiveStep ==
  ASSUME IndInv, CalmBut(None, {}), UNCHANGED locals, now' \in Nat
  PROVE  IndInv'
<1>1. OthersStand(None) /\ OthersHoldNone(None, {})
  BY DEF OthersStand, OthersHoldNone, locals
<1>2. TypeOK' /\ WritesKeep'
  BY DEF IndInv, TypeOK, CalmBut, locals
<1>3. \A q \in Requests : q \in Requests \ {None}
  BY RequestsAreSome
<1>4. \A q \in Requests : Unminted(q)' /\ RequestFits(q)'
  BY <1>1, <1>3, OthersFit, RequestsAreSome
<1>5. \A p, q \in Requests : p # q => Apart(p, q)'
  BY <1>1, <1>3, OthersApart
<1> QED
  BY <1>2, <1>4, <1>5 DEF IndInv

\* A step of request r: what is left to show is of r alone.
LEMMA ActiveStep ==
  ASSUME NEW r \in Requests, NEW X, NEW to \in (Steps \cup Outcomes) \ {"idle"}, IndInv,
         CalmBut(r, X), OthersHoldNone(r, X), X \cap Requests \subseteq {r},
         pc[r] # "granted", r \in X => to = "granted",
         pc' = [pc EXCEPT ![r] = to], asked' \in [Requests -> Call \cup {None}],
         \A q \in Requests \ {r} : asked'[q] = asked[q],
         LocalTypes', RequestFits(r)',
         \A q \in Requests \ {r} : Apart(q, r)' /\ Apart(r, q)'
  PROVE  IndInv'
<1>1. pc \in [Requests -> Steps \cup Outcomes]
  BY DEF IndInv, TypeOK
<1>2. pc' \in [Requests -> Steps \cup Outcomes] /\ pc'[r] = to /\ OthersStand(r)
  BY <1>1 DEF OthersStand
<1>3. TypeOK' /\ WritesKeep'
  BY <1>2 DEF TypeOK, CalmBut, LocalTypes
<1>4. Unminted(r)'
  BY <1>2 DEF IndInv, Unminted, CalmBut
<1>5. \A q \in Requests \ {r} : Unminted(q)' /\ RequestFits(q)'
  BY <1>2, OthersFit
<1>6. \A p, q \in Requests \ {r} : p # q => Apart(p, q)'
  BY <1>2, OthersApart
<1> QED
  BY <1>3, <1>4, <1>5, <1>6 DEF IndInv

\* A step of r that begins nothing, wins nothing and answers with nothing: r
\* goes on with what it has, or gives it up.
LEMMA PlainStep ==
  ASSUME NEW r \in Requests, NEW to \in (Steps \cup Outcomes) \ {"idle", "granted", "x_spent"},
         IndInv, pc[r] \notin {"idle", "granted"}, CalmBut(r, {}),
         pc' = [pc EXCEPT ![r] = to], asked' = asked, LocalTypes', StepFits(r)',
         to \in Redeeming =>
           pc[r] \in Redeeming /\ (pc[r] = "x_spent" => Burnt(com'[asked[r].of])),
         to \in Rotating =>
           /\ pc[r] \in Rotating
           /\ writer'[asked[r].of] = writer[asked[r].of] /\ cur'[asked[r].of] = cur[asked[r].of],
         to \in Issuing => pc[r] \in Issuing
  PROVE  IndInv'
<1>1. StepFits(r) /\ CallFits(r) /\ HoldFits(r)
  BY DEF IndInv, RequestFits
<1>2. pc'[r] = to /\ \A q \in Requests \ {r} : pc'[q] = pc[q]
  BY DEF IndInv, TypeOK
<1>3. CallFits(r)'
  BY <1>1, <1>2 DEF CallFits
<1>4. HoldsCode(r)' => HoldsCode(r) /\ to \in Redeeming
  BY <1>2 DEF HoldsCode
<1>5. HoldsToken(r)' => HoldsToken(r) /\ to \in Rotating
  BY <1>2 DEF HoldsToken
<1>6. Issues(r)' => Issues(r)
  BY <1>2 DEF Issues
<1>7. HoldsCode(r)' => Burnt(com'[asked[r].of])
  <2>1. HoldsCode(r) => asked[r].of \in Codes
    BY <1>1 DEF HoldsCode, CallFits
  <2> QED
    BY <2>1, <1>1, <1>4 DEF HoldFits, CalmBut
<1>8. HoldsToken(r)' =>
        writer'[asked[r].of] = r /\ cur'[asked[r].of] \in TokenRow /\ cur'[asked[r].of].used
  BY <1>1, <1>5 DEF HoldFits
<1>9. Issues(r)' => com'[asked[r].of] = None /\ writer'[asked[r].of] = None
  <2>1. Issues(r) => asked[r].of \in Codes
    BY <1>1 DEF Issues, StepFits, CallFits
  <2> QED
    BY <2>1, <1>1, <1>6 DEF HoldFits, CalmBut
<1>10. HoldFits(r)'
  BY <1>2, <1>7, <1>8, <1>9 DEF HoldFits, Burnt
<1>11. ASSUME NEW q \in Requests \ {r} PROVE Apart(q, r)' /\ Apart(r, q)'
  <2>1. Apart(q, r) /\ Apart(r, q)
    BY DEF IndInv
  <2>2. /\ HoldsCode(q)' = HoldsCode(q) /\ HoldsToken(q)' = HoldsToken(q)
        /\ Issues(q)' = Issues(q)
    BY <1>2 DEF HoldsCode, HoldsToken, Issues
  <2> QED
    BY <2>1, <2>2, <1>2, <1>4, <1>5, <1>6 DEF Apart
<1>12. asked' \in [Requests -> Call \cup {None}] /\ OthersHoldNone(r, {})
  BY DEF IndInv, TypeOK, OthersHoldNone
<1> QED
  BY <1>3, <1>10, <1>11, <1>12, ActiveStep DEF RequestFits

\* What a step leaves of the locals keeps its type.
LEMMA LocalsStand ==
  ASSUME IndInv, UNCHANGED <<now, family, todo, ended, told>>
  PROVE  LocalTypes'
  BY DEF IndInv, TypeOK, LocalTypes

\* A refusal gives up what r had.
LEMMA RefuseStep ==
  ASSUME NEW r \in Requests, NEW to \in Outcomes \ {"granted"}, IndInv,
         pc[r] \notin {"idle", "granted"}, Refuse(r, to)
  PROVE  IndInv'
<1>1. CalmBut(r, {}) /\ LocalTypes'
  BY CalmRollback, LocalsStand DEF Refuse
<1>2. pc' = [pc EXCEPT ![r] = to] /\ asked' = asked /\ pc'[r] = to
  BY DEF Refuse, Goto, IndInv, TypeOK
<1>3. /\ to \in (Steps \cup Outcomes) \ {"idle", "granted", "x_spent"}
      /\ to \notin Redeeming /\ to \notin Rotating /\ to \notin Issuing
  BY DEF Outcomes, Steps, Redeeming, Rotating, Issuing
<1>4. StepFits(r)'
  BY <1>2 DEF StepFits, Outcomes, Redeeming, Rotating, Issuing
<1> QED
  BY <1>1, <1>2, <1>3, <1>4, PlainStep

\* A read leads from a step of a handler to a later one.
LEMMA ReadStep ==
  ASSUME NEW r \in Requests, NEW to \in Steps \ {"idle", "x_spent"}, IndInv,
         pc[r] \notin {"idle", "granted"}, Read(r, to), StepFits(r)',
         to \in Redeeming => pc[r] \in Redeeming \ {"x_spent"},
         to \in Rotating => pc[r] \in Rotating,
         to \in Issuing => pc[r] \in Issuing
  PROVE  IndInv'
<1>1. CalmBut(r, {}) /\ LocalTypes'
  BY CalmUnchanged, LocalsStand DEF Read
<1>2. pc' = [pc EXCEPT ![r] = to] /\ asked' = asked /\ writer' = writer /\ cur' = cur
  BY DEF Read, Goto, storage
<1>3. to \in (Steps \cup Outcomes) \ {"idle", "granted", "x_spent"}
  BY DEF Steps
<1> QED
  BY <1>1, <1>2, <1>3, PlainStep

-----------------------------------------------------------------------------
(* The steps of the handlers that win nothing.                             *)

USE DEF Steps, Outcomes, Redeeming, Rotating, Issuing

\* What IndInv says of a request that is being served.
LEMMA Served ==
  ASSUME NEW r \in Requests, IndInv, pc[r] # "idle"
  PROVE  /\ StepFits(r) /\ CallFits(r) /\ HoldFits(r)
         /\ \A to : (pc' = [pc EXCEPT ![r] = to]) => pc'[r] = to
  BY DEF IndInv, RequestFits, TypeOK

\* begin_authorization and answer_consent, up to the code.
LEMMA FindSessionKeeps ==
  ASSUME NEW r \in Requests, IndInv, FindSession(r)
  PROVE  IndInv'
<1>1. CASE Read(r, "a_consent")
  <2>1. StepFits(r)'
    BY <1>1, Served DEF FindSession, Read, Goto, StepFits
  <2> QED
    BY <1>1, <2>1, ReadStep DEF FindSession
<1>2. CASE Refuse(r, "refused")
  BY <1>2, RefuseStep DEF FindSession
<1> QED
  BY <1>1, <1>2 DEF FindSession

\* The consent is read, or what the person allowed joins it.
LEMMA SettleConsentKeeps ==
  ASSUME NEW r \in Requests, IndInv, SettleConsent(r)
  PROVE  IndInv'
<1> DEFINE g == asked[r].grant
           x == ConsentOf(g)
           v == IF com[x] = None THEN g.scopes ELSE com[x] \cup g.scopes
<1>1. pc[r] = "a_consent"
  BY DEF SettleConsent
<1>2. CASE Refuse(r, "refused")
  BY <1>1, <1>2, RefuseStep
<1>3. CASE Read(r, "a_issue")
  <2>1. StepFits(r)'
    BY <1>1, <1>3, Served DEF Read, Goto, StepFits
  <2> QED
    BY <1>1, <1>3, <2>1, ReadStep
<1>4. CASE Update(r, "a_issue", x, v)
  <2>1. g \in Grant
    BY <1>1, Served DEF StepFits, CallFits
  <2>2. x \in Consents
    BY <2>1, GrantAssumption DEF Grant, ConsentOf, Consents
  <2>3. v \in (SUBSET Scopes) \cup {None}
    BY <2>1, <2>2 DEF Grant, IndInv, TypeOK, AreRows
  <2>4. CalmBut(r, {})
    <3> HIDE DEF x, v
    <3> QED
      BY <1>4, <2>2, <2>3, TablesAreApart, CalmWrite DEF Update
  <2>5. LocalTypes' /\ pc' = [pc EXCEPT ![r] = "a_issue"] /\ asked' = asked
    BY <1>4, LocalsStand DEF Update, Goto
  <2>6. StepFits(r)'
    BY <1>1, <2>5, Served DEF StepFits
  <2> QED
    BY <1>1, <2>4, <2>5, <2>6, PlainStep
<1> QED
  BY <1>2, <1>3, <1>4 DEF SettleConsent

\* From here on the code reads spent, and its lock is not needed.
LEMMA CommitSpentCodeKeeps ==
  ASSUME NEW r \in Requests, IndInv, CommitSpentCode(r)
  PROVE  IndInv'
<1>1. pc[r] = "x_spent" /\ asked' = asked /\ Commit(r)
  BY DEF CommitSpentCode
<1>2. CalmBut(r, {}) /\ LocalTypes'
  BY CalmCommit, LocalsStand DEF CommitSpentCode
<1>3. PICK to \in {"x_subject", "refused"} : pc' = [pc EXCEPT ![r] = to]
  BY DEF CommitSpentCode, Goto
<1>4. Burnt(com'[asked[r].of])
  <2>1. asked[r].of \in Codes /\ writer[asked[r].of] = r
    BY <1>1, Served DEF StepFits, CallFits, HoldFits, HoldsCode
  <2>2. com'[asked[r].of] = cur[asked[r].of] /\ cur[asked[r].of].spent
    BY <1>1, <2>1, TablesAreApart, RequestsAreSome DEF Commit, IndInv, WritesKeep
  <2> QED
    BY <2>2 DEF Burnt
<1>5. StepFits(r)'
  BY <1>1, <1>3, Served DEF StepFits
<1> QED
  BY <1>1, <1>2, <1>3, <1>4, <1>5, PlainStep

\* The second unit of work of exchange_code, up to the answer.
LEMMA ReadCodeSubjectKeeps ==
  ASSUME NEW r \in Requests, IndInv, ReadCodeSubject(r)
  PROVE  IndInv'
<1>1. CASE Read(r, "x_consent")
  <2>1. StepFits(r)'
    BY <1>1, Served DEF ReadCodeSubject, Read, Goto, StepFits
  <2> QED
    BY <1>1, <2>1, ReadStep DEF ReadCodeSubject
<1>2. CASE Refuse(r, "refused")
  BY <1>2, RefuseStep DEF ReadCodeSubject
<1> QED
  BY <1>1, <1>2 DEF ReadCodeSubject

\* A consent held FOR SHARE writes no row.
LEMMA HoldConsentKeeps ==
  ASSUME NEW r \in Requests, IndInv, HoldConsent(r)
  PROVE  IndInv'
<1> DEFINE g == asked[r].grant
           x == ConsentOf(g)
<1>1. pc[r] = "x_consent"
  BY DEF HoldConsent
<1>2. CASE Refuse(r, "refused")
  BY <1>1, <1>2, RefuseStep
<1>3. CASE Read(r, "x_bind")
  <2>1. StepFits(r)'
    BY <1>1, <1>3, Served DEF Read, Goto, StepFits
  <2> QED
    BY <1>1, <1>3, <2>1, ReadStep
<1>4. CASE /\ Goto(r, "x_bind") /\ HoldRow(r, x)
           /\ UNCHANGED <<now, asked, family, todo, ended, told>>
  <2>1. x \in Rows
    BY <1>1, Served, GrantAssumption, TablesAreApart DEF CallFits, Grant, ConsentOf, Consents
  <2>2. CalmBut(r, {}) /\ LocalTypes'
    <3> HIDE DEF x
    <3> QED
      BY <1>4, <2>1, CalmHold, LocalsStand
  <2>3. StepFits(r)'
    BY <1>1, <1>4, Served DEF Goto, StepFits
  <2> QED
    BY <1>1, <1>4, <2>2, <2>3, PlainStep DEF Goto
<1> QED
  BY <1>2, <1>3, <1>4 DEF HoldConsent

\* Binding the family keeps the code spent.
LEMMA BindCodeFamilyKeeps ==
  ASSUME NEW r \in Requests, IndInv, BindCodeFamily(r)
  PROVE  IndInv'
<1> DEFINE c == asked[r].of
           v == [com[c] EXCEPT !.family = r]
<1>1. pc[r] = "x_bind"
  BY DEF BindCodeFamily
<1>2. CASE Refuse(r, "refused")
  BY <1>1, <1>2, RefuseStep
<1>3. CASE /\ com[c] # None /\ com[c].spent
           /\ Goto(r, "x_answer") /\ WriteRow(r, c, v)
           /\ family' = [family EXCEPT ![r] = r]
           /\ UNCHANGED <<now, asked, todo, ended, told>>
  <2>1. c \in Codes
    BY <1>1, Served DEF StepFits, CallFits
  <2>2. com[c] \in CodeRow
    BY <1>3, <2>1 DEF IndInv, TypeOK, AreRows
  <2>3. v \in CodeRow /\ v.spent
    BY <1>3, <2>2 DEF CodeRow
  <2>4. CalmBut(r, {})
    <3> HIDE DEF c, v
    <3> QED
      BY <1>3, <2>1, <2>3, TablesAreApart, CalmWrite
  <2>5. LocalTypes'
    BY <1>3 DEF IndInv, TypeOK, LocalTypes
  <2>6. StepFits(r)'
    BY <1>1, <1>3, Served DEF Goto, StepFits
  <2> QED
    BY <1>1, <1>3, <2>4, <2>5, <2>6, PlainStep DEF Goto
<1> QED
  BY <1>2, <1>3 DEF BindCodeFamily

\* Marking a code replayed keeps it spent.
LEMMA MarkCodeReplayedKeeps ==
  ASSUME NEW r \in Requests, IndInv, MarkCodeReplayed(r)
  PROVE  IndInv'
<1> DEFINE c == asked[r].of
           v == [com[c] EXCEPT !.replayed = TRUE]
<1>1. pc[r] = "x_mark"
  BY DEF MarkCodeReplayed
<1>2. CASE Refuse(r, "refused")
  BY <1>1, <1>2, RefuseStep
<1>3. CASE /\ com[c] # None /\ com[c].spent
           /\ Goto(r, IF com[c].family = None THEN "t_rows" ELSE "t_start")
           /\ WriteRow(r, c, v)
           /\ family' = [family EXCEPT ![r] = com[c].family]
           /\ UNCHANGED <<now, asked, todo, ended, told>>
  <2>1. c \in Codes
    BY <1>1, Served DEF StepFits, CallFits
  <2>2. com[c] \in CodeRow
    BY <1>3, <2>1 DEF IndInv, TypeOK, AreRows
  <2>3. v \in CodeRow /\ v.spent
    BY <1>3, <2>2 DEF CodeRow
  <2>4. CalmBut(r, {})
    <3> HIDE DEF c, v
    <3> QED
      BY <1>3, <2>1, <2>3, TablesAreApart, CalmWrite
  <2>5. LocalTypes'
    BY <1>3, <2>2 DEF IndInv, TypeOK, LocalTypes, CodeRow
  <2>6. PICK to \in {"t_rows", "t_start"} : pc' = [pc EXCEPT ![r] = to]
    BY <1>3 DEF Goto
  <2>7. StepFits(r)'
    BY <1>1, <2>6, Served DEF StepFits
  <2> QED
    BY <1>1, <1>3, <2>4, <2>5, <2>6, <2>7, PlainStep
<1> QED
  BY <1>2, <1>3 DEF MarkCodeReplayed

\* rotate_refresh_token, up to the lock of the token.
LEMMA SpendRefreshTokenKeeps ==
  ASSUME NEW r \in Requests, IndInv, SpendRefreshToken(r)
  PROVE  IndInv'
<1>1. PICK to \in {"r_lock", "r_read"} : Read(r, to)
  BY DEF SpendRefreshToken
<1>2. StepFits(r)'
  BY <1>1, Served DEF SpendRefreshToken, Read, Goto, StepFits
<1> QED
  BY <1>1, <1>2, ReadStep DEF SpendRefreshToken

\* A rotation refused after it marked its token gives the token back.
LEMMA ReadTokenSubjectKeeps ==
  ASSUME NEW r \in Requests, IndInv, ReadTokenSubject(r)
  PROVE  IndInv'
<1>1. CASE Read(r, "r_answer")
  <2>1. StepFits(r)'
    BY <1>1, Served DEF ReadTokenSubject, Read, Goto, StepFits
  <2> QED
    BY <1>1, <2>1, ReadStep DEF ReadTokenSubject
<1>2. CASE Refuse(r, "refused")
  BY <1>2, RefuseStep DEF ReadTokenSubject
<1> QED
  BY <1>1, <1>2 DEF ReadTokenSubject

\* A reused token starts a taking back.
LEMMA ReadReplayedTokenKeeps ==
  ASSUME NEW r \in Requests, IndInv, ReadReplayedToken(r)
  PROVE  IndInv'
<1> DEFINE row == com[asked[r].of]
<1>1. pc[r] = "r_read"
  BY DEF ReadReplayedToken
<1>2. CASE Refuse(r, "refused")
  BY <1>1, <1>2, RefuseStep
<1>3. CASE /\ row # None /\ Goto(r, "t_start")
           /\ family' = [family EXCEPT ![r] = row.family]
           /\ UNCHANGED <<storage, now, asked, todo, ended, told>>
  <2>1. row \in TokenRow
    BY <1>1, <1>3, Served DEF StepFits, CallFits, IndInv, TypeOK, AreRows
  <2>2. LocalTypes'
    BY <1>3, <2>1 DEF IndInv, TypeOK, LocalTypes, TokenRow
  <2>3. StepFits(r)'
    BY <1>1, <1>3, Served DEF Goto, StepFits
  <2> QED
    BY <1>1, <1>3, <2>2, <2>3, CalmUnchanged, PlainStep DEF Goto
<1> QED
  BY <1>2, <1>3 DEF ReadReplayedToken

\* revoke_token starts one too.
LEMMA RevokeTokenKeeps ==
  ASSUME NEW r \in Requests, IndInv, RevokeToken(r)
  PROVE  IndInv'
<1> DEFINE row == com[asked[r].of]
<1>1. pc[r] = "v_read"
  BY DEF RevokeToken
<1>2. CASE Refuse(r, "over")
  BY <1>1, <1>2, RefuseStep
<1>3. CASE /\ row # None /\ Goto(r, "t_start")
           /\ family' = [family EXCEPT ![r] = row.family]
           /\ UNCHANGED <<storage, now, asked, todo, ended, told>>
  <2>1. row \in TokenRow
    BY <1>1, <1>3, Served DEF StepFits, CallFits, IndInv, TypeOK, AreRows
  <2>2. LocalTypes'
    BY <1>3, <2>1 DEF IndInv, TypeOK, LocalTypes, TokenRow
  <2>3. StepFits(r)'
    BY <1>1, <1>3, Served DEF Goto, StepFits
  <2> QED
    BY <1>1, <1>3, <2>2, <2>3, CalmUnchanged, PlainStep DEF Goto
<1> QED
  BY <1>2, <1>3 DEF RevokeToken

\* confirm_logout.
LEMMA FindLiveSessionKeeps ==
  ASSUME NEW r \in Requests, IndInv, FindLiveSession(r)
  PROVE  IndInv'
<1>1. CASE Read(r, "l_end")
  <2>1. StepFits(r)'
    BY <1>1, Served DEF FindLiveSession, Read, Goto, StepFits
  <2> QED
    BY <1>1, <2>1, ReadStep DEF FindLiveSession
<1>2. CASE Refuse(r, "over")
  BY <1>2, RefuseStep DEF FindLiveSession
<1> QED
  BY <1>1, <1>2 DEF FindLiveSession

\* Ending a session writes no code and no token.
LEMMA EndSessionKeeps ==
  ASSUME NEW r \in Requests, IndInv, EndSession(r)
  PROVE  IndInv'
<1> DEFINE s == asked[r].of
           v == [com[s] EXCEPT !.state = "ended"]
<1>1. pc[r] = "l_end"
  BY DEF EndSession
<1>2. CASE Refuse(r, "over")
  BY <1>1, <1>2, RefuseStep
<1>3. CASE com[s] # None /\ Update(r, "t_start", s, v)
  <2>1. s \in Sessions
    BY <1>1, Served DEF StepFits, CallFits
  <2>2. v \in SessionRow
    BY <1>3, <2>1 DEF IndInv, TypeOK, AreRows, SessionRow
  <2>3. CalmBut(r, {})
    <3> HIDE DEF s, v
    <3> QED
      BY <1>3, <2>1, <2>2, TablesAreApart, CalmWrite DEF Update
  <2>4. LocalTypes' /\ pc' = [pc EXCEPT ![r] = "t_start"] /\ asked' = asked
    BY <1>3, LocalsStand DEF Update, Goto
  <2>5. StepFits(r)'
    BY <1>1, <2>4, Served DEF StepFits
  <2> QED
    BY <1>1, <2>3, <2>4, <2>5, PlainStep
<1> QED
  BY <1>2, <1>3 DEF EndSession

\* withdraw_consent.
LEMMA DeleteConsentKeeps ==
  ASSUME NEW r \in Requests, IndInv, DeleteConsent(r)
  PROVE  IndInv'
<1> DEFINE x == asked[r].of
<1>1. pc[r] = "w_delete"
  BY DEF DeleteConsent
<1>2. CASE Refuse(r, "refused")
  BY <1>1, <1>2, RefuseStep
<1>3. CASE Update(r, "t_start", x, None)
  <2>1. x \in Consents
    BY <1>1, Served DEF StepFits, CallFits
  <2>2. CalmBut(r, {})
    <3> HIDE DEF x
    <3> QED
      BY <1>3, <2>1, TablesAreApart, CalmWrite DEF Update
  <2>3. LocalTypes' /\ pc' = [pc EXCEPT ![r] = "t_start"] /\ asked' = asked
    BY <1>3, LocalsStand DEF Update, Goto
  <2>4. StepFits(r)'
    BY <1>1, <2>3, Served DEF StepFits
  <2> QED
    BY <1>1, <2>2, <2>3, <2>4, PlainStep
<1> QED
  BY <1>2, <1>3 DEF DeleteConsent

\* The statement that revokes chooses its rows.
LEMMA FindTokensKeeps ==
  ASSUME NEW r \in Requests, IndInv, FindTokens(r)
  PROVE  IndInv'
<1>1. /\ pc[r] = "t_start" /\ pc' = [pc EXCEPT ![r] = "t_rows"] /\ asked' = asked
      /\ UNCHANGED storage
  BY DEF FindTokens, Goto
<1>2. LocalTypes'
  BY DEF FindTokens, IndInv, TypeOK, LocalTypes
<1>3. StepFits(r)'
  BY <1>1, Served DEF StepFits
<1> QED
  BY <1>1, <1>2, <1>3, CalmUnchanged, PlainStep

\* A revoked token keeps its mark of use.
LEMMA RevokeRowKeeps ==
  ASSUME NEW r \in Requests, IndInv, RevokeRow(r)
  PROVE  IndInv'
<1>1. PICK t \in todo[r] :
        /\ todo' = [todo EXCEPT ![r] = @ \ {t}]
        /\ IF com[t] # None /\ ~com[t].revoked
           THEN /\ WriteRow(r, t, [com[t] EXCEPT !.revoked = TRUE])
                /\ ended' = [ended EXCEPT ![r] = @ \cup {t}]
           ELSE UNCHANGED <<storage, ended>>
        /\ UNCHANGED <<now, pc, asked, family, told>>
  BY DEF RevokeRow
<1>2. t \in Requests
  BY DEF IndInv, TypeOK
<1>3. LocalTypes'
  BY <1>1, <1>2 DEF IndInv, TypeOK, LocalTypes
<1>4. CalmBut(r, {})
  <2>1. CASE UNCHANGED storage
    BY <2>1, CalmUnchanged
  <2>2. CASE com[t] # None /\ WriteRow(r, t, [com[t] EXCEPT !.revoked = TRUE])
    <3> DEFINE v == [com[t] EXCEPT !.revoked = TRUE]
    <3>1. com[t] \in TokenRow
      BY <1>2, <2>2 DEF IndInv, TypeOK, AreRows
    <3>2. v \in TokenRow /\ v.used = com[t].used
      BY <3>1 DEF TokenRow
    <3>3. WriteRow(r, t, v)
      BY <2>2
    <3> HIDE DEF v
    <3> QED
      BY <1>2, <2>2, <3>2, <3>3, TablesAreApart, CalmWrite
  <2> QED
    BY <1>1, <2>1, <2>2
<1>5. pc[r] = "t_rows" /\ pc' = [pc EXCEPT ![r] = "t_rows"] /\ asked' = asked
  BY <1>1 DEF RevokeRow, IndInv, TypeOK
<1>6. StepFits(r)'
  BY <1>5, Served DEF StepFits
<1> QED
  BY <1>3, <1>4, <1>5, <1>6, PlainStep

\* What was taken back is committed.
LEMMA CommitTakeBackKeeps ==
  ASSUME NEW r \in Requests, IndInv, CommitTakeBack(r)
  PROVE  IndInv'
<1>1. pc[r] = "t_rows" /\ Commit(r) /\ asked' = asked
  BY DEF CommitTakeBack
<1>2. PICK to \in {"refused", "over"} : pc' = [pc EXCEPT ![r] = to]
  BY DEF CommitTakeBack, Goto
<1>3. told' \in [Requests -> Event \cup {None}]
  <2>1. [kind |-> EventOf(asked[r].op), family |-> family[r]] \in Event
    BY DEF EventOf, Event, IndInv, TypeOK
  <2> QED
    BY <2>1 DEF CommitTakeBack, Tells, IndInv, TypeOK
<1>4. LocalTypes'
  BY <1>3 DEF CommitTakeBack, IndInv, TypeOK, LocalTypes
<1>5. StepFits(r)'
  BY <1>1, <1>2, Served DEF StepFits
<1> QED
  BY <1>1, <1>2, <1>4, <1>5, CalmCommit, PlainStep

\* A request that fails gives up its locks, and what it committed stays.
LEMMA FailKeeps ==
  ASSUME NEW r \in Requests, IndInv, Fail(r)
  PROVE  IndInv'
<1>1. pc[r] \notin {"idle", "granted"} /\ pc' = [pc EXCEPT ![r] = "failed"] /\ asked' = asked
  BY DEF Fail, IsServed
<1>2. CalmBut(r, {})
  BY CalmRollback DEF Fail
<1>3. LocalTypes'
  BY DEF Fail, IndInv, TypeOK, LocalTypes
<1>4. StepFits(r)'
  BY <1>1, Served DEF StepFits
<1> QED
  BY <1>1, <1>2, <1>3, <1>4, PlainStep

-----------------------------------------------------------------------------
(* The steps that begin, win and answer.                                   *)

\* What a request asks is a call.
LEMMA NewCallIsCall ==
  ASSUME IndInv, NEW op \in Kinds, NEW k \in Clients \cup {None}, NEW of \in Rows,
         NEW grant \in Grant \cup {None}, NEW fits \in BOOLEAN, NEW dead \in BOOLEAN
  PROVE  NewCall(op, k, of, grant, fits, dead) \in Call
  BY DEF IndInv, TypeOK, NewCall, Call

\* A request that begins holds nothing; a code it would issue is one nobody asked for.
LEMMA BeginStep ==
  ASSUME NEW r \in Requests, NEW call \in Call,
         NEW first \in {"a_session", "x_spend", "r_spend", "v_read", "l_read", "w_delete"},
         IndInv, Begin(r, first, call),
         first = "a_session" =>
           /\ call.op \in {"authorize", "allow"} /\ call.of \in Codes /\ call.grant \in Grant
           /\ com[call.of] = None
           /\ \A q \in Requests : pc[q] # "idle" => asked[q].of # call.of,
         first = "x_spend" => call.op = "exchange" /\ call.of \in Codes,
         first = "r_spend" =>
           call.op = "rotate" /\ call.of \in Requests /\ pc[call.of] = "granted",
         first = "v_read" =>
           call.op = "revoke" /\ call.of \in Requests /\ pc[call.of] = "granted",
         first = "l_read" => call.op = "logout" /\ call.of \in Sessions,
         first = "w_delete" => call.op = "withdraw" /\ call.of \in Consents
  PROVE  IndInv'
<1>1. pc[r] = "idle" /\ pc' = [pc EXCEPT ![r] = first] /\ asked' = [asked EXCEPT ![r] = call]
      /\ UNCHANGED storage
  BY DEF Begin, Goto
<1>2. /\ pc'[r] = first /\ asked'[r] = call
      /\ \A q \in Requests \ {r} : pc'[q] = pc[q] /\ asked'[q] = asked[q]
      /\ asked' \in [Requests -> Call \cup {None}]
  BY <1>1 DEF IndInv, TypeOK
<1>3. CalmBut(r, {}) /\ LocalTypes' /\ OthersHoldNone(r, {})
  BY <1>1, CalmUnchanged, LocalsStand DEF Begin, OthersHoldNone
<1>4. StepFits(r)'
  BY <1>2 DEF StepFits
<1>5. CallFits(r)'
  BY <1>1, <1>2 DEF CallFits
<1>6. ~HoldsCode(r)' /\ ~HoldsToken(r)' /\ (Issues(r)' => first = "a_session")
  BY <1>2 DEF HoldsCode, HoldsToken, Issues
<1>7. HoldFits(r)'
  <2>1. first = "a_session" => com[call.of] = None /\ writer[call.of] = None
    BY DEF IndInv, WritesKeep
  <2>2. com' = com /\ writer' = writer
    BY <1>1 DEF storage
  <2> QED
    BY <2>1, <2>2, <1>2, <1>6 DEF HoldFits
<1>8. \A q \in Requests \ {r} : Apart(q, r)' /\ Apart(r, q)'
  BY <1>2, <1>6 DEF Apart
<1> QED
  BY <1>1, <1>2, <1>3, <1>4, <1>5, <1>7, <1>8, ActiveStep DEF RequestFits

\* The six ways a request begins.
LEMMA StartKeeps ==
  ASSUME NEW r \in Requests, IndInv, Start(r)
  PROVE  IndInv'
<1>1. CASE BeginAuthorize(r)
  <2>1. PICK op \in {"authorize", "allow"}, c \in Codes, g \in Grant :
          /\ com[c] = None
          /\ \A q \in Requests : pc[q] # "idle" => asked[q].of # c
          /\ Begin(r, "a_session", NewCall(op, None, c, g, TRUE, FALSE))
    BY <1>1 DEF BeginAuthorize
  <2> DEFINE call == NewCall(op, None, c, g, TRUE, FALSE)
  <2>2. call \in Call /\ call.op = op /\ call.of = c /\ call.grant = g
    BY TablesAreApart, NewCallIsCall DEF Kinds, NewCall
  <2> HIDE DEF call
  <2> QED
    BY <2>1, <2>2, BeginStep DEF call
<1>2. CASE BeginExchange(r)
  <2>1. PICK c \in Codes, k \in Clients, fits \in BOOLEAN :
          Begin(r, "x_spend", NewCall("exchange", k, c, None, fits, IsDeadCode(c)))
    BY <1>2 DEF BeginExchange
  <2> DEFINE call == NewCall("exchange", k, c, None, fits, IsDeadCode(c))
  <2>2. IsDeadCode(c) \in BOOLEAN
    BY DEF IsDeadCode
  <2>3. call \in Call /\ call.op = "exchange" /\ call.of = c
    BY <2>2, TablesAreApart, NewCallIsCall DEF Kinds, NewCall
  <2>4. Begin(r, "x_spend", call)
    BY <2>1
  <2> HIDE DEF call
  <2> QED
    BY <2>3, <2>4, BeginStep
<1>3. CASE BeginRotate(r)
  <2>1. PICK t \in Requests, k \in Clients, fits \in BOOLEAN :
          /\ pc[t] = "granted"
          /\ Begin(r, "r_spend", NewCall("rotate", k, t, None, fits,
                                         ~Spendable(t) \/ com[t].client # k))
    BY <1>3 DEF BeginRotate
  <2> DEFINE call == NewCall("rotate", k, t, None, fits, ~Spendable(t) \/ com[t].client # k)
  <2>2. call \in Call /\ call.op = "rotate" /\ call.of = t
    BY TablesAreApart, NewCallIsCall DEF Kinds, NewCall
  <2>3. Begin(r, "r_spend", call)
    BY <2>1
  <2> HIDE DEF call
  <2> QED
    BY <2>1, <2>2, <2>3, BeginStep
<1>4. CASE BeginRevoke(r)
  <2>1. PICK t \in Requests, k \in Clients :
          /\ pc[t] = "granted"
          /\ Begin(r, "v_read", NewCall("revoke", k, t, None, TRUE, FALSE))
    BY <1>4 DEF BeginRevoke
  <2> DEFINE call == NewCall("revoke", k, t, None, TRUE, FALSE)
  <2>2. call \in Call /\ call.op = "revoke" /\ call.of = t
    BY TablesAreApart, NewCallIsCall DEF Kinds, NewCall
  <2>3. Begin(r, "v_read", call)
    BY <2>1
  <2> HIDE DEF call
  <2> QED
    BY <2>1, <2>2, <2>3, BeginStep
<1>5. CASE BeginLogout(r)
  <2>1. PICK s \in Sessions : Begin(r, "l_read", NewCall("logout", None, s, None, TRUE, FALSE))
    BY <1>5 DEF BeginLogout
  <2> DEFINE call == NewCall("logout", None, s, None, TRUE, FALSE)
  <2>2. call \in Call /\ call.op = "logout" /\ call.of = s
    BY TablesAreApart, NewCallIsCall DEF Kinds, NewCall
  <2>3. Begin(r, "l_read", call)
    BY <2>1
  <2> HIDE DEF call
  <2> QED
    BY <2>2, <2>3, BeginStep
<1>6. CASE BeginWithdraw(r)
  <2>1. PICK x \in Consents :
          Begin(r, "w_delete", NewCall("withdraw", None, x, None, TRUE, FALSE))
    BY <1>6 DEF BeginWithdraw
  <2> DEFINE call == NewCall("withdraw", None, x, None, TRUE, FALSE)
  <2>2. call \in Call /\ call.op = "withdraw" /\ call.of = x
    BY TablesAreApart, NewCallIsCall DEF Kinds, NewCall
  <2>3. Begin(r, "w_delete", call)
    BY <2>1
  <2> HIDE DEF call
  <2> QED
    BY <2>2, <2>3, BeginStep
<1> QED
  BY <1>1, <1>2, <1>3, <1>4, <1>5, <1>6 DEF Start

\* The winner of a code finds it unspent, so that nobody holds it.
LEMMA SpendAuthorizationCodeKeeps ==
  ASSUME NEW r \in Requests, IndInv, SpendAuthorizationCode(r)
  PROVE  IndInv'
<1> DEFINE c == asked[r].of
           v == [com[c] EXCEPT !.spent = TRUE]
<1>1. pc[r] = "x_spend"
  BY DEF SpendAuthorizationCode
<1>2. /\ asked[r] \in Call /\ asked[r].op = "exchange" /\ c \in Codes
  BY <1>1, Served DEF StepFits, CallFits
<1>3. CASE Read(r, "x_mark")
  <2>1. StepFits(r)'
    BY <1>1, <1>3, Served DEF Read, Goto, StepFits
  <2> QED
    BY <1>1, <1>3, <2>1, ReadStep
<1>4. CASE /\ com[c] # None /\ ~com[c].spent
           /\ Goto(r, "x_spent") /\ WriteRow(r, c, v)
           /\ asked' = [asked EXCEPT ![r].grant = GrantOf(com[c])]
           /\ UNCHANGED <<now, family, todo, ended, told>>
  <2>1. com[c] \in CodeRow /\ GrantOf(com[c]) \in Grant
    BY <1>2, <1>4 DEF IndInv, TypeOK, AreRows, CodeRow, GrantOf, Grant
  <2>2. v \in CodeRow /\ v.spent
    BY <2>1 DEF CodeRow
  <2>3. CalmBut(r, {}) /\ LocalTypes'
    <3> HIDE DEF c, v
    <3> QED
      BY <1>2, <1>4, <2>2, TablesAreApart, CalmWrite, LocalsStand
  <2>4. /\ pc' = [pc EXCEPT ![r] = "x_spent"] /\ pc'[r] = "x_spent"
        /\ \A q \in Requests \ {r} : pc'[q] = pc[q] /\ asked'[q] = asked[q]
    BY <1>4 DEF Goto, IndInv, TypeOK
  <2>5. /\ asked'[r] \in Call /\ asked'[r].op = "exchange" /\ asked'[r].of = c
        /\ asked'[r].grant \in Grant
    BY <1>2, <1>4, <2>1 DEF IndInv, TypeOK, Call
  <2>6. asked' \in [Requests -> Call \cup {None}]
    BY <1>4, <2>4, <2>5 DEF IndInv, TypeOK
  <2>7. StepFits(r)' /\ CallFits(r)'
    BY <1>2, <2>4, <2>5 DEF StepFits, CallFits
  <2>8. writer'[c] = r /\ writer[c] \in {r, None}
    BY <1>2, <1>4, TablesAreApart DEF WriteRow, MayWrite, IndInv, TypeOK
  <2>9. HoldFits(r)'
    BY <2>4, <2>5, <2>8 DEF HoldFits, HoldsToken, Issues
  <2>10. ASSUME NEW q \in Requests \ {r} PROVE Apart(q, r)' /\ Apart(r, q)'
    <3>1. ASSUME pc[q] # "idle", asked[q].of = c PROVE ~HoldsCode(q) /\ ~Issues(q)
      <4>1. HoldFits(q)
        BY <3>1 DEF IndInv, RequestFits
      <4> QED
        BY <4>1, <3>1, <1>4, <2>8, RequestsAreSome DEF HoldFits, Burnt
    <3>2. /\ HoldsCode(q)' = HoldsCode(q) /\ Issues(q)' = Issues(q)
          /\ ~HoldsToken(r)' /\ ~Issues(r)'
      BY <2>4, <2>5 DEF HoldsCode, HoldsToken, Issues
    <3> QED
      BY <3>1, <3>2, <2>4, <2>5 DEF Apart
  <2> QED
    BY <1>1, <2>3, <2>4, <2>6, <2>7, <2>9, <2>10, ActiveStep DEF RequestFits, OthersHoldNone
<1> QED
  BY <1>3, <1>4 DEF SpendAuthorizationCode

\* The winner of a token finds it unused under its lock, so that nobody holds it.
LEMMA LockRefreshTokenKeeps ==
  ASSUME NEW r \in Requests, IndInv, LockRefreshToken(r)
  PROVE  IndInv'
<1> DEFINE t == asked[r].of
           v == [com[t] EXCEPT !.used = TRUE]
<1>1. pc[r] = "r_lock"
  BY DEF LockRefreshToken
<1>2. /\ asked[r] \in Call /\ asked[r].op = "rotate"
      /\ t \in Requests /\ pc[t] = "granted"
  BY <1>1, Served DEF StepFits, CallFits
<1>3. CASE Read(r, "r_read")
  <2>1. StepFits(r)'
    BY <1>1, <1>3, Served DEF Read, Goto, StepFits
  <2> QED
    BY <1>1, <1>3, <2>1, ReadStep
<1>4. CASE com[t] # None /\ ~com[t].used /\ Update(r, "r_subject", t, v)
  <2>1. com[t] \in TokenRow
    BY <1>2, <1>4 DEF IndInv, TypeOK, AreRows
  <2>2. v \in TokenRow /\ v.used
    BY <2>1 DEF TokenRow
  <2>3. CalmBut(r, {}) /\ LocalTypes'
    <3> HIDE DEF t, v
    <3> QED
      BY <1>2, <1>4, <2>2, TablesAreApart, CalmWrite, LocalsStand DEF Update
  <2>4. /\ pc' = [pc EXCEPT ![r] = "r_subject"] /\ pc'[r] = "r_subject" /\ asked' = asked
        /\ \A q \in Requests \ {r} : pc'[q] = pc[q]
    BY <1>4 DEF Update, Goto, IndInv, TypeOK
  <2>5. StepFits(r)' /\ CallFits(r)'
    BY <1>1, <1>2, <2>4, Served DEF StepFits, CallFits
  <2>6. writer'[t] = r /\ cur'[t] = v /\ writer[t] \in {r, None}
    BY <1>2, <1>4, TablesAreApart DEF Update, WriteRow, MayWrite, IndInv, TypeOK, AreRows
  <2>7. HoldFits(r)'
    <3> HIDE DEF v
    <3> QED
      BY <1>2, <2>2, <2>4, <2>6 DEF HoldFits, HoldsCode, HoldsToken, Issues
  <2>8. ASSUME NEW q \in Requests \ {r} PROVE Apart(q, r)' /\ Apart(r, q)'
    <3>1. ASSUME pc[q] # "idle", asked[q].of = t PROVE ~HoldsToken(q)
      <4>1. HoldFits(q)
        BY <3>1 DEF IndInv, RequestFits
      <4> QED
        BY <4>1, <3>1, <1>4, <2>6, RequestsAreSome DEF HoldFits, Consumed
    <3>2. HoldsToken(q)' = HoldsToken(q) /\ ~HoldsCode(r)' /\ ~Issues(r)'
      BY <1>2, <2>4 DEF HoldsCode, HoldsToken, Issues
    <3>3. Issues(q)' /\ pc[q] # "idle" => asked[q].of # t
      <4>1. pc[q] # "idle" => StepFits(q) /\ CallFits(q)
        BY DEF IndInv, RequestFits
      <4> QED
        BY <4>1, <1>2, <2>4, TablesAreApart DEF Issues, StepFits, CallFits
    <3> QED
      BY <3>1, <3>2, <3>3, <2>4 DEF Apart
  <2>9. asked' \in [Requests -> Call \cup {None}]
    BY <2>4 DEF IndInv, TypeOK
  <2> QED
    BY <1>1, <2>3, <2>4, <2>5, <2>7, <2>8, <2>9, ActiveStep DEF RequestFits, OthersHoldNone
<1> QED
  BY <1>3, <1>4 DEF LockRefreshToken, MayBeSpent

\* A code is issued where no request holds one.
LEMMA IssueCodeKeeps ==
  ASSUME NEW r \in Requests, IndInv, IssueCode(r)
  PROVE  IndInv'
<1> DEFINE c == asked[r].of
           v == NewCode(asked[r].grant, now)
<1>1. /\ pc[r] = "a_issue" /\ pc' = [pc EXCEPT ![r] = "granted"] /\ asked' = asked
      /\ InsertAndCommit(r, c, v)
  BY DEF IssueCode, Goto
<1>2. /\ asked[r].op \in {"authorize", "allow"} /\ c \in Codes /\ asked[r] \in Call
      /\ asked[r].grant \in Grant /\ writer[c] = None
  BY <1>1, Served DEF StepFits, CallFits, HoldFits, Issues
<1>3. v \in CodeRow
  BY <1>2, GrantAssumption DEF NewCode, Grant, CodeRow, IndInv, TypeOK
<1>4. CalmBut(r, {c})
  <2> HIDE DEF c, v
  <2> QED
    BY <1>1, <1>2, <1>3, TablesAreApart, CalmInsert
<1>5. LocalTypes'
  <2>1. told' \in [Requests -> Event \cup {None}]
    BY DEF IssueCode, Tells, Event, IndInv, TypeOK
  <2> QED
    BY <2>1 DEF IssueCode, IndInv, TypeOK, LocalTypes
<1>6. pc'[r] = "granted" /\ \A q \in Requests \ {r} : pc'[q] = pc[q]
  BY <1>1 DEF IndInv, TypeOK
<1>7. ~HoldsCode(r)' /\ ~HoldsToken(r)' /\ ~Issues(r)'
  BY <1>1, <1>2, <1>6 DEF HoldsCode, HoldsToken, Issues
<1>8. StepFits(r)' /\ CallFits(r)' /\ HoldFits(r)'
  BY <1>1, <1>2, <1>6, <1>7 DEF StepFits, CallFits, HoldFits
<1>9. \A q \in Requests \ {r} : Apart(q, r)' /\ Apart(r, q)'
  BY <1>7 DEF Apart
<1>10. OthersHoldNone(r, {c})
  <2>1. ASSUME NEW q \in Requests \ {r}, pc[q] # "idle", asked[q].of = c
        PROVE  ~HoldsCode(q) /\ ~HoldsToken(q) /\ ~Issues(q)
    <3>1. Apart(r, q) /\ CallFits(q)
      BY <2>1 DEF IndInv, RequestFits
    <3> QED
      BY <3>1, <2>1, <1>1, <1>2, TablesAreApart DEF Apart, Issues, CallFits, HoldsToken
  <2> QED
    BY <2>1 DEF OthersHoldNone
<1>11. {c} \cap Requests \subseteq {r}
  BY <1>2, TablesAreApart
<1>12. asked' \in [Requests -> Call \cup {None}]
  BY <1>1 DEF IndInv, TypeOK
<1> QED
  BY <1>1, <1>4, <1>5, <1>8, <1>9, <1>10, <1>11, <1>12, ActiveStep DEF RequestFits

\* What an answer writes is a row of the tokens.
LEMMA NewTokenIsRow ==
  ASSUME IndInv, NEW f \in Requests, NEW k \in Clients, NEW s \in Sessions, com[s] # None
  PROVE  NewToken(f, k, s) \in TokenRow
<1>1. com[s] \in SessionRow
  BY DEF IndInv, TypeOK, AreRows
<1> QED
  BY <1>1, GrantAssumption DEF NewToken, TokenRow, SessionRow, IndInv, TypeOK

\* Answering publishes what r marked, and a row nobody can have asked for.
LEMMA AnswerStep ==
  ASSUME NEW r \in Requests, NEW f \in Requests, NEW k \in Clients, NEW s \in Sessions,
         IndInv, pc[r] \in {"x_answer", "r_answer"}, IssueRefreshToken(r, f, k, s)
  PROVE  IndInv'
<1> DEFINE of == asked[r].of
           v == NewToken(f, k, s)
<1>1. CASE Refuse(r, "failed")
  BY <1>1, RefuseStep
<1>2. CASE com[s] # None /\ ~Refuse(r, "failed")
  <2>1. /\ pc' = [pc EXCEPT ![r] = "granted"] /\ InsertAndCommit(r, r, v)
        /\ family' = [family EXCEPT ![r] = f]
        /\ asked' = asked
    BY <1>2 DEF IssueRefreshToken, Goto
  <2>2. StepFits(r) /\ CallFits(r) /\ HoldFits(r) /\ Unminted(r) /\ r \in Rows
    BY Served, TablesAreApart DEF IndInv
  <2>3. CalmBut(r, {r})
    <3>1. v \in TokenRow /\ writer[r] = None
      BY <1>2, <2>2, NewTokenIsRow DEF Unminted
    <3> HIDE DEF v
    <3> QED
      BY <3>1, <2>1, <2>2, CalmInsert
  <2>4. LocalTypes'
    <3>1. told' \in [Requests -> Event \cup {None}]
      BY <1>2 DEF IssueRefreshToken, Tells, Event, IndInv, TypeOK
    <3> QED
      BY <3>1, <1>2 DEF IssueRefreshToken, IndInv, TypeOK, LocalTypes
  <2>5. pc'[r] = "granted" /\ \A q \in Requests \ {r} : pc'[q] = pc[q]
    BY <2>1 DEF IndInv, TypeOK
  <2>6. StepFits(r)'
    BY <2>5 DEF StepFits
  <2>7. CallFits(r)'
    BY <2>1, <2>2, <2>5 DEF CallFits
  <2>8. /\ HoldsCode(r)' => HoldsCode(r) /\ pc[r] = "x_answer"
        /\ HoldsToken(r)' => HoldsToken(r) /\ pc[r] = "r_answer"
        /\ ~Issues(r)'
    BY <2>1, <2>2, <2>5 DEF HoldsCode, HoldsToken, Issues, StepFits
  <2>9. HoldsCode(r)' => Burnt(com'[of])
    <3>1. HoldsCode(r) => of \in Codes /\ of # r
      BY <2>2, TablesAreApart DEF HoldsCode, CallFits
    <3> QED
      BY <3>1, <2>2, <2>3, <2>8 DEF HoldFits, CalmBut
  <2>10. HoldsToken(r)' => Consumed(com'[of])
    <3>1. HoldsToken(r) => of \in Requests /\ of # r
      BY <2>2 DEF HoldsToken, CallFits
    <3>2. HoldsToken(r)' => writer[of] = r /\ cur[of].used
      BY <2>2, <2>8 DEF HoldFits
    <3>3. of \in Rows /\ of # r /\ writer[of] = r => com'[of] = cur[of]
      BY <2>1 DEF InsertAndCommit
    <3> QED
      BY <3>1, <3>2, <3>3, <2>8, TablesAreApart DEF Consumed
  <2>11. HoldFits(r)'
    BY <2>1, <2>5, <2>8, <2>9, <2>10 DEF HoldFits, Burnt, Consumed
  <2>12. ASSUME NEW q \in Requests \ {r} PROVE Apart(q, r)' /\ Apart(r, q)'
    <3>1. Apart(q, r) /\ Apart(r, q)
      BY DEF IndInv
    <3>2. /\ HoldsCode(q)' = HoldsCode(q) /\ HoldsToken(q)' = HoldsToken(q)
          /\ Issues(q)' = Issues(q)
      BY <2>1, <2>5 DEF HoldsCode, HoldsToken, Issues
    <3> QED
      BY <3>1, <3>2, <2>1, <2>5, <2>8 DEF Apart
  <2>13. OthersHoldNone(r, {r})
    <3>1. ASSUME NEW q \in Requests \ {r}, pc[q] # "idle", asked[q].of = r
          PROVE  ~HoldsCode(q) /\ ~HoldsToken(q) /\ ~Issues(q)
      <4>1. StepFits(q) /\ CallFits(q)
        BY <3>1 DEF IndInv, RequestFits
      <4> QED
        BY <4>1, <3>1, TablesAreApart DEF StepFits, CallFits, HoldsCode, HoldsToken, Issues
    <3> QED
      BY <3>1 DEF OthersHoldNone
  <2>14. asked' \in [Requests -> Call \cup {None}]
    BY <2>1 DEF IndInv, TypeOK
  <2> QED
    BY <2>1, <2>3, <2>4, <2>6, <2>7, <2>11, <2>12, <2>13, <2>14, ActiveStep DEF RequestFits
<1> QED
  BY <1>1, <1>2 DEF IssueRefreshToken

\* An exchange answers for the grant its code was bound to.
LEMMA AnswerExchangeKeeps ==
  ASSUME NEW r \in Requests, IndInv, AnswerExchange(r)
  PROVE  IndInv'
<1>1. pc[r] = "x_answer" /\ asked[r].grant \in Grant
  BY Served DEF AnswerExchange, CallFits
<1>2. asked[r].grant.client \in Clients /\ asked[r].grant.session \in Sessions
  BY <1>1 DEF Grant
<1> QED
  BY <1>1, <1>2, AnswerStep DEF AnswerExchange

\* The row a rotation answers from is the one it marked.
LEMMA AnswerRotationKeeps ==
  ASSUME NEW r \in Requests, IndInv, AnswerRotation(r)
  PROVE  IndInv'
<1> DEFINE row == cur[asked[r].of]
<1>1. pc[r] = "r_answer" /\ IssueRefreshToken(r, row.family, row.client, row.session)
  BY DEF AnswerRotation
<1>2. row \in TokenRow
  BY <1>1, Served DEF StepFits, HoldFits, HoldsToken
<1>3. row.family \in Requests /\ row.client \in Clients /\ row.session \in Sessions
  BY <1>2 DEF TokenRow
<1> HIDE DEF row
<1> QED
  BY <1>1, <1>3, AnswerStep

-----------------------------------------------------------------------------
(* The invariant, and what it is for.                                      *)

\* Every statement of every handler keeps IndInv.
LEMMA AdvanceKeeps ==
  ASSUME NEW r \in Requests, IndInv, Advance(r)
  PROVE  IndInv'
  BY FindSessionKeeps, SettleConsentKeeps, IssueCodeKeeps, SpendAuthorizationCodeKeeps,
     CommitSpentCodeKeeps, ReadCodeSubjectKeeps, HoldConsentKeeps, BindCodeFamilyKeeps,
     AnswerExchangeKeeps, MarkCodeReplayedKeeps, SpendRefreshTokenKeeps, LockRefreshTokenKeeps,
     ReadTokenSubjectKeeps, AnswerRotationKeeps, ReadReplayedTokenKeeps, RevokeTokenKeeps,
     FindLiveSessionKeeps, EndSessionKeeps, DeleteConsentKeeps, FindTokensKeeps,
     RevokeRowKeeps, CommitTakeBackKeeps
  DEF Advance

\* So does the retention pass.
LEMMA PurgeKeeps ==
  ASSUME IndInv, Purge
  PROVE  IndInv'
<1>1. PICK x \in Rows : DeleteRows({x}) /\ UNCHANGED <<now, locals>>
  BY TablesAreApart DEF Purge, PurgeCode, PurgeToken, PurgeSession
<1>2. CalmBut(None, {})
  BY <1>1, CalmDelete
<1> QED
  BY <1>1, <1>2, PassiveStep DEF IndInv, TypeOK

\* So does the clock.
LEMMA TickKeeps ==
  ASSUME IndInv, Tick
  PROVE  IndInv'
<1>1. now' \in Nat
  BY DEF Tick, IndInv, TypeOK
<1> QED
  BY <1>1, CalmUnchanged, PassiveStep DEF Tick

\* IndInv holds at first.
LEMMA InitFits == Init => IndInv
<1> SUFFICES ASSUME Init PROVE IndInv
  OBVIOUS
<1>1. com = cur /\ writer = [x \in Rows |-> None] /\ sharers = [x \in Rows |-> {}]
  BY DEF Init, StorageInit
<1>2. AreRows(com)
  <2>1. \A x \in Rows : com[x] =
          CASE x \in Codes -> IF Issued[x] = None THEN None ELSE NewCode(Issued[x], 0)
            [] x \in Sessions -> [state |-> "active", expires |-> SessionLifetime]
            [] x \in Consents -> Consented[x]
            [] OTHER -> None
    BY DEF Init, StorageInit
  <2>2. ASSUME NEW c \in Codes PROVE com[c] \in CodeRow \cup {None}
    <3>1. com[c] = IF Issued[c] = None THEN None ELSE NewCode(Issued[c], 0)
      BY <2>1, TablesAreApart
    <3>2. ASSUME NEW g \in Grant PROVE NewCode(g, 0) \in CodeRow
      BY GrantAssumption DEF NewCode, CodeRow, Grant
    <3>3. Issued[c] \in Grant \cup {None}
      BY GrantAssumption DEF Grant
    <3> QED
      BY <3>1, <3>2, <3>3
  <2>3. \A t \in Requests : com[t] \in TokenRow \cup {None}
    BY <2>1, TablesAreApart
  <2>4. \A s \in Sessions : com[s] \in SessionRow \cup {None}
    BY <2>1, TablesAreApart, GrantAssumption DEF SessionRow
  <2>5. \A x \in Consents : com[x] \in (SUBSET Scopes) \cup {None}
    BY <2>1, TablesAreApart, GrantAssumption
  <2>6. DOMAIN com = Rows
    BY DEF Init, StorageInit
  <2> QED
    BY <2>2, <2>3, <2>4, <2>5, <2>6 DEF AreRows
<1>3. TypeOK
  BY <1>1, <1>2 DEF Init, TypeOK
<1>4. WritesKeep
  BY <1>1, TablesAreApart DEF WritesKeep
<1>5. \A r \in Requests : pc[r] = "idle" /\ com[r] = None /\ writer[r] = None
  BY <1>1, TablesAreApart DEF Init, StorageInit
<1> QED
  BY <1>3, <1>4, <1>5 DEF IndInv, Unminted, RequestFits, Apart

\* IndInv is inductive.
LEMMA NextKeeps == IndInv /\ [Next]_vars => IndInv'
<1> SUFFICES ASSUME IndInv, [Next]_vars PROVE IndInv'
  OBVIOUS
<1>1. ASSUME NEW r \in Requests, Start(r) \/ Advance(r) \/ Fail(r) PROVE IndInv'
  BY <1>1, StartKeeps, AdvanceKeeps, FailKeeps
<1>2. CASE Tick
  BY <1>2, TickKeeps
<1>3. CASE Purge
  BY <1>3, PurgeKeeps
<1>4. CASE UNCHANGED vars
  <2>1. UNCHANGED <<storage, locals, now>>
    BY <1>4 DEF vars
  <2> QED
    BY <2>1, CalmUnchanged, PassiveStep DEF IndInv, TypeOK
<1> QED
  BY <1>1, <1>2, <1>3, <1>4 DEF Next

\* IndInv holds of every reachable state.
THEOREM Inductive == Spec => []IndInv
  BY InitFits, NextKeeps, PTL DEF Spec

\* Every row of the four tables, in both its versions, and every local of a
\* handler keeps its type, whatever is interleaved, fails or is purged.
THEOREM TypeCorrect == Spec => []TypeOK
<1>1. IndInv => TypeOK
  BY DEF IndInv
<1> QED
  BY <1>1, Inductive, PTL

\* A code and a refresh token are good once: of all the exchanges of one code,
\* and of all the rotations of one token, at most one is answered with tokens
\* (spend_authorization_code, spend_refresh_token and their callers).
THEOREM WonOnce == Spec => []OneWinner
<1>1. IndInv => OneWinner
  <2> SUFFICES ASSUME IndInv, NEW op \in {"exchange", "rotate"},
                      NEW q \in Requests, NEW r \in Requests,
                      IsGranted(q, op), IsGranted(r, op), asked[q].of = asked[r].of, q # r
               PROVE  FALSE
    BY DEF OneWinner
  <2>1. Apart(q, r)
    BY DEF IndInv
  <2> QED
    BY <2>1 DEF IsGranted, Apart, HoldsCode, HoldsToken
<1> QED
  BY <1>1, Inductive, PTL

-----------------------------------------------------------------------------
(***************************************************************************)
(* What TokenGrants promises of a grant, for any number of requests, codes *)
(* and tokens.                                                             *)
(***************************************************************************)

TakingBack == {"t_start", "t_rows"}

-----------------------------------------------------------------------------
(* A step of a request is its own: it moves no other request, and leaves   *)
(* alone what others write and hold.                                       *)

Stands(q) ==
  /\ pc'[q] = pc[q] /\ asked'[q] = asked[q] /\ family'[q] = family[q]
  /\ todo'[q] = todo[q] /\ ended'[q] = ended[q] /\ told'[q] = told[q]

RowsStand(r) ==
  \A x \in Rows : \A q \in Requests \ {r} :
    /\ (writer'[x] = q) <=> (writer[x] = q)
    /\ writer[x] = q => cur'[x] = cur[x] /\ com'[x] = com[x]
    /\ (q \in sharers'[x]) <=> (q \in sharers[x])

Alone(r) == RowsStand(r) /\ \A q \in Requests \ {r} : Stands(q)

\* A statement that only reads touches nobody's rows.
LEMMA UnchangedIsAlone ==
  ASSUME NEW r, UNCHANGED storage
  PROVE  RowsStand(r)
  BY DEF storage, RowsStand

\* SELECT ... FOR SHARE touches nobody else's locks.
LEMMA HoldIsAlone ==
  ASSUME NEW r \in Requests, NEW x \in Rows, IndInv, HoldRow(r, x)
  PROVE  RowsStand(r)
  BY DEF HoldRow, RowsStand, IndInv, TypeOK

\* An UPDATE takes a lock nobody else has.
LEMMA WriteIsAlone ==
  ASSUME NEW r \in Requests, NEW x \in Rows, NEW v, IndInv, WriteRow(r, x, v)
  PROVE  RowsStand(r)
<1>1. DOMAIN cur = Rows /\ writer \in [Rows -> Requests \cup {None}]
  BY DEF IndInv, TypeOK, AreRows
<1>2. writer[x] \in {r, None}
  BY DEF WriteRow, MayWrite
<1> QED
  BY <1>1, <1>2, RequestsAreSome DEF WriteRow, RowsStand

\* A work that ends releases its own locks, and only those.
LEMMA ReleaseIsAlone ==
  ASSUME NEW r \in Requests, Released(r)
  PROVE  /\ \A x \in Rows : \A q \in Requests \ {r} :
              /\ (writer'[x] = q) <=> (writer[x] = q)
              /\ (q \in sharers'[x]) <=> (q \in sharers[x])
         /\ \A x \in Rows : writer'[x] # r /\ r \notin sharers'[x]
  BY RequestsAreSome DEF Released

\* A ROLLBACK undoes what its own work wrote, and nothing else.
LEMMA RollbackIsAlone ==
  ASSUME NEW r \in Requests, IndInv, Rollback(r)
  PROVE  RowsStand(r)
  BY ReleaseIsAlone DEF Rollback, RowsStand

\* A COMMIT publishes what its own work wrote, and nothing else.
LEMMA CommitIsAlone ==
  ASSUME NEW r \in Requests, IndInv, Commit(r)
  PROVE  RowsStand(r)
  BY ReleaseIsAlone DEF Commit, RowsStand

\* So does a COMMIT with the row inserted before it.
LEMMA InsertIsAlone ==
  ASSUME NEW r \in Requests, NEW x \in Rows, NEW v, IndInv, InsertAndCommit(r, x, v),
         writer[x] = None
  PROVE  RowsStand(r)
<1>1. DOMAIN cur = Rows
  BY DEF IndInv, TypeOK, AreRows
<1> QED
  BY <1>1, ReleaseIsAlone, RequestsAreSome DEF InsertAndCommit, RowsStand

-----------------------------------------------------------------------------
(* So is every statement of every handler.                                 *)

USE DEF Steps, Outcomes, Redeeming, Rotating, Issuing, TakingBack

\* What a request at work changes of its own.
OwnStep(r) ==
  /\ Alone(r) /\ now' = now
  /\ pc[r] \notin Outcomes /\ pc'[r] # "idle"

\* A statement that reads moves its request alone.
LEMMA ReadIsOwn ==
  ASSUME NEW r \in Requests, NEW to \in Steps \ {"idle"}, IndInv, Read(r, to), pc[r] \notin Outcomes
  PROVE  OwnStep(r)
  BY UnchangedIsAlone DEF Read, Goto, OwnStep, Alone, Stands, IndInv, TypeOK

\* A refusal is answered to its request alone.
LEMMA RefuseIsOwn ==
  ASSUME NEW r \in Requests, NEW to \in Outcomes, IndInv, Refuse(r, to), pc[r] \notin Outcomes
  PROVE  OwnStep(r)
  BY RollbackIsAlone DEF Refuse, Goto, OwnStep, Alone, Stands, IndInv, TypeOK

\* A statement that writes moves its request alone.
LEMMA UpdateIsOwn ==
  ASSUME NEW r \in Requests, NEW to \in Steps \ {"idle"}, NEW x \in Rows, NEW v,
         IndInv, Update(r, to, x, v), pc[r] \notin Outcomes
  PROVE  OwnStep(r)
  BY WriteIsAlone DEF Update, Goto, OwnStep, Alone, Stands, IndInv, TypeOK

\* A call that begins begins by itself, writes nothing, and is at its first
\* statement.
LEMMA StartIsOwn ==
  ASSUME NEW r \in Requests, IndInv, Start(r)
  PROVE  /\ OwnStep(r) /\ UNCHANGED <<storage, family, todo, ended, told>>
         /\ pc[r] = "idle"
         /\ pc'[r] \in {"a_session", "x_spend", "r_spend", "v_read", "l_read", "w_delete"}
<1>1. PICK first \in {"a_session", "x_spend", "r_spend", "v_read", "l_read", "w_delete"} :
        \E call : Begin(r, first, call)
  BY DEF Start, BeginAuthorize, BeginExchange, BeginRotate, BeginRevoke, BeginLogout, BeginWithdraw
<1> QED
  BY <1>1, UnchangedIsAlone DEF Begin, Goto, OwnStep, Alone, Stands, IndInv, TypeOK

\* A request that fails fails alone.
LEMMA FailIsOwn ==
  ASSUME NEW r \in Requests, IndInv, Fail(r)
  PROVE  OwnStep(r)
  BY RollbackIsAlone DEF Fail, IsServed, OwnStep, Alone, Stands, IndInv, TypeOK

\* The row a handler asks for, and the consent its grant rests on, are rows.
LEMMA AskedRows ==
  ASSUME NEW r \in Requests, IndInv, pc[r] # "idle"
  PROVE  /\ asked[r].of \in Rows
         /\ pc[r] \in Redeeming \cup Issuing => ConsentOf(asked[r].grant) \in Consents
<1>1. CallFits(r) /\ StepFits(r)
  BY Served
<1>2. asked[r].of \in Rows
  BY <1>1 DEF CallFits, Call
<1>3. pc[r] \in Redeeming \cup Issuing => asked[r].grant \in Grant
  BY <1>1 DEF CallFits, StepFits
<1> QED
  BY <1>2, <1>3, GrantAssumption DEF Grant, ConsentOf, Consents

\* Every statement of every handler moves its own request alone.
LEMMA AdvanceIsOwn ==
  ASSUME NEW r \in Requests, IndInv, Advance(r)
  PROVE  OwnStep(r)
<1> USE DEF Goto, OwnStep, Alone, Stands
<1>0. /\ pc \in [Requests -> Steps \cup Outcomes] /\ asked \in [Requests -> Call \cup {None}]
      /\ family \in [Requests -> Requests \cup {None}] /\ todo \in [Requests -> SUBSET Requests]
      /\ ended \in [Requests -> SUBSET Requests] /\ told \in [Requests -> Event \cup {None}]
  BY DEF IndInv, TypeOK
<1>1. CASE FindSession(r)
  BY <1>1, ReadIsOwn, RefuseIsOwn DEF FindSession
<1>2. CASE SettleConsent(r)
  <2>1. pc[r] = "a_consent" /\ ConsentOf(asked[r].grant) \in Rows
    BY <1>2, AskedRows, TablesAreApart DEF SettleConsent
  <2> QED
    BY <1>2, <2>1, ReadIsOwn, RefuseIsOwn, UpdateIsOwn DEF SettleConsent
<1>3. CASE IssueCode(r)
  <2>1. /\ pc[r] = "a_issue" /\ asked[r].of \in Rows /\ writer[asked[r].of] = None
    BY <1>3, AskedRows, Served DEF IssueCode, HoldFits, Issues
  <2>2. RowsStand(r)
    BY <1>3, <2>1, InsertIsAlone DEF IssueCode
  <2> QED
    BY <1>0, <1>3, <2>1, <2>2 DEF IssueCode, Tells
<1>4. CASE SpendAuthorizationCode(r)
  <2>1. pc[r] = "x_spend" /\ asked[r].of \in Rows
    BY <1>4, AskedRows DEF SpendAuthorizationCode
  <2>2. CASE Read(r, "x_mark")
    BY <2>1, <2>2, ReadIsOwn
  <2>3. CASE ~Read(r, "x_mark")
    BY <1>0, <1>4, <2>1, <2>3, WriteIsAlone DEF SpendAuthorizationCode
  <2> QED
    BY <2>2, <2>3
<1>5. CASE CommitSpentCode(r)
  BY <1>0, <1>5, CommitIsAlone DEF CommitSpentCode
<1>6. CASE ReadCodeSubject(r)
  BY <1>6, ReadIsOwn, RefuseIsOwn DEF ReadCodeSubject
<1>7. CASE HoldConsent(r)
  <2>1. pc[r] = "x_consent" /\ ConsentOf(asked[r].grant) \in Rows
    BY <1>7, AskedRows, TablesAreApart DEF HoldConsent
  <2>2. CASE Read(r, "x_bind") \/ Refuse(r, "refused")
    BY <2>1, <2>2, ReadIsOwn, RefuseIsOwn
  <2>3. CASE ~(Read(r, "x_bind") \/ Refuse(r, "refused"))
    BY <1>0, <1>7, <2>1, <2>3, HoldIsAlone DEF HoldConsent
  <2> QED
    BY <2>2, <2>3
<1>8. CASE BindCodeFamily(r)
  <2>1. pc[r] = "x_bind" /\ asked[r].of \in Rows
    BY <1>8, AskedRows DEF BindCodeFamily
  <2>2. CASE Refuse(r, "refused")
    BY <2>1, <2>2, RefuseIsOwn
  <2>3. CASE ~Refuse(r, "refused")
    BY <1>0, <1>8, <2>1, <2>3, WriteIsAlone DEF BindCodeFamily
  <2> QED
    BY <2>2, <2>3
<1>9. CASE AnswerExchange(r) \/ AnswerRotation(r)
  <2>1. PICK f, k, s : IssueRefreshToken(r, f, k, s)
    BY <1>9 DEF AnswerExchange, AnswerRotation
  <2>2. pc[r] \in {"x_answer", "r_answer"} /\ writer[r] = None /\ r \in Rows
    BY <1>9, TablesAreApart DEF AnswerExchange, AnswerRotation, IndInv, Unminted
  <2>3. CASE Refuse(r, "failed")
    BY <2>2, <2>3, RefuseIsOwn
  <2>4. CASE ~Refuse(r, "failed")
    <3>1. RowsStand(r)
      BY <2>1, <2>2, <2>4, InsertIsAlone DEF IssueRefreshToken
    <3> QED
      BY <1>0, <2>1, <2>2, <2>4, <3>1 DEF IssueRefreshToken, Tells
  <2> QED
    BY <2>3, <2>4
<1>10. CASE MarkCodeReplayed(r)
  <2>1. pc[r] = "x_mark" /\ asked[r].of \in Rows
    BY <1>10, AskedRows DEF MarkCodeReplayed
  <2>2. CASE Refuse(r, "refused")
    BY <2>1, <2>2, RefuseIsOwn
  <2>3. CASE ~Refuse(r, "refused")
    BY <1>0, <1>10, <2>1, <2>3, WriteIsAlone DEF MarkCodeReplayed
  <2> QED
    BY <2>2, <2>3
<1>11. CASE SpendRefreshToken(r)
  BY <1>11, ReadIsOwn DEF SpendRefreshToken
<1>12. CASE LockRefreshToken(r)
  BY <1>12, AskedRows, ReadIsOwn, UpdateIsOwn DEF LockRefreshToken
<1>13. CASE ReadTokenSubject(r)
  BY <1>13, ReadIsOwn, RefuseIsOwn DEF ReadTokenSubject
<1>14. CASE ReadReplayedToken(r) \/ RevokeToken(r)
  <2>1. pc[r] \in {"r_read", "v_read"}
    BY <1>14 DEF ReadReplayedToken, RevokeToken
  <2>2. CASE Refuse(r, "refused") \/ Refuse(r, "over")
    BY <2>1, <2>2, RefuseIsOwn
  <2>3. CASE ~(Refuse(r, "refused") \/ Refuse(r, "over"))
    BY <1>0, <1>14, <2>1, <2>3, UnchangedIsAlone DEF ReadReplayedToken, RevokeToken
  <2> QED
    BY <2>2, <2>3
<1>15. CASE FindLiveSession(r)
  BY <1>15, ReadIsOwn, RefuseIsOwn DEF FindLiveSession
<1>16. CASE EndSession(r)
  BY <1>16, AskedRows, RefuseIsOwn, UpdateIsOwn DEF EndSession
<1>17. CASE DeleteConsent(r)
  BY <1>17, AskedRows, RefuseIsOwn, UpdateIsOwn DEF DeleteConsent
<1>18. CASE FindTokens(r)
  BY <1>0, <1>18, UnchangedIsAlone DEF FindTokens
<1>19. CASE RevokeRow(r)
  <2>1. PICK t \in todo[r] :
          /\ todo' = [todo EXCEPT ![r] = @ \ {t}]
          /\ \/ /\ WriteRow(r, t, [com[t] EXCEPT !.revoked = TRUE])
                /\ ended' = [ended EXCEPT ![r] = @ \cup {t}]
             \/ UNCHANGED <<storage, ended>>
    BY <1>19 DEF RevokeRow
  <2>2. t \in Rows
    BY <1>0, TablesAreApart
  <2>3. RowsStand(r)
    BY <2>1, <2>2, WriteIsAlone, UnchangedIsAlone
  <2>4. pc[r] = "t_rows" /\ UNCHANGED <<now, pc, asked, family, told>>
    BY <1>19 DEF RevokeRow
  <2> QED
    BY <1>0, <2>1, <2>3, <2>4
<1>20. CASE CommitTakeBack(r)
  <2>1. pc[r] = "t_rows" /\ RowsStand(r)
    BY <1>20, CommitIsAlone DEF CommitTakeBack
  <2> QED
    BY <1>0, <1>20, <2>1 DEF CommitTakeBack, Tells
<1> QED
  BY <1>1, <1>2, <1>3, <1>4, <1>5, <1>6, <1>7, <1>8, <1>9, <1>10, <1>11, <1>12, <1>13, <1>14,
     <1>15, <1>16, <1>17, <1>18, <1>19, <1>20 DEF Advance

-----------------------------------------------------------------------------
(* What each request wrote of the rows it has locked.                      *)

TokenLock(r, t) ==
  /\ com[t] # None
  /\ \/ /\ pc[r] \in Rotating /\ asked[r].of = t
        /\ ~com[t].used /\ cur[t] = [com[t] EXCEPT !.used = TRUE]
     \/ /\ pc[r] = "t_rows" /\ t \in ended[r]
        /\ ~com[t].revoked /\ cur[t] = [com[t] EXCEPT !.revoked = TRUE]

CodeLock(r, c) ==
  /\ asked[r].op = "exchange" /\ asked[r].of = c /\ com[c] # None
  /\ \/ /\ pc[r] = "x_spent" /\ asked[r].grant = GrantOf(com[c])
        /\ cur[c] = [com[c] EXCEPT !.spent = TRUE]
     \/ /\ pc[r] = "x_answer" /\ ~com[c].replayed
        /\ cur[c] = [com[c] EXCEPT !.family = r]
     \/ /\ pc[r] \in TakingBack /\ family[r] = com[c].family
        /\ cur[c] = [com[c] EXCEPT !.replayed = TRUE]

SessionLock(r, s) ==
  /\ asked[r].op = "logout" /\ pc[r] \in TakingBack
  /\ com[s] # None /\ cur[s] = [com[s] EXCEPT !.state = "ended"]

ConsentLock(r, x) ==
  \/ /\ asked[r].op = "withdraw" /\ pc[r] \in TakingBack
     /\ asked[r].of = x /\ cur[x] = None
  \/ asked[r].op = "allow" /\ pc[r] = "a_issue" /\ cur[x] # None

LocksFit(r) ==
  /\ \A t \in Requests : writer[t] = r => TokenLock(r, t)
  /\ \A c \in Codes : writer[c] = r => CodeLock(r, c)
  /\ \A s \in Sessions : writer[s] = r => SessionLock(r, s)
  /\ \A x \in Consents : writer[x] = r => ConsentLock(r, x)

\* What a request must have locked where it is.
HasLocked(r) ==
  /\ pc[r] \in Steps \ {"t_rows"} => ended[r] = {}
  /\ pc[r] = "t_rows" => \A t \in ended[r] : writer[t] = r
  /\ pc[r] = "x_answer" => writer[asked[r].of] = r
  /\ pc[r] \in TakingBack /\ asked[r].op = "withdraw" => writer[asked[r].of] = r
  /\ pc[r] \in TakingBack => asked[r].op \notin {"authorize", "allow"}

LockInv == \A r \in Requests : LocksFit(r) /\ HasLocked(r)

Writing == {"x_spent", "x_answer", "a_issue", "t_start", "t_rows"} \cup Rotating

\* Where nothing is written yet, nothing is locked.
LEMMA NothingLocked ==
  ASSUME NEW r \in Requests, LocksFit(r), pc[r] \notin Writing
  PROVE  \A x \in Rows : writer[x] # r
  BY RowsAssumption DEF LocksFit, TokenLock, CodeLock, SessionLock, ConsentLock, Writing

\* Another request keeps what it has locked.
LEMMA OthersKeepLocks ==
  ASSUME NEW r, NEW q \in Requests \ {r}, Alone(r), LocksFit(q), HasLocked(q), IndInv
  PROVE  LocksFit(q)' /\ HasLocked(q)'
<1>1. Stands(q)
  BY DEF Alone
<1>2. \A x \in Rows : /\ (writer'[x] = q) <=> (writer[x] = q)
                      /\ writer[x] = q => cur'[x] = cur[x] /\ com'[x] = com[x]
  BY DEF Alone, RowsStand
<1>3. \A t \in Requests : writer'[t] = q => TokenLock(q, t)'
  BY <1>1, <1>2, TablesAreApart DEF LocksFit, TokenLock, Stands
<1>4. \A c \in Codes : writer'[c] = q => CodeLock(q, c)'
  BY <1>1, <1>2, TablesAreApart DEF LocksFit, CodeLock, Stands
<1>5. \A s \in Sessions : writer'[s] = q => SessionLock(q, s)'
  BY <1>1, <1>2, TablesAreApart DEF LocksFit, SessionLock, Stands
<1>6. \A x \in Consents : writer'[x] = q => ConsentLock(q, x)'
  BY <1>1, <1>2, TablesAreApart DEF LocksFit, ConsentLock, Stands
<1>7. HasLocked(q)'
  <2>1. pc[q] # "idle" => asked[q].of \in Rows
    BY AskedRows
  <2>2. ended[q] \subseteq Rows
    BY TablesAreApart DEF IndInv, TypeOK
  <2> QED
    BY <1>1, <1>2, <2>1, <2>2 DEF HasLocked, Stands
<1> QED
  BY <1>3, <1>4, <1>5, <1>6, <1>7 DEF LocksFit

\* A request that is answered has nothing locked.
LEMMA AnsweredLocksNothing ==
  ASSUME NEW r \in Requests, \A x \in Rows : writer'[x] # r, pc'[r] \in Outcomes
  PROVE  LocksFit(r)' /\ HasLocked(r)'
  BY TablesAreApart DEF LocksFit, HasLocked

\* A request that only reads has locked what it had, which is nothing.
LEMMA ReaderLocksNothing ==
  ASSUME NEW r \in Requests, LocksFit(r), HasLocked(r), pc[r] \in Steps \ Writing,
         writer' = writer, ended' = ended, pc'[r] \in Steps \ {"x_answer", "t_rows"},
         pc'[r] = "t_start" => asked'[r].op \in {"rotate", "revoke"}
  PROVE  LocksFit(r)' /\ HasLocked(r)'
<1>1. \A x \in Rows : writer'[x] # r
  BY NothingLocked
<1>2. ended'[r] = {}
  BY DEF HasLocked, Writing
<1> QED
  BY <1>1, <1>2, TablesAreApart DEF LocksFit, HasLocked

\* The first row a request writes is the only one it has locked.
LEMMA FirstWrite ==
  ASSUME NEW r \in Requests, NEW x \in Rows, NEW v, LocksFit(r), IndInv,
         pc[r] \notin Writing, WriteRow(r, x, v)
  PROVE  /\ \A y \in Rows : writer'[y] = r => y = x
         /\ writer'[x] = r /\ cur'[x] = v /\ com' = com
<1>1. \A y \in Rows : writer[y] # r
  BY NothingLocked
<1>2. DOMAIN cur = Rows /\ writer \in [Rows -> Requests \cup {None}]
  BY DEF IndInv, TypeOK, AreRows
<1> QED
  BY <1>1, <1>2 DEF WriteRow

\* Each statement of a handler keeps what it has locked.
LEMMA AdvanceKeepsLocks ==
  ASSUME NEW r \in Requests, IndInv, LocksFit(r), HasLocked(r), Advance(r)
  PROVE  LocksFit(r)' /\ HasLocked(r)'
<1> USE DEF Goto
<1> DEFINE of == asked[r].of
           x == ConsentOf(asked[r].grant)
<1>0. /\ pc \in [Requests -> Steps \cup Outcomes] /\ asked \in [Requests -> Call \cup {None}]
      /\ family \in [Requests -> Requests \cup {None}] /\ todo \in [Requests -> SUBSET Requests]
      /\ ended \in [Requests -> SUBSET Requests] /\ told \in [Requests -> Event \cup {None}]
  BY DEF IndInv, TypeOK
<1>r. ASSUME NEW to \in Outcomes, Refuse(r, to) PROVE LocksFit(r)' /\ HasLocked(r)'
  <2>1. \A y \in Rows : writer'[y] # r
    BY <1>r, ReleaseIsAlone DEF Refuse, Rollback
  <2> QED
    BY <1>0, <1>r, <2>1, AnsweredLocksNothing DEF Refuse
<1>s. ASSUME NEW to \in Steps \ {"x_answer", "t_rows", "t_start"}, Read(r, to),
             pc[r] \in Steps \ Writing
      PROVE  LocksFit(r)' /\ HasLocked(r)'
  <2>1. pc'[r] = to /\ writer' = writer /\ ended' = ended
    BY <1>0, <1>s DEF Read, storage
  <2> QED
    BY <1>s, <2>1, ReaderLocksNothing
<1>u. pc[r] # "idle" => StepFits(r) /\ CallFits(r) /\ HoldFits(r)
  BY Served
<1>1. CASE FindSession(r)
  BY <1>1, <1>r, <1>s DEF FindSession, Writing
<1>2. CASE SettleConsent(r)
  <2>1. pc[r] = "a_consent" /\ x \in Consents /\ x \in Rows
    BY <1>2, AskedRows, TablesAreApart DEF SettleConsent
  <2>2. CASE Read(r, "a_issue") \/ Refuse(r, "refused")
    BY <2>1, <2>2, <1>r, <1>s DEF Writing
  <2>3. CASE ~(Read(r, "a_issue") \/ Refuse(r, "refused"))
    <3> DEFINE v == IF com[x] = None THEN asked[r].grant.scopes
                    ELSE com[x] \cup asked[r].grant.scopes
    <3>1. asked[r].op # "authorize" /\ Update(r, "a_issue", x, v)
      BY <1>2, <2>3 DEF SettleConsent
    <3>2. asked[r].op = "allow" /\ asked[r].grant \in Grant
      BY <1>u, <2>1, <3>1 DEF StepFits, CallFits
    <3>3. v \in SUBSET Scopes
      BY <2>1, <3>2 DEF Grant, IndInv, TypeOK, AreRows
    <3>4. v # None
      BY <3>3, SomeAssumption
    <3>5. /\ pc'[r] = "a_issue" /\ asked' = asked /\ ended' = ended
          /\ \A y \in Rows : writer'[y] = r => y = x
          /\ writer'[x] = r /\ cur'[x] = v
      <4> HIDE DEF x, v
      <4> QED
        BY <1>0, <2>1, <3>1, FirstWrite DEF Update, Writing
    <3>6. LocksFit(r)'
      <4> HIDE DEF x, v
      <4> QED
        BY <2>1, <3>2, <3>4, <3>5, TablesAreApart DEF LocksFit, ConsentLock
    <3> QED
      BY <2>1, <3>5, <3>6 DEF HasLocked
  <2> QED
    BY <2>2, <2>3
<1>3. CASE IssueCode(r)
  <2>1. \A y \in Rows : writer'[y] # r
    BY <1>3, ReleaseIsAlone DEF IssueCode, InsertAndCommit
  <2> QED
    BY <1>0, <1>3, <2>1, AnsweredLocksNothing DEF IssueCode
<1>4. CASE SpendAuthorizationCode(r)
  <2>1. pc[r] = "x_spend" /\ of \in Codes /\ of \in Rows /\ asked[r].op = "exchange" /\ asked[r] \in Call
    BY <1>4, <1>u, TablesAreApart DEF SpendAuthorizationCode, CallFits, StepFits
  <2>2. CASE Read(r, "x_mark")
    BY <2>1, <2>2, <1>s DEF Writing
  <2>3. CASE ~Read(r, "x_mark")
    <3> DEFINE v == [com[of] EXCEPT !.spent = TRUE]
    <3>1. /\ com[of] # None /\ pc' = [pc EXCEPT ![r] = "x_spent"] /\ WriteRow(r, of, v)
          /\ asked' = [asked EXCEPT ![r].grant = GrantOf(com[of])] /\ ended' = ended
      BY <1>4, <2>3 DEF SpendAuthorizationCode
    <3>2. /\ pc'[r] = "x_spent" /\ asked'[r].op = "exchange" /\ asked'[r].of = of
          /\ asked'[r].grant = GrantOf(com[of])
      BY <1>0, <2>1, <3>1 DEF Call
    <3>3. /\ \A y \in Rows : writer'[y] = r => y = of
          /\ writer'[of] = r /\ cur'[of] = v /\ com' = com
      <4> HIDE DEF of, v
      <4> QED
        BY <2>1, <3>1, FirstWrite DEF Writing
    <3>4. of' = of
      BY <3>2
    <3>5. CodeLock(r, of)'
      BY <3>1, <3>2, <3>3 DEF CodeLock, GrantOf
    <3>6. LocksFit(r)'
      <4> HIDE DEF of
      <4> QED
        BY <2>1, <3>3, <3>4, <3>5, TablesAreApart DEF LocksFit
    <3> QED
      BY <2>1, <3>1, <3>2, <3>6 DEF HasLocked
  <2> QED
    BY <2>2, <2>3
<1>5. CASE CommitSpentCode(r)
  <2>1. \A y \in Rows : writer'[y] # r
    BY <1>5, ReleaseIsAlone DEF CommitSpentCode, Commit
  <2>2. pc[r] = "x_spent" /\ pc'[r] \in {"x_subject", "refused"} /\ ended' = ended
    BY <1>0, <1>5 DEF CommitSpentCode
  <2> QED
    BY <2>1, <2>2, TablesAreApart DEF LocksFit, HasLocked
<1>6. CASE ReadCodeSubject(r)
  BY <1>6, <1>r, <1>s DEF ReadCodeSubject, Writing
<1>7. CASE HoldConsent(r)
  <2>1. pc[r] = "x_consent"
    BY <1>7 DEF HoldConsent
  <2>2. CASE Refuse(r, "refused")
    BY <2>2, <1>r
  <2>3. CASE ~Refuse(r, "refused")
    <3>1. pc'[r] = "x_bind" /\ writer' = writer /\ ended' = ended
      BY <1>0, <1>7, <2>3 DEF HoldConsent, Read, HoldRow, storage
    <3> QED
      BY <2>1, <3>1, ReaderLocksNothing DEF Writing
  <2> QED
    BY <2>2, <2>3
<1>8. CASE BindCodeFamily(r)
  <2>1. pc[r] = "x_bind" /\ of \in Codes /\ of \in Rows /\ asked[r].op = "exchange"
    BY <1>8, <1>u, TablesAreApart DEF BindCodeFamily, CallFits, StepFits
  <2>2. CASE Refuse(r, "refused")
    BY <2>2, <1>r
  <2>3. CASE ~Refuse(r, "refused")
    <3> DEFINE v == [com[of] EXCEPT !.family = r]
    <3>1. /\ com[of] # None /\ ~com[of].replayed /\ pc'[r] = "x_answer" /\ WriteRow(r, of, v)
          /\ asked' = asked /\ ended' = ended
      BY <1>0, <1>8, <2>3 DEF BindCodeFamily
    <3>2. /\ \A y \in Rows : writer'[y] = r => y = of
          /\ writer'[of] = r /\ cur'[of] = v /\ com' = com
      <4> HIDE DEF of, v
      <4> QED
        BY <2>1, <3>1, FirstWrite DEF Writing
    <3>3. CodeLock(r, of)' /\ of' = of
      BY <2>1, <3>1, <3>2 DEF CodeLock
    <3>4. LocksFit(r)'
      <4> HIDE DEF of
      <4> QED
        BY <2>1, <3>2, <3>3, TablesAreApart DEF LocksFit
    <3> QED
      BY <2>1, <3>1, <3>2, <3>4 DEF HasLocked
  <2> QED
    BY <2>2, <2>3
<1>9. CASE AnswerExchange(r) \/ AnswerRotation(r)
  <2>1. PICK f, k, s : IssueRefreshToken(r, f, k, s)
    BY <1>9 DEF AnswerExchange, AnswerRotation
  <2>2. CASE Refuse(r, "failed")
    BY <2>2, <1>r
  <2>3. CASE ~Refuse(r, "failed")
    <3>1. \A y \in Rows : writer'[y] # r
      BY <2>1, <2>3, ReleaseIsAlone DEF IssueRefreshToken, InsertAndCommit
    <3> QED
      BY <1>0, <2>1, <2>3, <3>1, AnsweredLocksNothing DEF IssueRefreshToken
  <2> QED
    BY <2>2, <2>3
<1>10. CASE MarkCodeReplayed(r)
  <2>1. pc[r] = "x_mark" /\ of \in Codes /\ of \in Rows /\ asked[r].op = "exchange"
    BY <1>10, <1>u, TablesAreApart DEF MarkCodeReplayed, CallFits, StepFits
  <2>2. CASE Refuse(r, "refused")
    BY <2>2, <1>r
  <2>3. CASE ~Refuse(r, "refused")
    <3> DEFINE v == [com[of] EXCEPT !.replayed = TRUE]
    <3>1. /\ com[of] # None /\ pc'[r] \in TakingBack /\ WriteRow(r, of, v)
          /\ family'[r] = com[of].family
          /\ asked' = asked /\ ended' = ended
      BY <1>0, <1>10, <2>3 DEF MarkCodeReplayed
    <3>2. /\ \A y \in Rows : writer'[y] = r => y = of
          /\ writer'[of] = r /\ cur'[of] = v /\ com' = com
      <4> HIDE DEF of, v
      <4> QED
        BY <2>1, <3>1, FirstWrite DEF Writing
    <3>3. CodeLock(r, of)' /\ of' = of
      BY <2>1, <3>1, <3>2 DEF CodeLock
    <3>4. LocksFit(r)'
      <4> HIDE DEF of
      <4> QED
        BY <2>1, <3>2, <3>3, TablesAreApart DEF LocksFit
    <3> QED
      BY <2>1, <3>1, <3>2, <3>4 DEF HasLocked
  <2> QED
    BY <2>2, <2>3
<1>11. CASE SpendRefreshToken(r)
  BY <1>11, <1>s DEF SpendRefreshToken, Writing
<1>12. CASE LockRefreshToken(r)
  <2>1. pc[r] = "r_lock" /\ of \in Requests /\ of \in Rows /\ asked[r].op = "rotate"
    BY <1>12, <1>u, TablesAreApart DEF LockRefreshToken, CallFits, StepFits
  <2>2. CASE Read(r, "r_read")
    BY <2>1, <2>2, <1>s DEF Writing
  <2>3. CASE ~Read(r, "r_read")
    <3> DEFINE v == [com[of] EXCEPT !.used = TRUE]
    <3>1. /\ com[of] # None /\ ~com[of].used /\ pc'[r] = "r_subject" /\ WriteRow(r, of, v)
          /\ asked' = asked /\ ended' = ended
      BY <1>0, <1>12, <2>3 DEF LockRefreshToken, Update, MayBeSpent
    <3>2. /\ \A y \in Rows : writer'[y] = r => y = of
          /\ writer'[of] = r /\ cur'[of] = v /\ com' = com
      <4> HIDE DEF of, v
      <4> QED
        BY <2>1, <3>1, FirstWrite DEF Writing
    <3>3. TokenLock(r, of)' /\ of' = of
      BY <2>1, <3>1, <3>2 DEF TokenLock
    <3>4. LocksFit(r)'
      <4> HIDE DEF of
      <4> QED
        BY <2>1, <3>2, <3>3, TablesAreApart DEF LocksFit
    <3> QED
      BY <2>1, <3>1, <3>2, <3>4 DEF HasLocked
  <2> QED
    BY <2>2, <2>3
<1>13. CASE ReadTokenSubject(r)
  <2>1. CASE Refuse(r, "refused")
    BY <2>1, <1>r
  <2>2. CASE ~Refuse(r, "refused")
    <3>1. pc[r] = "r_subject" /\ pc'[r] = "r_answer" /\ UNCHANGED <<storage, asked, ended>>
      BY <1>0, <1>13, <2>2 DEF ReadTokenSubject, Read
    <3>2. LocksFit(r)'
      BY <3>1 DEF storage, LocksFit, TokenLock, CodeLock, SessionLock, ConsentLock
    <3> QED
      BY <3>1, <3>2 DEF HasLocked
  <2> QED
    BY <2>1, <2>2
<1>14. CASE ReadReplayedToken(r) \/ RevokeToken(r)
  <2>1. pc[r] \in {"r_read", "v_read"} /\ asked[r].op \in {"rotate", "revoke"}
    BY <1>14, <1>u DEF ReadReplayedToken, RevokeToken, StepFits
  <2>2. CASE Refuse(r, "refused") \/ Refuse(r, "over")
    BY <2>2, <1>r
  <2>3. CASE ~(Refuse(r, "refused") \/ Refuse(r, "over"))
    <3>1. pc'[r] = "t_start" /\ writer' = writer /\ ended' = ended /\ asked' = asked
      BY <1>0, <1>14, <2>3 DEF ReadReplayedToken, RevokeToken, storage
    <3> QED
      BY <2>1, <3>1, ReaderLocksNothing DEF Writing
  <2> QED
    BY <2>2, <2>3
<1>15. CASE FindLiveSession(r)
  BY <1>15, <1>r, <1>s DEF FindLiveSession, Writing
<1>16. CASE EndSession(r)
  <2>1. pc[r] = "l_end" /\ of \in Sessions /\ of \in Rows /\ asked[r].op = "logout"
    BY <1>16, <1>u, TablesAreApart DEF EndSession, CallFits, StepFits
  <2>2. CASE Refuse(r, "over")
    BY <2>2, <1>r
  <2>3. CASE ~Refuse(r, "over")
    <3> DEFINE v == [com[of] EXCEPT !.state = "ended"]
    <3>1. /\ com[of] # None /\ pc'[r] = "t_start" /\ WriteRow(r, of, v)
          /\ asked' = asked /\ ended' = ended
      BY <1>0, <1>16, <2>3 DEF EndSession, Update
    <3>2. /\ \A y \in Rows : writer'[y] = r => y = of
          /\ writer'[of] = r /\ cur'[of] = v /\ com' = com
      <4> HIDE DEF of, v
      <4> QED
        BY <2>1, <3>1, FirstWrite DEF Writing
    <3>3. SessionLock(r, of)' /\ of' = of
      BY <2>1, <3>1, <3>2 DEF SessionLock
    <3>4. LocksFit(r)'
      <4> HIDE DEF of
      <4> QED
        BY <2>1, <3>2, <3>3, TablesAreApart DEF LocksFit
    <3> QED
      BY <2>1, <3>1, <3>2, <3>4 DEF HasLocked
  <2> QED
    BY <2>2, <2>3
<1>17. CASE DeleteConsent(r)
  <2>1. pc[r] = "w_delete" /\ of \in Consents /\ of \in Rows /\ asked[r].op = "withdraw"
    BY <1>17, <1>u, TablesAreApart DEF DeleteConsent, CallFits, StepFits
  <2>2. CASE Refuse(r, "refused")
    BY <2>2, <1>r
  <2>3. CASE ~Refuse(r, "refused")
    <3>1. pc'[r] = "t_start" /\ WriteRow(r, of, None) /\ asked' = asked /\ ended' = ended
      BY <1>0, <1>17, <2>3 DEF DeleteConsent, Update
    <3>2. /\ \A y \in Rows : writer'[y] = r => y = of
          /\ writer'[of] = r /\ cur'[of] = None /\ com' = com
      <4> HIDE DEF of
      <4> QED
        BY <2>1, <3>1, FirstWrite DEF Writing
    <3>3. ConsentLock(r, of)' /\ of' = of
      BY <2>1, <3>1, <3>2 DEF ConsentLock
    <3>4. LocksFit(r)'
      <4> HIDE DEF of
      <4> QED
        BY <2>1, <3>2, <3>3, TablesAreApart DEF LocksFit
    <3> QED
      BY <2>1, <3>1, <3>2, <3>4 DEF HasLocked
  <2> QED
    BY <2>2, <2>3
<1>18. CASE FindTokens(r)
  <2>1. pc[r] = "t_start" /\ pc'[r] = "t_rows" /\ UNCHANGED <<storage, asked, family, ended>>
    BY <1>0, <1>18 DEF FindTokens
  <2>2. LocksFit(r)'
    BY <2>1 DEF storage, LocksFit, TokenLock, CodeLock, SessionLock, ConsentLock
  <2> QED
    BY <2>1, <2>2 DEF HasLocked, storage
<1>19. CASE RevokeRow(r)
  <2>1. PICK t \in todo[r] :
          \/ /\ com[t] # None /\ ~com[t].revoked
             /\ WriteRow(r, t, [com[t] EXCEPT !.revoked = TRUE])
             /\ ended' = [ended EXCEPT ![r] = @ \cup {t}]
          \/ UNCHANGED <<storage, ended>>
    BY <1>19 DEF RevokeRow
  <2>2. t \in Requests /\ t \in Rows
    BY <1>0, TablesAreApart
  <2>3. pc[r] = "t_rows" /\ UNCHANGED <<now, pc, asked, family, told>>
    BY <1>19 DEF RevokeRow
  <2>4. CASE UNCHANGED <<storage, ended>>
    <3>1. LocksFit(r)'
      BY <2>3, <2>4 DEF storage, LocksFit, TokenLock, CodeLock, SessionLock, ConsentLock
    <3> QED
      BY <2>3, <2>4, <3>1 DEF HasLocked, storage
  <2>5. CASE /\ com[t] # None /\ ~com[t].revoked
             /\ WriteRow(r, t, [com[t] EXCEPT !.revoked = TRUE])
             /\ ended' = [ended EXCEPT ![r] = @ \cup {t}]
    <3> DEFINE v == [com[t] EXCEPT !.revoked = TRUE]
    <3>1. DOMAIN cur = Rows /\ writer \in [Rows -> Requests \cup {None}]
      BY DEF IndInv, TypeOK, AreRows
    <3>2. /\ \A y \in Rows \ {t} : writer'[y] = writer[y] /\ cur'[y] = cur[y]
          /\ writer'[t] = r /\ cur'[t] = v /\ com' = com
      <4>1. WriteRow(r, t, v)
        BY <2>5
      <4> HIDE DEF v
      <4> QED
        BY <2>2, <3>1, <4>1 DEF WriteRow
    <3>3. ended'[r] = ended[r] \cup {t}
      BY <1>0, <2>5
    <3>4. TokenLock(r, t)'
      BY <2>3, <2>5, <3>2, <3>3 DEF TokenLock
    <3> HIDE DEF v
    <3>5. ASSUME NEW u \in Requests \ {t}, writer'[u] = r PROVE TokenLock(r, u)'
      <4>1. TokenLock(r, u) /\ cur'[u] = cur[u]
        BY <3>2, <3>5, TablesAreApart DEF LocksFit
      <4> QED
        BY <4>1, <2>3, <3>2, <3>3 DEF TokenLock
    <3>6. /\ \A c \in Codes : writer'[c] = r => CodeLock(r, c)'
          /\ \A s \in Sessions : writer'[s] = r => SessionLock(r, s)'
          /\ \A y \in Consents : writer'[y] = r => ConsentLock(r, y)'
      BY <2>2, <2>3, <3>2, TablesAreApart DEF LocksFit, CodeLock, SessionLock, ConsentLock
    <3>7. HasLocked(r)'
      <4>1. \A u \in ended'[r] : writer'[u] = r
        BY <1>0, <2>3, <3>2, <3>3, TablesAreApart DEF HasLocked
      <4>2. asked[r].op = "withdraw" => of \in Consents /\ of # t /\ of \in Rows
        BY <1>u, <2>2, <2>3, TablesAreApart DEF CallFits
      <4> QED
        BY <2>3, <3>2, <4>1, <4>2 DEF HasLocked
    <3> QED
      BY <3>4, <3>5, <3>6, <3>7 DEF LocksFit
  <2> QED
    BY <2>1, <2>4, <2>5
<1>20. CASE CommitTakeBack(r)
  <2>1. \A y \in Rows : writer'[y] # r
    BY <1>20, ReleaseIsAlone DEF CommitTakeBack, Commit
  <2> QED
    BY <1>0, <1>20, <2>1, AnsweredLocksNothing DEF CommitTakeBack
<1> QED
  BY <1>1, <1>2, <1>3, <1>4, <1>5, <1>6, <1>7, <1>8, <1>9, <1>10, <1>11, <1>12, <1>13, <1>14,
     <1>15, <1>16, <1>17, <1>18, <1>19, <1>20 DEF Advance

\* The clock and the retention pass move no request, and touch no row that is locked.
LEMMA PassiveIsAlone ==
  ASSUME IndInv, Tick \/ Purge \/ UNCHANGED vars
  PROVE  Alone(None) /\ UNCHANGED <<locals, writer, sharers>>
<1>1. CASE Tick \/ UNCHANGED vars
  BY <1>1, UnchangedIsAlone DEF Tick, vars, locals, Alone, Stands, storage
<1>2. CASE Purge
  <2>1. PICK x \in Rows : DeleteRows({x}) /\ UNCHANGED <<now, locals>>
    BY <1>2, TablesAreApart DEF Purge, PurgeCode, PurgeToken, PurgeSession
  <2>2. RowsStand(None)
    BY <2>1, RequestsAreSome DEF DeleteRows, RowsStand
  <2> QED
    BY <2>1, <2>2 DEF DeleteRows, locals, Alone, Stands
<1> QED
  BY <1>1, <1>2

\* What every request has locked is inductive, given IndInv.
LEMMA NextKeepsLocks ==
  ASSUME IndInv, LockInv, [Next]_vars
  PROVE  LockInv'
<1>1. CASE Tick \/ Purge \/ UNCHANGED vars
  <2>1. \A q \in Requests : q \in Requests \ {None}
    BY RequestsAreSome
  <2> QED
    BY <1>1, <2>1, PassiveIsAlone, OthersKeepLocks DEF LockInv
<1>2. ASSUME NEW r \in Requests, Start(r) \/ Advance(r) \/ Fail(r) PROVE LockInv'
  <2>1. OwnStep(r)
    BY <1>2, StartIsOwn, AdvanceIsOwn, FailIsOwn
  <2>2. \A q \in Requests \ {r} : LocksFit(q)' /\ HasLocked(q)'
    BY <2>1, OthersKeepLocks DEF OwnStep, LockInv
  <2>3. LocksFit(r)' /\ HasLocked(r)'
    <3>1. CASE Start(r)
      BY <3>1, StartIsOwn, ReaderLocksNothing DEF LockInv, Writing, storage
    <3>2. CASE Advance(r)
      BY <3>2, AdvanceKeepsLocks DEF LockInv
    <3>3. CASE Fail(r)
      <4>1. (\A y \in Rows : writer'[y] # r) /\ pc'[r] = "failed"
        BY <3>3, ReleaseIsAlone DEF Fail, Rollback, IndInv, TypeOK
      <4> QED
        BY <4>1, AnsweredLocksNothing
    <3> QED
      BY <1>2, <3>1, <3>2, <3>3
  <2> QED
    BY <2>2, <2>3 DEF LockInv
<1> QED
  BY <1>1, <1>2 DEF Next

\* Every request has locked what its step says, and wrote of it what that step writes.
THEOREM LocksHold == Spec => []LockInv
<1>1. Init => LockInv
  <2> SUFFICES ASSUME Init, NEW r \in Requests PROVE LocksFit(r) /\ HasLocked(r)
    BY DEF LockInv
  <2>1. \A x \in Rows : writer[x] # r
    BY RequestsAreSome DEF Init, StorageInit
  <2>2. pc[r] = "idle" /\ ended[r] = {}
    BY DEF Init
  <2> QED
    BY <2>1, <2>2, TablesAreApart DEF LocksFit, HasLocked
<1> QED
  BY <1>1, NextKeepsLocks, Inductive, PTL DEF Spec

-----------------------------------------------------------------------------
(* What a step commits.                                                    *)

\* A step of r that commits nothing.
Quiet(r) == OwnStep(r) /\ com' = com /\ pc'[r] # "granted"

\* What each statement that commits publishes.
SpendsCode(r) ==
  LET c == asked[r].of
  IN /\ pc[r] = "x_spent" /\ pc'[r] \in {"x_subject", "refused"} /\ UNCHANGED <<asked, family>>
     /\ asked[r].op = "exchange" /\ c \in Codes /\ com[c] # None
     /\ com'[c] = [com[c] EXCEPT !.spent = TRUE]
     /\ \A x \in Rows \ {c} : com'[x] = com[x]

IssuesCode(r) ==
  LET c == asked[r].of
  IN /\ pc[r] = "a_issue" /\ pc'[r] = "granted" /\ UNCHANGED <<asked, family>>
     /\ asked[r].op \in {"authorize", "allow"}
     /\ c \in Codes /\ com[c] = None /\ com'[c] = NewCode(asked[r].grant, now)
     /\ \A x \in Rows \ (Consents \cup {c}) : com'[x] = com[x]
     /\ \A x \in Consents : com'[x] = com[x] \/ com'[x] # None

OpensFamily(r) ==
  LET c == asked[r].of
      g == asked[r].grant
  IN /\ asked[r].op = "exchange" /\ pc[r] = "x_answer"
     /\ pc'[r] = "granted" /\ family'[r] = r /\ asked' = asked
     /\ c \in Codes /\ g \in Grant /\ com[r] = None /\ com[g.session] # None
     /\ com'[r] = NewToken(r, g.client, g.session) /\ com'[r] # None
     /\ com[c] # None /\ ~com[c].replayed /\ com'[c] = [com[c] EXCEPT !.family = r]
     /\ \A x \in Rows \ {c, r} : com'[x] = com[x]

CarriesOn(r) ==
  LET t == asked[r].of
      row == com[t]
  IN /\ asked[r].op = "rotate" /\ pc[r] = "r_answer"
     /\ pc'[r] = "granted" /\ family'[r] = row.family /\ asked' = asked
     /\ t \in Requests \ {r} /\ com[r] = None /\ com[row.session] # None
     /\ com'[r] = NewToken(row.family, row.client, row.session) /\ com'[r] # None
     /\ row # None /\ ~row.used /\ com'[t] = [row EXCEPT !.used = TRUE]
     /\ \A x \in Rows \ {t, r} : com'[x] = com[x]

TakesBack(r) ==
  /\ pc[r] = "t_rows" /\ todo[r] = {} /\ pc'[r] \in {"refused", "over"}
  /\ UNCHANGED <<asked, family, ended>> /\ (ended[r] # {} => told'[r] # None)
  /\ \A t \in Requests \ ended[r] : com'[t] = com[t]
  /\ \A t \in ended[r] : com[t] # None /\ com'[t] = [com[t] EXCEPT !.revoked = TRUE]
  /\ \A c \in Codes :
       \/ com'[c] = com[c]
       \/ /\ asked[r].op = "exchange" /\ asked[r].of = c /\ com[c] # None
          /\ family[r] = com[c].family
          /\ com'[c] = [com[c] EXCEPT !.replayed = TRUE]
  /\ \A s \in Sessions :
       com'[s] = com[s] \/ (com[s] # None /\ com'[s] = [com[s] EXCEPT !.state = "ended"])
  /\ \A x \in Consents :
       \/ com'[x] = com[x]
       \/ asked[r].op = "withdraw" /\ asked[r].of = x /\ com'[x] = None

\* CommitSpentCode publishes that its code is spent, and nothing else.
LEMMA CommitSpentCodeEffect ==
  ASSUME NEW r \in Requests, IndInv, LockInv, CommitSpentCode(r)
  PROVE  SpendsCode(r)
<1> DEFINE c == asked[r].of
<1>1. pc[r] = "x_spent" /\ Commit(r)
  BY DEF CommitSpentCode
<1>2. asked[r].op = "exchange" /\ c \in Codes /\ c \in Rows /\ writer[c] = r
  BY <1>1, Served, TablesAreApart DEF StepFits, CallFits, HoldFits, HoldsCode
<1>3. com[c] # None /\ cur[c] = [com[c] EXCEPT !.spent = TRUE]
  BY <1>1, <1>2 DEF LockInv, LocksFit, CodeLock
<1>4. \A x \in Rows \ {c} : writer[x] # r
  BY <1>1, <1>2, RowsAssumption DEF LockInv, LocksFit, CodeLock, TokenLock, SessionLock, ConsentLock
<1>5. pc'[r] \in {"x_subject", "refused"} /\ UNCHANGED <<asked, family>>
  BY DEF CommitSpentCode, Goto, IndInv, TypeOK
<1> QED
  BY <1>1, <1>2, <1>3, <1>4, <1>5 DEF SpendsCode, Commit

\* IssueCode publishes its code, and with it at most a consent.
LEMMA IssueCodeEffect ==
  ASSUME NEW r \in Requests, IndInv, LockInv, IssueCode(r)
  PROVE  IssuesCode(r)
<1> DEFINE c == asked[r].of
<1>1. pc[r] = "a_issue" /\ InsertAndCommit(r, c, NewCode(asked[r].grant, now))
  BY DEF IssueCode
<1>2. c \in Codes /\ c \in Rows /\ com[c] = None
  BY <1>1, Served, TablesAreApart DEF StepFits, CallFits, HoldFits, Issues
<1>3. \A x \in Rows : writer[x] = r => x \in Consents /\ cur[x] # None
  BY <1>1, RowsAssumption DEF LockInv, LocksFit, CodeLock, TokenLock, SessionLock, ConsentLock
<1>4. UNCHANGED <<asked, family>> /\ pc'[r] = "granted" /\ asked[r].op \in {"authorize", "allow"}
  BY <1>1, Served DEF IssueCode, Goto, IndInv, TypeOK, StepFits
<1> QED
  BY <1>1, <1>2, <1>3, <1>4, TablesAreApart DEF IssuesCode, InsertAndCommit

\* AnswerExchange publishes a first token and the family of its code, or
\* nothing.
LEMMA AnswerExchangeEffect ==
  ASSUME NEW r \in Requests, IndInv, LockInv, AnswerExchange(r), ~Refuse(r, "failed")
  PROVE  OpensFamily(r)
<1> DEFINE c == asked[r].of
           g == asked[r].grant
           v == NewToken(r, g.client, g.session)
<1>1. pc[r] = "x_answer" /\ InsertAndCommit(r, r, v) /\ com[g.session] # None
  BY DEF AnswerExchange, IssueRefreshToken
<1>2. asked[r].op = "exchange" /\ c \in Codes /\ c \in Rows /\ writer[c] = r /\ com[r] = None
  BY <1>1, Served, TablesAreApart DEF StepFits, CallFits, LockInv, HasLocked, IndInv, Unminted
<1>3. com[c] # None /\ ~com[c].replayed /\ cur[c] = [com[c] EXCEPT !.family = r]
  BY <1>1, <1>2 DEF LockInv, LocksFit, CodeLock
<1>4. \A x \in Rows \ {c} : writer[x] # r
  BY <1>1, <1>2, RowsAssumption DEF LockInv, LocksFit, CodeLock, TokenLock, SessionLock, ConsentLock
<1>5. /\ com'[r] = v /\ com'[c] = cur[c]
      /\ \A x \in Rows \ {c, r} : com'[x] = com[x]
  <2> HIDE DEF v, c
  <2> QED
    BY <1>1, <1>2, <1>4, TablesAreApart DEF InsertAndCommit
<1>6. g \in Grant
  BY <1>1, Served DEF CallFits
<1>7. pc'[r] = "granted" /\ family'[r] = r /\ asked' = asked
  BY <1>1 DEF AnswerExchange, IssueRefreshToken, Goto, IndInv, TypeOK
<1>8. v # None
  <2>1. v \in TokenRow
    BY <1>1, <1>6, NewTokenIsRow DEF Grant
  <2> QED
    BY <2>1, SomeAssumption
<1> QED
  BY <1>1, <1>2, <1>3, <1>5, <1>6, <1>7, <1>8 DEF OpensFamily

\* AnswerRotation publishes the next token and that the last one was used, or
\* nothing.
LEMMA AnswerRotationEffect ==
  ASSUME NEW r \in Requests, IndInv, LockInv, AnswerRotation(r), ~Refuse(r, "failed")
  PROVE  CarriesOn(r)
<1> DEFINE t == asked[r].of
           old == com[t]
           row == cur[t]
           v == NewToken(row.family, row.client, row.session)
<1>1. pc[r] = "r_answer" /\ InsertAndCommit(r, r, v) /\ com[row.session] # None
  BY DEF AnswerRotation, IssueRefreshToken
<1>2. /\ t \in Requests /\ t # r /\ t \in Rows /\ writer[t] = r /\ com[r] = None
  BY <1>1, Served, TablesAreApart DEF StepFits, CallFits, HoldFits, HoldsToken, IndInv, Unminted
<1>3. com[t] # None /\ ~com[t].used /\ row = [com[t] EXCEPT !.used = TRUE]
  BY <1>1, <1>2 DEF LockInv, LocksFit, TokenLock
<1>4. \A x \in Rows \ {t} : writer[x] # r
  BY <1>1, <1>2, RowsAssumption DEF LockInv, LocksFit, CodeLock, TokenLock, SessionLock, ConsentLock
<1>5. /\ com'[r] = v /\ com'[t] = row
      /\ \A x \in Rows \ {t, r} : com'[x] = com[x]
  <2> HIDE DEF v, t
  <2> QED
    BY <1>1, <1>2, <1>4, TablesAreApart DEF InsertAndCommit, row
<1>6. com[t] \in TokenRow
  BY <1>2, <1>3 DEF IndInv, TypeOK, AreRows
<1>7. row.family = old.family /\ row.client = old.client /\ row.session = old.session
  BY <1>3, <1>6 DEF TokenRow
<1>8. pc'[r] = "granted" /\ family'[r] = row.family /\ asked' = asked
  BY <1>1 DEF AnswerRotation, IssueRefreshToken, Goto, IndInv, TypeOK
<1>9. asked[r].op = "rotate"
  BY <1>1, Served DEF StepFits
<1>10. v # None
  <2>1. row.family \in Requests /\ row.client \in Clients /\ row.session \in Sessions
    BY <1>6, <1>7 DEF TokenRow
  <2>2. v \in TokenRow
    BY <1>1, <2>1, NewTokenIsRow
  <2> QED
    BY <2>2, SomeAssumption
<1> QED
  BY <1>1, <1>2, <1>3, <1>5, <1>7, <1>8, <1>9, <1>10 DEF CarriesOn

\* CommitTakeBack publishes what was revoked, and why.
LEMMA CommitTakeBackEffect ==
  ASSUME NEW r \in Requests, IndInv, LockInv, CommitTakeBack(r)
  PROVE  TakesBack(r)
<1>1. pc[r] = "t_rows" /\ Commit(r)
  BY DEF CommitTakeBack
<1>2. LocksFit(r) /\ HasLocked(r) /\ ended[r] \in SUBSET Requests
  BY DEF LockInv, IndInv, TypeOK
<1>3. \A t \in Requests : (writer[t] = r) <=> (t \in ended[r])
  BY <1>1, <1>2 DEF LocksFit, TokenLock, HasLocked
<1>4. \A x \in Rows : com'[x] = IF writer[x] = r THEN cur[x] ELSE com[x]
  BY <1>1 DEF Commit
<1>5. \A t \in Requests \ ended[r] : com'[t] = com[t]
  BY <1>3, <1>4, TablesAreApart
<1>6. \A t \in ended[r] : com[t] # None /\ com'[t] = [com[t] EXCEPT !.revoked = TRUE]
  BY <1>1, <1>2, <1>3, <1>4, TablesAreApart DEF LocksFit, TokenLock
<1>7. ASSUME NEW c \in Codes, writer[c] = r
      PROVE  /\ asked[r].op = "exchange" /\ asked[r].of = c /\ com[c] # None
             /\ family[r] = com[c].family
             /\ com'[c] = [com[c] EXCEPT !.replayed = TRUE]
  BY <1>1, <1>2, <1>4, <1>7, TablesAreApart DEF LocksFit, CodeLock
<1>8. ASSUME NEW s \in Sessions, writer[s] = r
      PROVE  com[s] # None /\ com'[s] = [com[s] EXCEPT !.state = "ended"]
  BY <1>2, <1>4, <1>8, TablesAreApart DEF LocksFit, SessionLock
<1>9. ASSUME NEW x \in Consents, writer[x] = r
      PROVE  asked[r].op = "withdraw" /\ asked[r].of = x /\ com'[x] = None
  BY <1>1, <1>2, <1>4, <1>9, TablesAreApart DEF LocksFit, ConsentLock
<1>10. /\ todo[r] = {} /\ pc'[r] \in {"refused", "over"}
       /\ UNCHANGED <<asked, family, ended>>
  BY DEF CommitTakeBack, Goto, IndInv, TypeOK
<1>11. ended[r] # {} => told'[r] # None
  <2>1. [kind |-> EventOf(asked[r].op), family |-> family[r]] \in Event
    BY DEF EventOf, Event, IndInv, TypeOK
  <2> QED
    BY <2>1, SomeAssumption DEF CommitTakeBack, Tells, IndInv, TypeOK
<1> QED
  BY <1>1, <1>4, <1>5, <1>6, <1>7, <1>8, <1>9, <1>10, <1>11, TablesAreApart DEF TakesBack

\* Every other statement commits nothing.
LEMMA OthersAreQuiet ==
  ASSUME NEW r \in Requests, IndInv, Start(r) \/ Advance(r) \/ Fail(r)
  PROVE  \/ Quiet(r)
         \/ CommitSpentCode(r)
         \/ IssueCode(r)
         \/ AnswerExchange(r) /\ ~Refuse(r, "failed")
         \/ AnswerRotation(r) /\ ~Refuse(r, "failed")
         \/ CommitTakeBack(r)
<1> USE DEF Goto
<1>0. pc \in [Requests -> Steps \cup Outcomes]
  BY DEF IndInv, TypeOK
<1>1. CASE Start(r)
  BY <1>1, StartIsOwn DEF Quiet, storage
<1>2. CASE Fail(r)
  BY <1>0, <1>2, FailIsOwn DEF Fail, Rollback, Quiet
<1>3. CASE Advance(r)
  <2>0. OwnStep(r)
    BY <1>3, AdvanceIsOwn
  <2>1. ASSUME NEW to, Refuse(r, to), to # "granted" PROVE com' = com /\ pc'[r] # "granted"
    BY <1>0, <2>1 DEF Refuse, Rollback
  <2>2. ASSUME NEW to, Read(r, to), to # "granted" PROVE com' = com /\ pc'[r] # "granted"
    BY <1>0, <2>2 DEF Read, storage
  <2>3. ASSUME NEW to, NEW x, NEW v, Update(r, to, x, v), to # "granted"
        PROVE  com' = com /\ pc'[r] # "granted"
    BY <1>0, <2>3 DEF Update, WriteRow
  <2>4. ASSUME FindSession(r) \/ SettleConsent(r) \/ ReadCodeSubject(r)
        PROVE  com' = com /\ pc'[r] # "granted"
    BY <2>4, <2>1, <2>2, <2>3 DEF FindSession, SettleConsent, ReadCodeSubject
  <2>5. ASSUME SpendAuthorizationCode(r) \/ BindCodeFamily(r) \/ MarkCodeReplayed(r)
        PROVE  com' = com /\ pc'[r] # "granted"
    BY <1>0, <2>5, <2>1, <2>2
    DEF SpendAuthorizationCode, BindCodeFamily, MarkCodeReplayed, WriteRow
  <2>6. ASSUME HoldConsent(r) PROVE com' = com /\ pc'[r] # "granted"
    BY <1>0, <2>6, <2>1, <2>2 DEF HoldConsent, HoldRow
  <2>7. ASSUME SpendRefreshToken(r) \/ LockRefreshToken(r) \/ ReadTokenSubject(r)
        PROVE  com' = com /\ pc'[r] # "granted"
    BY <2>7, <2>1, <2>2, <2>3 DEF SpendRefreshToken, LockRefreshToken, ReadTokenSubject
  <2>8. ASSUME ReadReplayedToken(r) \/ RevokeToken(r) PROVE com' = com /\ pc'[r] # "granted"
    BY <1>0, <2>8, <2>1 DEF ReadReplayedToken, RevokeToken, storage
  <2>9. ASSUME FindLiveSession(r) \/ EndSession(r) \/ DeleteConsent(r)
        PROVE  com' = com /\ pc'[r] # "granted"
    BY <2>9, <2>1, <2>2, <2>3 DEF FindLiveSession, EndSession, DeleteConsent
  <2>10. ASSUME FindTokens(r) PROVE com' = com /\ pc'[r] # "granted"
    BY <1>0, <2>10 DEF FindTokens, storage
  <2>11. ASSUME RevokeRow(r) PROVE com' = com /\ pc'[r] # "granted"
    BY <2>11 DEF RevokeRow, WriteRow, storage
  <2>12. ASSUME Refuse(r, "failed") PROVE com' = com /\ pc'[r] # "granted"
    BY <2>12, <2>1
  <2> QED
    BY <1>3, <2>0, <2>4, <2>5, <2>6, <2>7, <2>8, <2>9, <2>10, <2>11, <2>12 DEF Advance, Quiet
<1> QED
  BY <1>1, <1>2, <1>3

-----------------------------------------------------------------------------
(* What no step undoes.                                                    *)

\* A row keeps what it is of, and is marked for good.
TokenMoves(t) ==
  com[t] # None /\ com'[t] # None =>
    /\ com'[t].family = com[t].family /\ com'[t].client = com[t].client
    /\ com'[t].session = com[t].session /\ com'[t].expires = com[t].expires
    /\ com[t].used => com'[t].used
    /\ com[t].revoked => com'[t].revoked

CodeMoves(c) ==
  com[c] # None /\ com'[c] # None =>
    /\ com'[c].client = com[c].client /\ com'[c].session = com[c].session
    /\ com'[c].expires = com[c].expires
    /\ com[c].spent => com'[c].spent
    /\ com[c].replayed => com'[c].replayed

SessionMoves(s) ==
  /\ com[s] = None => com'[s] = None
  /\ com[s] # None /\ com'[s] # None =>
       /\ com'[s].expires = com[s].expires
       /\ com'[s].state = "active" => com[s].state = "active"

\* A row comes once, and goes only when it is past its time.
ComesOnce ==
  /\ \A t \in Requests : com[t] = None /\ com'[t] # None => pc[t] \in {"x_answer", "r_answer"}
  /\ \A c \in Codes : com[c] = None /\ com'[c] # None =>
       \E q \in Requests : pc[q] = "a_issue" /\ asked[q].of = c

GoesLate ==
  /\ \A c \in Codes : com[c] # None /\ com'[c] = None => com[c].expires + CodesKept < now
  /\ \A x \in Requests \cup Sessions : com[x] # None /\ com'[x] = None => com[x].expires < now

MovesOn ==
  /\ now \in Nat /\ now' \in Nat /\ now <= now'
  /\ \A t \in Requests : TokenMoves(t)
  /\ \A c \in Codes : CodeMoves(c)
  /\ \A s \in Sessions : SessionMoves(s)
  /\ ComesOnce /\ GoesLate

\* A row that stays as it is moves on.
LEMMA SameRowMoves ==
  ASSUME NEW x, com'[x] = com[x]
  PROVE  TokenMoves(x) /\ CodeMoves(x) /\ SessionMoves(x)
  BY DEF TokenMoves, CodeMoves, SessionMoves

\* What a written row is, field by field.
LEMMA SpentCode ==
  ASSUME IndInv, NEW c \in Codes, com[c] # None, NEW v, v = [com[c] EXCEPT !.spent = TRUE]
  PROVE  /\ v # None /\ v.client = com[c].client /\ v.session = com[c].session
         /\ v.expires = com[c].expires /\ v.spent /\ v.replayed = com[c].replayed
         /\ v.family = com[c].family
<1>1. com[c] \in CodeRow
  BY DEF IndInv, TypeOK, AreRows
<1>2. v \in CodeRow
  BY <1>1 DEF CodeRow
<1> QED
  BY <1>1, <1>2, SomeAssumption DEF CodeRow

\* What marking a code replayed leaves of its row.
LEMMA ReplayedCode ==
  ASSUME IndInv, NEW c \in Codes, com[c] # None, NEW v, v = [com[c] EXCEPT !.replayed = TRUE]
  PROVE  /\ v # None /\ v.client = com[c].client /\ v.session = com[c].session
         /\ v.expires = com[c].expires /\ v.spent = com[c].spent /\ v.replayed
         /\ v.family = com[c].family
<1>1. com[c] \in CodeRow
  BY DEF IndInv, TypeOK, AreRows
<1>2. v \in CodeRow
  BY <1>1 DEF CodeRow
<1> QED
  BY <1>1, <1>2, SomeAssumption DEF CodeRow

\* What naming the family of a code leaves of its row.
LEMMA BoundCode ==
  ASSUME IndInv, NEW c \in Codes, com[c] # None, NEW r \in Requests,
         NEW v, v = [com[c] EXCEPT !.family = r]
  PROVE  /\ v # None /\ v.client = com[c].client /\ v.session = com[c].session
         /\ v.expires = com[c].expires /\ v.spent = com[c].spent /\ v.replayed = com[c].replayed
         /\ v.family = r
<1>1. com[c] \in CodeRow
  BY DEF IndInv, TypeOK, AreRows
<1>2. v \in CodeRow
  BY <1>1 DEF CodeRow
<1> QED
  BY <1>1, <1>2, SomeAssumption DEF CodeRow

\* What marking a token used leaves of its row.
LEMMA UsedToken ==
  ASSUME IndInv, NEW t \in Requests, com[t] # None, NEW v, v = [com[t] EXCEPT !.used = TRUE]
  PROVE  /\ v # None /\ v.family = com[t].family /\ v.client = com[t].client
         /\ v.session = com[t].session /\ v.expires = com[t].expires
         /\ v.used /\ v.revoked = com[t].revoked
<1>1. com[t] \in TokenRow
  BY DEF IndInv, TypeOK, AreRows
<1>2. v \in TokenRow
  BY <1>1 DEF TokenRow
<1> QED
  BY <1>1, <1>2, SomeAssumption DEF TokenRow

\* What revoking a token leaves of its row.
LEMMA RevokedToken ==
  ASSUME IndInv, NEW t \in Requests, com[t] # None, NEW v, v = [com[t] EXCEPT !.revoked = TRUE]
  PROVE  /\ v # None /\ v.family = com[t].family /\ v.client = com[t].client
         /\ v.session = com[t].session /\ v.expires = com[t].expires
         /\ v.used = com[t].used /\ v.revoked
<1>1. com[t] \in TokenRow
  BY DEF IndInv, TypeOK, AreRows
<1>2. v \in TokenRow
  BY <1>1 DEF TokenRow
<1> QED
  BY <1>1, <1>2, SomeAssumption DEF TokenRow

\* What ending a session leaves of its row.
LEMMA EndedSession ==
  ASSUME IndInv, NEW s \in Sessions, com[s] # None, NEW v, v = [com[s] EXCEPT !.state = "ended"]
  PROVE  v # None /\ v.expires = com[s].expires /\ v.state = "ended"
<1>1. com[s] \in SessionRow
  BY DEF IndInv, TypeOK, AreRows
<1>2. v \in SessionRow
  BY <1>1 DEF SessionRow
<1> QED
  BY <1>1, <1>2, SomeAssumption DEF SessionRow

\* Every step moves on.
LEMMA NextMovesOn ==
  ASSUME IndInv, IndInv', LockInv, [Next]_vars
  PROVE  MovesOn
<1>0. now \in Nat /\ now' \in Nat
  BY DEF IndInv, TypeOK
<1>1. ASSUME com' = com, now' = now \/ now' = now + 1 PROVE MovesOn
  BY <1>0, <1>1, SameRowMoves DEF MovesOn, ComesOnce, GoesLate
<1>2. CASE Tick \/ UNCHANGED vars
  BY <1>1, <1>2 DEF Tick, vars, storage
<1>3. CASE Purge
  <2>1. PICK x \in Codes \cup Requests \cup Sessions :
          /\ DeleteRows({x}) /\ com[x] # None /\ now' = now
          /\ x \in Codes => com[x].expires + CodesKept < now
          /\ x \notin Codes => com[x].expires < now
    BY <1>3, TablesAreApart DEF Purge, PurgeCode, PurgeToken, PurgeSession
  <2>2. \A y \in Rows : com'[y] = IF y = x THEN None ELSE com[y]
    BY <2>1 DEF DeleteRows
  <2>3. \A y \in Rows : TokenMoves(y) /\ CodeMoves(y) /\ (y \in Sessions => SessionMoves(y))
    BY <2>2 DEF TokenMoves, CodeMoves, SessionMoves
  <2> QED
    BY <1>0, <2>1, <2>2, <2>3, TablesAreApart DEF MovesOn, ComesOnce, GoesLate
<1>4. ASSUME NEW r \in Requests, Start(r) \/ Advance(r) \/ Fail(r) PROVE MovesOn
  <2>0. OwnStep(r) /\ now' = now
    BY <1>4, StartIsOwn, AdvanceIsOwn, FailIsOwn DEF OwnStep
  <2>1. CASE Quiet(r)
    BY <1>1, <2>1 DEF Quiet, OwnStep
  <2>2. CASE CommitSpentCode(r)
    <3>1. SpendsCode(r)
      BY <2>2, CommitSpentCodeEffect
    <3>2. PICK c \in Codes : /\ com[c] # None /\ com'[c] = [com[c] EXCEPT !.spent = TRUE]
                             /\ \A x \in Rows \ {c} : com'[x] = com[x]
      BY <3>1 DEF SpendsCode
    <3>3. CodeMoves(c) /\ com'[c] # None
      BY <3>2, SpentCode DEF CodeMoves
    <3> QED
      BY <1>0, <2>0, <3>2, <3>3, SameRowMoves, TablesAreApart DEF MovesOn, ComesOnce, GoesLate
  <2>3. CASE IssueCode(r)
    <3>1. IssuesCode(r) /\ pc[r] = "a_issue"
      BY <2>3, IssueCodeEffect DEF IssueCode
    <3>2. /\ asked[r].of \in Codes /\ com[asked[r].of] = None
          /\ \A x \in Rows \ (Consents \cup {asked[r].of}) : com'[x] = com[x]
      BY <3>1 DEF IssuesCode
    <3>3. CodeMoves(asked[r].of)
      BY <3>2 DEF CodeMoves
    <3> QED
      BY <1>0, <2>0, <3>1, <3>2, <3>3, SameRowMoves, TablesAreApart DEF MovesOn, ComesOnce, GoesLate
  <2>4. CASE AnswerExchange(r) /\ ~Refuse(r, "failed")
    <3>1. OpensFamily(r) /\ pc[r] = "x_answer"
      BY <2>4, AnswerExchangeEffect DEF AnswerExchange
    <3>2. PICK c \in Codes : /\ com[c] # None /\ com'[c] = [com[c] EXCEPT !.family = r]
                             /\ \A x \in Rows \ {c, r} : com'[x] = com[x]
      BY <3>1 DEF OpensFamily
    <3>3. CodeMoves(c) /\ com'[c] # None /\ com[r] = None
      BY <3>1, <3>2, BoundCode DEF CodeMoves, OpensFamily
    <3>4. TokenMoves(r)
      BY <3>3 DEF TokenMoves
    <3> QED
      BY <1>0, <2>0, <3>1, <3>2, <3>3, <3>4, SameRowMoves, TablesAreApart
      DEF MovesOn, ComesOnce, GoesLate
  <2>5. CASE AnswerRotation(r) /\ ~Refuse(r, "failed")
    <3>1. CarriesOn(r) /\ pc[r] = "r_answer"
      BY <2>5, AnswerRotationEffect DEF AnswerRotation
    <3>2. PICK t \in Requests : /\ com[t] # None /\ com'[t] = [com[t] EXCEPT !.used = TRUE]
                                /\ \A x \in Rows \ {t, r} : com'[x] = com[x]
                                /\ com[r] = None
      BY <3>1 DEF CarriesOn
    <3>3. TokenMoves(t) /\ com'[t] # None
      BY <3>2, UsedToken DEF TokenMoves
    <3>4. TokenMoves(r)
      BY <3>2 DEF TokenMoves
    <3> QED
      BY <1>0, <2>0, <3>1, <3>2, <3>3, <3>4, SameRowMoves, TablesAreApart
      DEF MovesOn, ComesOnce, GoesLate
  <2>6. CASE CommitTakeBack(r)
    <3>1. TakesBack(r) /\ ended[r] \in SUBSET Requests
      BY <2>6, CommitTakeBackEffect DEF IndInv, TypeOK
    <3>2. ASSUME NEW t \in Requests
          PROVE  TokenMoves(t) /\ (com[t] # None => com'[t] # None) /\ (com[t] = None => com'[t] = None)
      <4>1. CASE t \in ended[r]
        <5>1. com[t] # None /\ com'[t] = [com[t] EXCEPT !.revoked = TRUE]
          BY <3>1, <4>1 DEF TakesBack
        <5> QED
          BY <5>1, RevokedToken DEF TokenMoves
      <4>2. CASE t \notin ended[r]
        BY <3>1, <4>2, SameRowMoves DEF TakesBack
      <4> QED
        BY <4>1, <4>2
    <3>3. ASSUME NEW c \in Codes
          PROVE  CodeMoves(c) /\ (com[c] # None => com'[c] # None) /\ (com[c] = None => com'[c] = None)
      <4>1. CASE com'[c] = com[c]
        BY <4>1, SameRowMoves
      <4>2. CASE com'[c] # com[c]
        <5>1. com[c] # None /\ com'[c] = [com[c] EXCEPT !.replayed = TRUE]
          BY <3>1, <4>2 DEF TakesBack
        <5> QED
          BY <5>1, ReplayedCode DEF CodeMoves
      <4> QED
        BY <4>1, <4>2
    <3>4. ASSUME NEW s \in Sessions
          PROVE  SessionMoves(s) /\ (com[s] # None => com'[s] # None)
      <4>1. CASE com'[s] = com[s]
        BY <4>1, SameRowMoves
      <4>2. CASE com'[s] # com[s]
        <5>1. com[s] # None /\ com'[s] = [com[s] EXCEPT !.state = "ended"]
          BY <3>1, <4>2 DEF TakesBack
        <5>2. com'[s].state # "active"
          BY <5>1, EndedSession
        <5> QED
          BY <5>1, <5>2, EndedSession DEF SessionMoves
      <4> QED
        BY <4>1, <4>2
    <3> QED
      BY <1>0, <2>0, <3>2, <3>3, <3>4 DEF MovesOn, ComesOnce, GoesLate
  <2> QED
    BY <1>4, <2>1, <2>2, <2>3, <2>4, <2>5, <2>6, OthersAreQuiet
<1> QED
  BY <1>2, <1>3, <1>4 DEF Next

-----------------------------------------------------------------------------
(* Every step commits nothing, or one of these.                            *)

Forgets(x) ==
  /\ UNCHANGED locals /\ now' = now /\ com[x] # None
  /\ x \in Codes => com[x].expires + CodesKept < now
  /\ x \notin Codes => com[x].expires < now
  /\ \A y \in Rows : com'[y] = IF y = x THEN None ELSE com[y]

CommitsBy(r) ==
  OwnStep(r) /\ (SpendsCode(r) \/ IssuesCode(r) \/ OpensFamily(r) \/ CarriesOn(r) \/ TakesBack(r))

\* A step commits nothing, one of the five commits, or the removal of one row.
LEMMA StepCommits ==
  ASSUME IndInv, LockInv, [Next]_vars
  PROVE  \/ UNCHANGED <<com, locals>>
         \/ \E r \in Requests : Quiet(r)
         \/ \E r \in Requests : CommitsBy(r)
         \/ \E x \in Codes \cup Requests \cup Sessions : Forgets(x)
<1>1. CASE Tick \/ UNCHANGED vars
  BY <1>1 DEF Tick, vars, storage
<1>2. CASE Purge
  <2>1. PICK x \in Codes \cup Requests \cup Sessions :
          /\ DeleteRows({x}) /\ com[x] # None /\ UNCHANGED <<now, locals>>
          /\ x \in Codes => com[x].expires + CodesKept < now
          /\ x \notin Codes => com[x].expires < now
    BY <1>2, TablesAreApart DEF Purge, PurgeCode, PurgeToken, PurgeSession
  <2>2. Forgets(x)
    BY <2>1 DEF Forgets, DeleteRows
  <2> QED
    BY <2>2
<1>3. ASSUME NEW r \in Requests, Start(r) \/ Advance(r) \/ Fail(r) PROVE Quiet(r) \/ CommitsBy(r)
  <2>1. OwnStep(r)
    BY <1>3, StartIsOwn, AdvanceIsOwn, FailIsOwn
  <2> QED
    BY <1>3, <2>1, OthersAreQuiet, CommitSpentCodeEffect, IssueCodeEffect, AnswerExchangeEffect,
       AnswerRotationEffect, CommitTakeBackEffect DEF CommitsBy
<1> QED
  BY <1>1, <1>2, <1>3 DEF Next

\* A request that was answered stays as it is.
LEMMA AnsweredStands ==
  ASSUME IndInv, [Next]_vars, NEW q \in Requests, pc[q] \in Outcomes
  PROVE  Stands(q)
<1>1. CASE Tick \/ Purge \/ UNCHANGED vars
  BY <1>1, PassiveIsAlone DEF locals, Stands
<1>2. ASSUME NEW r \in Requests, Start(r) \/ Advance(r) \/ Fail(r) PROVE Stands(q)
  <2>1. OwnStep(r)
    BY <1>2, StartIsOwn, AdvanceIsOwn, FailIsOwn
  <2> QED
    BY <2>1 DEF OwnStep, Alone
<1> QED
  BY <1>1, <1>2 DEF Next

\* Who wrote what a step made of a row.
LEMMA MintedBy ==
  ASSUME IndInv, LockInv, [Next]_vars, NEW t \in Requests, com[t] = None, com'[t] # None
  PROVE  OwnStep(t) /\ (OpensFamily(t) \/ CarriesOn(t))
<1>1. ASSUME NEW r \in Requests, SpendsCode(r) PROVE FALSE
  BY <1>1, TablesAreApart DEF SpendsCode
<1>2. ASSUME NEW r \in Requests, IssuesCode(r) PROVE FALSE
  BY <1>2, TablesAreApart DEF IssuesCode
<1>3. ASSUME NEW r \in Requests, OpensFamily(r) PROVE r = t
  BY <1>3, TablesAreApart DEF OpensFamily
<1>4. ASSUME NEW r \in Requests, CarriesOn(r) PROVE r = t
  BY <1>4, TablesAreApart DEF CarriesOn
<1>5. ASSUME NEW r \in Requests, TakesBack(r) PROVE FALSE
  BY <1>5 DEF TakesBack
<1>6. ASSUME NEW x, Forgets(x) PROVE FALSE
  BY <1>6, TablesAreApart DEF Forgets
<1> QED
  BY <1>1, <1>2, <1>3, <1>4, <1>5, <1>6, StepCommits DEF CommitsBy, Quiet

\* A token is marked used by the rotation that carries its family on.
LEMMA UsedBy ==
  ASSUME IndInv, LockInv, [Next]_vars, NEW t \in Requests,
         com[t] # None, com'[t] # None, ~com[t].used, com'[t].used
  PROVE  \E r \in Requests : OwnStep(r) /\ CarriesOn(r) /\ asked[r].of = t
<1>1. ASSUME NEW r \in Requests, SpendsCode(r) PROVE FALSE
  BY <1>1, TablesAreApart DEF SpendsCode
<1>2. ASSUME NEW r \in Requests, IssuesCode(r) PROVE FALSE
  BY <1>2, TablesAreApart DEF IssuesCode
<1>3. ASSUME NEW r \in Requests, OpensFamily(r) PROVE FALSE
  BY <1>3, TablesAreApart DEF OpensFamily
<1>4. ASSUME NEW r \in Requests, CarriesOn(r) PROVE asked[r].of = t
  BY <1>4, TablesAreApart DEF CarriesOn
<1>5. ASSUME NEW r \in Requests, TakesBack(r) PROVE FALSE
  <2>1. com'[t] = com[t] \/ com'[t] = [com[t] EXCEPT !.revoked = TRUE]
    BY <1>5 DEF TakesBack
  <2> QED
    BY <2>1, RevokedToken
<1>6. ASSUME NEW x, Forgets(x) PROVE FALSE
  BY <1>6, TablesAreApart DEF Forgets
<1> QED
  BY <1>1, <1>2, <1>3, <1>4, <1>5, <1>6, StepCommits DEF CommitsBy, Quiet

\* A token is revoked by a request that takes it back.
LEMMA RevokedBy ==
  ASSUME IndInv, LockInv, [Next]_vars, NEW t \in Requests,
         com[t] # None, com'[t] # None, ~com[t].revoked, com'[t].revoked
  PROVE  \E r \in Requests : OwnStep(r) /\ TakesBack(r) /\ t \in ended[r]
<1>1. ASSUME NEW r \in Requests, SpendsCode(r) PROVE FALSE
  BY <1>1, TablesAreApart DEF SpendsCode
<1>2. ASSUME NEW r \in Requests, IssuesCode(r) PROVE FALSE
  BY <1>2, TablesAreApart DEF IssuesCode
<1>3. ASSUME NEW r \in Requests, OpensFamily(r) PROVE FALSE
  BY <1>3, TablesAreApart DEF OpensFamily
<1>4. ASSUME NEW r \in Requests, CarriesOn(r) PROVE FALSE
  BY <1>4, TablesAreApart, UsedToken DEF CarriesOn
<1>5. ASSUME NEW r \in Requests, TakesBack(r) PROVE t \in ended[r]
  BY <1>5 DEF TakesBack
<1>6. ASSUME NEW x, Forgets(x) PROVE FALSE
  BY <1>6, TablesAreApart DEF Forgets
<1> QED
  BY <1>1, <1>2, <1>3, <1>4, <1>5, <1>6, StepCommits DEF CommitsBy, Quiet

\* A code is marked replayed by an exchange that takes back its family.
LEMMA ReplayedBy ==
  ASSUME IndInv, LockInv, [Next]_vars, NEW c \in Codes,
         com[c] # None, com'[c] # None, ~com[c].replayed, com'[c].replayed
  PROVE  \E r \in Requests : /\ OwnStep(r) /\ TakesBack(r) /\ asked[r].op = "exchange"
                             /\ asked[r].of = c /\ family[r] = com[c].family
<1>1. ASSUME NEW r \in Requests, SpendsCode(r) PROVE FALSE
  BY <1>1, TablesAreApart, SpentCode DEF SpendsCode
<1>2. ASSUME NEW r \in Requests, IssuesCode(r) PROVE FALSE
  BY <1>2, TablesAreApart DEF IssuesCode
<1>3. ASSUME NEW r \in Requests, OpensFamily(r) PROVE FALSE
  BY <1>3, TablesAreApart, BoundCode DEF OpensFamily
<1>4. ASSUME NEW r \in Requests, CarriesOn(r) PROVE FALSE
  BY <1>4, TablesAreApart DEF CarriesOn
<1>5. ASSUME NEW r \in Requests, TakesBack(r)
      PROVE  asked[r].op = "exchange" /\ asked[r].of = c /\ family[r] = com[c].family
  BY <1>5 DEF TakesBack
<1>6. ASSUME NEW x, Forgets(x) PROVE FALSE
  BY <1>6, TablesAreApart DEF Forgets
<1> QED
  BY <1>1, <1>2, <1>3, <1>4, <1>5, <1>6, StepCommits DEF CommitsBy, Quiet

\* A code is given its family by the exchange that opens it.
LEMMA BoundBy ==
  ASSUME IndInv, LockInv, [Next]_vars, NEW c \in Codes,
         com[c] # None, com'[c] # None, com'[c].family # com[c].family
  PROVE  \E r \in Requests : /\ OwnStep(r) /\ OpensFamily(r)
                             /\ asked[r].of = c /\ com'[c].family = r
<1>1. ASSUME NEW r \in Requests, SpendsCode(r) PROVE FALSE
  BY <1>1, TablesAreApart, SpentCode DEF SpendsCode
<1>2. ASSUME NEW r \in Requests, IssuesCode(r) PROVE FALSE
  BY <1>2, TablesAreApart DEF IssuesCode
<1>3. ASSUME NEW r \in Requests, OpensFamily(r) PROVE asked[r].of = c /\ com'[c].family = r
  BY <1>3, TablesAreApart, BoundCode DEF OpensFamily
<1>4. ASSUME NEW r \in Requests, CarriesOn(r) PROVE FALSE
  BY <1>4, TablesAreApart DEF CarriesOn
<1>5. ASSUME NEW r \in Requests, TakesBack(r) PROVE FALSE
  BY <1>5, ReplayedCode DEF TakesBack
<1>6. ASSUME NEW x, Forgets(x) PROVE FALSE
  BY <1>6, TablesAreApart DEF Forgets
<1> QED
  BY <1>1, <1>2, <1>3, <1>4, <1>5, <1>6, StepCommits DEF CommitsBy, Quiet

\* A code is issued by the request that asked for it.
LEMMA IssuedBy ==
  ASSUME IndInv, LockInv, [Next]_vars, NEW c \in Codes, com[c] = None, com'[c] # None
  PROVE  \E r \in Requests : OwnStep(r) /\ IssuesCode(r) /\ asked[r].of = c
<1>1. ASSUME NEW r \in Requests, SpendsCode(r) PROVE FALSE
  BY <1>1, TablesAreApart DEF SpendsCode
<1>2. ASSUME NEW r \in Requests, IssuesCode(r) PROVE asked[r].of = c
  BY <1>2, TablesAreApart DEF IssuesCode
<1>3. ASSUME NEW r \in Requests, OpensFamily(r) PROVE FALSE
  BY <1>3, TablesAreApart DEF OpensFamily
<1>4. ASSUME NEW r \in Requests, CarriesOn(r) PROVE FALSE
  BY <1>4, TablesAreApart DEF CarriesOn
<1>5. ASSUME NEW r \in Requests, TakesBack(r) PROVE FALSE
  BY <1>5 DEF TakesBack
<1>6. ASSUME NEW x, Forgets(x) PROVE FALSE
  BY <1>6, TablesAreApart DEF Forgets
<1> QED
  BY <1>1, <1>2, <1>3, <1>4, <1>5, <1>6, StepCommits DEF CommitsBy, Quiet

\* A consent goes when its withdrawal commits.
LEMMA WithdrawnBy ==
  ASSUME IndInv, LockInv, [Next]_vars, NEW x \in Consents, com[x] # None, com'[x] = None
  PROVE  \E r \in Requests : /\ OwnStep(r) /\ TakesBack(r)
                             /\ asked[r].op = "withdraw" /\ asked[r].of = x
<1>1. ASSUME NEW r \in Requests, SpendsCode(r) PROVE FALSE
  BY <1>1, TablesAreApart DEF SpendsCode
<1>2. ASSUME NEW r \in Requests, IssuesCode(r) PROVE FALSE
  BY <1>2, TablesAreApart DEF IssuesCode
<1>3. ASSUME NEW r \in Requests, OpensFamily(r) PROVE FALSE
  BY <1>3, TablesAreApart DEF OpensFamily
<1>4. ASSUME NEW r \in Requests, CarriesOn(r) PROVE FALSE
  BY <1>4, TablesAreApart DEF CarriesOn
<1>5. ASSUME NEW r \in Requests, TakesBack(r) PROVE asked[r].op = "withdraw" /\ asked[r].of = x
  BY <1>5 DEF TakesBack
<1>6. ASSUME NEW y \in Codes \cup Requests \cup Sessions, Forgets(y) PROVE FALSE
  BY <1>6, TablesAreApart DEF Forgets
<1> QED
  BY <1>1, <1>2, <1>3, <1>4, <1>5, <1>6, StepCommits DEF CommitsBy, Quiet

-----------------------------------------------------------------------------
(* What is committed of families: who opened them, what they rest on, and  *)
(* which of their tokens were used.                                        *)

\* f opened a family, which bears its name.
Opened(f) == f \in Requests /\ IsGranted(f, "exchange") /\ family[f] = f

\* Nothing outlives a session, and nothing of one goes before it.
ExpiryFits ==
  \A x \in Sessions \cup Requests : com[x] # None => com[x].expires = SessionLifetime

StaysFits ==
  now <= SessionLifetime =>
    /\ \A s \in Sessions : com[s] # None
    /\ \A t \in Requests : IsGranted(t, "exchange") \/ IsGranted(t, "rotate") => com[t] # None

\* A token is of a family somebody opened, and rests on what its first rests on.
FamilyFits(t) ==
  com[t] # None =>
    /\ pc[t] = "granted" /\ family[t] = com[t].family /\ Opened(com[t].family)
    /\ com[com[t].family] # None =>
         /\ com[com[t].family].family = com[t].family
         /\ com[com[t].family].client = com[t].client
         /\ com[com[t].family].session = com[t].session

\* A code names the family it opened, from the moment it opened one.
NamedFits(c) ==
  com[c] # None /\ com[c].family # None => Opened(com[c].family) /\ asked[com[c].family].of = c

BoundFits(f) ==
  Opened(f) /\ com[asked[f].of] # None => com[asked[f].of].family = f

\* Of two tokens of a family one was used.
OneUnused(t, u) ==
  com[t] # None /\ com[u] # None /\ com[t].family = com[u].family => com[t].used \/ com[u].used

\* A revoked token is one an answered request revoked, and told of.
RevokedFits(t) ==
  com[t] # None /\ com[t].revoked =>
    \E r \in Requests : pc[r] \in Outcomes /\ told[r] # None /\ t \in ended[r]

FamilyInv ==
  /\ ExpiryFits /\ StaysFits
  /\ \A t \in Requests : FamilyFits(t) /\ BoundFits(t) /\ RevokedFits(t)
  /\ \A c \in Codes : NamedFits(c)
  /\ \A t, u \in Requests : t # u => OneUnused(t, u)
  /\ UsedHasHeir

\* What a new token is of, and that it is fresh.
LEMMA NewTokenFields ==
  ASSUME NEW f, NEW k, NEW s, NEW v, v = NewToken(f, k, s)
  PROVE  v.family = f /\ v.client = k /\ v.session = s /\ ~v.used /\ ~v.revoked
  BY DEF NewToken

\* A token is committed unused and not revoked.
LEMMA MintedIsFresh ==
  ASSUME IndInv, LockInv, [Next]_vars, NEW t \in Requests, com[t] = None, com'[t] # None
  PROVE  ~com'[t].used /\ ~com'[t].revoked
<1>1. CASE OpensFamily(t)
  BY <1>1, NewTokenFields DEF OpensFamily
<1>2. CASE CarriesOn(t)
  BY <1>2, NewTokenFields DEF CarriesOn
<1> QED
  BY <1>1, <1>2, MintedBy

\* Whoever opened a family did so for good.
LEMMA OpenedStays ==
  ASSUME IndInv, [Next]_vars, NEW f, Opened(f)
  PROVE  Opened(f)' /\ asked'[f] = asked[f]
  BY AnsweredStands DEF Opened, IsGranted, Stands

\* A token and its session expire at the same instant, whatever the step.
LEMMA NextKeepsExpiry ==
  ASSUME IndInv, IndInv', LockInv, [Next]_vars, ExpiryFits
  PROVE  ExpiryFits'
<1> SUFFICES ASSUME NEW x \in Sessions \cup Requests, com'[x] # None
             PROVE  com'[x].expires = SessionLifetime
  BY DEF ExpiryFits
<1>0. MovesOn
  BY NextMovesOn
<1>1. CASE com[x] # None
  BY <1>0, <1>1 DEF MovesOn, TokenMoves, SessionMoves, ExpiryFits
<1>2. CASE com[x] = None
  <2>1. x \in Requests
    BY <1>0, <1>2 DEF MovesOn, SessionMoves
  <2>2. PICK f \in Requests, k \in Clients, s \in Sessions : com[s] # None /\ com'[x] = NewToken(f, k, s)
    <3>1. CASE OpensFamily(x)
      BY <2>1, <3>1 DEF OpensFamily, Grant
    <3>2. CASE CarriesOn(x)
      <4>1. com[asked[x].of] \in TokenRow
        BY <3>2 DEF CarriesOn, IndInv, TypeOK, AreRows
      <4> QED
        BY <3>2, <4>1 DEF CarriesOn, TokenRow
    <3> QED
      BY <1>2, <2>1, <3>1, <3>2, MintedBy
  <2>3. com[s].expires = SessionLifetime
    BY <2>2 DEF ExpiryFits
  <2>4. now \in Nat
    BY DEF IndInv, TypeOK
  <2>5. ~(now + RefreshLifetime < SessionLifetime)
    BY <2>4, LifetimeAssumption, GrantAssumption
  <2> QED
    BY <2>2, <2>3, <2>5 DEF NewToken
<1> QED
  BY <1>1, <1>2

\* Nothing of a session is forgotten while it lives.
LEMMA NextKeepsStays ==
  ASSUME IndInv, IndInv', LockInv, [Next]_vars, ExpiryFits, StaysFits
  PROVE  StaysFits'
<1> DEFINE Minted(t) == IsGranted(t, "exchange") \/ IsGranted(t, "rotate")
<1> SUFFICES ASSUME now' <= SessionLifetime
             PROVE  /\ \A s \in Sessions : com'[s] # None
                    /\ \A t \in Requests : Minted(t)' => com'[t] # None
  BY DEF StaysFits
<1>0. MovesOn
  BY NextMovesOn
<1>1. now <= SessionLifetime /\ now \in Nat
  BY <1>0, GrantAssumption DEF MovesOn
<1>2. \A x \in Requests \cup Sessions : com[x] # None => com'[x] # None
  BY <1>0, <1>1, GrantAssumption DEF MovesOn, GoesLate, ExpiryFits
<1>3. ASSUME NEW t \in Requests, Minted(t)' PROVE com'[t] # None
  <2>1. CASE pc[t] = "granted"
    <3>1. Minted(t)
      BY <1>3, <2>1, AnsweredStands DEF Stands, IsGranted
    <3> QED
      BY <1>1, <1>2, <3>1 DEF StaysFits
  <2>2. CASE pc[t] # "granted"
    <3>1. pc'[t] = "granted" /\ asked'[t].op \in {"exchange", "rotate"}
      BY <1>3 DEF IsGranted
    <3>2. CommitsBy(t)
      <4>1. ~(UNCHANGED locals)
        BY <3>1, <2>2 DEF locals
      <4>2. \A r \in Requests : OwnStep(r) => r = t
        BY <3>1, <2>2 DEF OwnStep, Alone, Stands
      <4> QED
        BY <3>1, <4>1, <4>2, StepCommits DEF Quiet, CommitsBy, Forgets
    <3> QED
      BY <3>1, <3>2 DEF CommitsBy, SpendsCode, IssuesCode, OpensFamily, CarriesOn, TakesBack
  <2> QED
    BY <2>1, <2>2
<1> QED
  BY <1>1, <1>2, <1>3 DEF StaysFits

\* Every token is of an opened family, and rests on what its first rests on.
LEMMA NextKeepsFamily ==
  ASSUME IndInv, IndInv', LockInv, [Next]_vars, \A t \in Requests : FamilyFits(t),
         NEW t \in Requests
  PROVE  FamilyFits(t)'
<1> SUFFICES ASSUME com'[t] # None PROVE FamilyFits(t)'
  BY DEF FamilyFits
<1>0. MovesOn
  BY NextMovesOn
<1>1. CASE com[t] # None
  <2> DEFINE f == com[t].family
  <2>1. /\ pc[t] = "granted" /\ family[t] = f /\ Opened(f) /\ f \in Requests
        /\ com[f] # None => /\ com[f].family = f /\ com[f].client = com[t].client
                            /\ com[f].session = com[t].session
    BY <1>1 DEF FamilyFits, Opened
  <2>2. /\ com'[t].family = f /\ com'[t].client = com[t].client
        /\ com'[t].session = com[t].session
    BY <1>0, <1>1 DEF MovesOn, TokenMoves
  <2>3. pc'[t] = "granted" /\ family'[t] = f /\ Opened(f)'
    <3>1. f' = f
      BY <2>2
    <3>2. Stands(t)
      BY <2>1, AnsweredStands
    <3>3. ASSUME NEW g, Opened(g) PROVE Opened(g)'
      BY <3>3, OpenedStays
    <3> HIDE DEF f
    <3> QED
      BY <2>1, <3>1, <3>2, <3>3 DEF Stands
  <2>4. com'[f] # None => com[f] # None
    BY <1>0, <2>1 DEF MovesOn, ComesOnce, Opened, IsGranted
  <2>5. com'[f] # None => /\ com'[f].family = f /\ com'[f].client = com[t].client
                          /\ com'[f].session = com[t].session
    BY <1>0, <2>1, <2>4 DEF MovesOn, TokenMoves
  <2>6. f' = f
    BY <2>2
  <2> QED
    BY <2>2, <2>3, <2>5, <2>6 DEF FamilyFits
<1>2. CASE com[t] = None
  <2>1. CASE OpensFamily(t)
    <3>1. com'[t].family = t /\ pc'[t] = "granted" /\ family'[t] = t /\ asked'[t].op = "exchange"
      BY <2>1, NewTokenFields DEF OpensFamily
    <3> QED
      BY <3>1 DEF FamilyFits, Opened, IsGranted
  <2>2. CASE CarriesOn(t)
    <3> DEFINE u == asked[t].of
               f == com[u].family
    <3>1. /\ u \in Requests /\ u # t /\ com[u] # None /\ pc[t] = "r_answer"
          /\ pc'[t] = "granted" /\ family'[t] = f
          /\ com'[t] = NewToken(f, com[u].client, com[u].session)
          /\ com'[u] = [com[u] EXCEPT !.used = TRUE]
          /\ \A x \in Requests \ {u, t} : com'[x] = com[x]
      BY <2>2, TablesAreApart DEF CarriesOn
    <3>2. com'[t].family = f /\ com'[t].client = com[u].client /\ com'[t].session = com[u].session
      BY <3>1, NewTokenFields
    <3>3. /\ Opened(f) /\ f \in Requests /\ f # t
          /\ com[f] # None => /\ com[f].family = f /\ com[f].client = com[u].client
                              /\ com[f].session = com[u].session
      BY <3>1 DEF FamilyFits, Opened, IsGranted
    <3>4. com'[f] # None => /\ com'[f].family = f /\ com'[f].client = com[u].client
                            /\ com'[f].session = com[u].session
      <4>1. CASE f = u
        BY <3>1, <3>3, <4>1, UsedToken
      <4>2. CASE f # u
        BY <3>1, <3>3, <4>2
      <4> QED
        BY <4>1, <4>2
    <3>5. \A g : Opened(g) => Opened(g)'
      BY OpenedStays
    <3>6. com'[t].family = f /\ Opened(f) => Opened(com[t].family)'
      BY <3>5 DEF Opened, IsGranted
    <3> HIDE DEF u, f
    <3> QED
      BY <3>1, <3>2, <3>3, <3>4, <3>6 DEF FamilyFits
  <2> QED
    BY <1>2, <2>1, <2>2, MintedBy
<1> QED
  BY <1>1, <1>2

\* A code names the family its exchange opened.
LEMMA NextKeepsNamed ==
  ASSUME IndInv, IndInv', LockInv, [Next]_vars, NEW c \in Codes, NamedFits(c)
  PROVE  NamedFits(c)'
<1> SUFFICES ASSUME com'[c] # None, com'[c].family # None
             PROVE  Opened(com[c].family)' /\ asked'[com'[c].family].of = c
  BY DEF NamedFits
<1>1. CASE com[c] # None /\ com'[c].family = com[c].family
  <2> DEFINE f == com[c].family
  <2>1. Opened(f) /\ asked[f].of = c /\ f' = f
    BY <1>1 DEF NamedFits
  <2>2. \A g : Opened(g) => Opened(g)' /\ asked'[g] = asked[g]
    BY OpenedStays
  <2> HIDE DEF f
  <2>3. Opened(f)' /\ asked'[f'].of = c
    BY <2>1, <2>2
  <2> QED
    BY <2>3 DEF f
<1>2. CASE com[c] # None /\ com'[c].family # com[c].family
  <2>1. PICK r \in Requests : OpensFamily(r) /\ asked[r].of = c /\ com'[c].family = r
    BY <1>2, BoundBy
  <2>2. pc'[r] = "granted" /\ family'[r] = r /\ asked' = asked /\ asked[r].op = "exchange"
    BY <2>1 DEF OpensFamily
  <2>3. Opened(r)'
    BY <2>2 DEF Opened, IsGranted
  <2> QED
    BY <2>1, <2>2, <2>3 DEF Opened, IsGranted
<1>3. CASE com[c] = None
  <2>1. PICK r \in Requests : IssuesCode(r) /\ asked[r].of = c
    BY <1>3, IssuedBy
  <2>2. com'[c].family = None
    BY <2>1 DEF IssuesCode, NewCode
  <2> QED
    BY <2>2
<1> QED
  BY <1>1, <1>2, <1>3

\* The code of an opened family, while it is kept, names that family.
LEMMA NextKeepsBound ==
  ASSUME IndInv, IndInv', LockInv, [Next]_vars, NEW f \in Requests, BoundFits(f)
  PROVE  BoundFits(f)'
<1> DEFINE c == asked[f].of
<1>1. CASE Opened(f)
  <2>1. c' = c /\ HoldsCode(f) /\ c \in Codes /\ pc[f] = "granted"
    BY <1>1, OpenedStays, Served DEF Opened, IsGranted, HoldsCode, CallFits
  <2>2. ASSUME com'[c] # None, com'[c].family # f PROVE FALSE
    <3>1. CASE com[c] = None
      <4>1. PICK r \in Requests : IssuesCode(r) /\ asked[r].of = c
        BY <2>1, <2>2, <3>1, IssuedBy
      <4>2. r # f /\ Apart(r, f) /\ Issues(r)
        BY <2>1, <4>1 DEF IssuesCode, IndInv, Issues
      <4> QED
        BY <2>1, <4>1, <4>2 DEF Apart, Issues
    <3>2. CASE com[c] # None
      <4>1. com[c].family = f
        BY <1>1, <3>2 DEF BoundFits
      <4>2. PICK r \in Requests : OpensFamily(r) /\ asked[r].of = c
        BY <2>1, <2>2, <3>2, <4>1, BoundBy
      <4>3. r # f /\ Apart(r, f) /\ HoldsCode(r) /\ pc[r] = "x_answer"
        BY <2>1, <4>2 DEF OpensFamily, IndInv, HoldsCode
      <4> QED
        BY <2>1, <4>2, <4>3 DEF Apart
    <3> QED
      BY <3>1, <3>2
  <2> HIDE DEF c
  <2>3. com'[c'] # None => com'[c'].family = f
    BY <2>1, <2>2
  <2> QED
    BY <2>3 DEF BoundFits, c
<1>2. CASE ~Opened(f) /\ Opened(f)'
  <2>1. pc[f] # "granted"
    BY <1>2, AnsweredStands DEF Opened, IsGranted, Stands
  <2>2. pc'[f] = "granted" /\ asked'[f].op = "exchange"
    BY <1>2 DEF Opened, IsGranted
  <2>3. CommitsBy(f)
    <3>1. ~(UNCHANGED locals)
      BY <2>1, <2>2 DEF locals
    <3>2. \A r \in Requests : OwnStep(r) => r = f
      BY <2>1, <2>2 DEF OwnStep, Alone, Stands
    <3> QED
      BY <2>2, <3>1, <3>2, StepCommits DEF Quiet, CommitsBy, Forgets
  <2>4. OpensFamily(f)
    BY <2>2, <2>3 DEF CommitsBy, SpendsCode, IssuesCode, CarriesOn, TakesBack
  <2>5. c' = c /\ c \in Codes /\ com[c] # None /\ com'[c] = [com[c] EXCEPT !.family = f]
    BY <2>4 DEF OpensFamily
  <2>6. com'[c].family = f
    BY <2>5, BoundCode
  <2> HIDE DEF c
  <2>7. com'[c'].family = f
    BY <2>5, <2>6
  <2> QED
    BY <2>7 DEF BoundFits, c
<1> QED
  BY <1>1, <1>2 DEF BoundFits

\* What is revoked is accounted for by an answered request.
LEMMA NextKeepsRevoked ==
  ASSUME IndInv, IndInv', LockInv, [Next]_vars, NEW t \in Requests, RevokedFits(t)
  PROVE  RevokedFits(t)'
<1> SUFFICES ASSUME com'[t] # None, com'[t].revoked
             PROVE  \E r \in Requests : pc'[r] \in Outcomes /\ told'[r] # None /\ t \in ended'[r]
  BY DEF RevokedFits
<1>1. com[t] # None
  BY MintedIsFresh
<1>2. CASE com[t].revoked
  <2>1. PICK r \in Requests : pc[r] \in Outcomes /\ told[r] # None /\ t \in ended[r]
    BY <1>1, <1>2 DEF RevokedFits
  <2>2. Stands(r)
    BY <2>1, AnsweredStands
  <2> QED
    BY <2>1, <2>2 DEF Stands
<1>3. CASE ~com[t].revoked
  <2>1. PICK r \in Requests : TakesBack(r) /\ t \in ended[r]
    BY <1>1, <1>3, RevokedBy
  <2> QED
    BY <2>1 DEF TakesBack
<1> QED
  BY <1>2, <1>3

\* What is used has an heir.
LEMMA NextKeepsHeir ==
  ASSUME IndInv, IndInv', LockInv, [Next]_vars, UsedHasHeir
  PROVE  UsedHasHeir'
<1> SUFFICES ASSUME NEW t \in Requests, com'[t] # None, com'[t].used
             PROVE  \E r \in Requests :
                      /\ pc'[r] = "granted" /\ asked'[r].op = "rotate"
                      /\ asked'[r].of = t /\ family'[r] = com'[t].family
  BY DEF UsedHasHeir, IsGranted
<1>0. MovesOn
  BY NextMovesOn
<1>1. com[t] # None
  BY MintedIsFresh
<1>2. com'[t].family = com[t].family
  BY <1>0, <1>1 DEF MovesOn, TokenMoves
<1>3. CASE com[t].used
  <2>1. PICK r \in Requests :
          IsGranted(r, "rotate") /\ asked[r].of = t /\ family[r] = com[t].family
    BY <1>1, <1>3 DEF UsedHasHeir
  <2>2. Stands(r)
    BY <2>1, AnsweredStands DEF IsGranted
  <2> QED
    BY <1>2, <2>1, <2>2 DEF Stands, IsGranted
<1>4. CASE ~com[t].used
  <2>1. PICK r \in Requests : CarriesOn(r) /\ asked[r].of = t
    BY <1>1, <1>4, UsedBy
  <2>2. /\ pc'[r] = "granted" /\ asked' = asked /\ asked[r].op = "rotate"
        /\ family'[r] = com[t].family
    BY <2>1 DEF CarriesOn
  <2> QED
    BY <1>2, <2>1, <2>2
<1> QED
  BY <1>3, <1>4

\* Of two tokens of a family one was used.
LEMMA NextKeepsOneUnused ==
  ASSUME IndInv, IndInv', LockInv, [Next]_vars, FamilyInv,
         NEW t \in Requests, NEW u \in Requests, t # u
  PROVE  OneUnused(t, u)'
<1> SUFFICES ASSUME com'[t] # None, com'[u] # None, com'[t].family = com'[u].family,
                    ~com'[t].used, ~com'[u].used
             PROVE  FALSE
  BY DEF OneUnused
<1>0. MovesOn
  BY NextMovesOn
<1>1. CASE com[t] # None /\ com[u] # None
  <2>1. com[t].family = com[u].family /\ ~com[t].used /\ ~com[u].used
    BY <1>0, <1>1 DEF MovesOn, TokenMoves
  <2> QED
    BY <1>1, <2>1 DEF FamilyInv, OneUnused
<1>2. ASSUME NEW a \in Requests, NEW b \in Requests, a # b, com[a] = None, com'[a] # None,
             com'[b] # None, com'[a].family = com'[b].family, ~com'[b].used
      PROVE  FALSE
  <2>1. OwnStep(a) /\ (OpensFamily(a) \/ CarriesOn(a))
    BY <1>2, MintedBy
  <2>2. com[b] # None
    BY <1>2, <2>1, TablesAreApart DEF OpensFamily, CarriesOn
  <2>3. com'[b].family = com[b].family /\ ~com[b].used
    BY <1>0, <1>2, <2>2 DEF MovesOn, TokenMoves
  <2>4. CASE OpensFamily(a)
    <3>1. com'[a].family = a /\ pc[a] = "x_answer"
      BY <2>4, NewTokenFields DEF OpensFamily
    <3>2. Opened(com[b].family)
      BY <2>2 DEF FamilyInv, FamilyFits
    <3> QED
      BY <1>2, <2>3, <3>1, <3>2 DEF Opened, IsGranted
  <2>5. CASE CarriesOn(a)
    <3> DEFINE c == asked[a].of
    <3>1. /\ c \in Requests /\ com[c] # None /\ ~com[c].used
          /\ com'[a] = NewToken(com[c].family, com[c].client, com[c].session)
          /\ com'[c] = [com[c] EXCEPT !.used = TRUE]
      BY <2>5 DEF CarriesOn
    <3>2. com'[a].family = com[c].family /\ com'[c].used
      BY <3>1, NewTokenFields, UsedToken
    <3>3. c # b
      BY <1>2, <3>2
    <3>4. OneUnused(c, b)
      BY <3>1, <3>3 DEF FamilyInv
    <3> QED
      BY <1>2, <2>2, <2>3, <3>1, <3>2, <3>4 DEF OneUnused
  <2> QED
    BY <2>1, <2>4, <2>5
<1> QED
  BY <1>1, <1>2

\* FamilyInv holds of every reachable state.
THEOREM FamiliesHold == Spec => []FamilyInv
<1>1. Init => FamilyInv
  <2> SUFFICES ASSUME Init PROVE FamilyInv
    OBVIOUS
  <2>1. \A x \in Rows : com[x] =
          CASE x \in Codes -> IF Issued[x] = None THEN None ELSE NewCode(Issued[x], 0)
            [] x \in Sessions -> [state |-> "active", expires |-> SessionLifetime]
            [] x \in Consents -> Consented[x]
            [] OTHER -> None
    BY DEF Init, StorageInit
  <2>2. \A t \in Requests : com[t] = None /\ pc[t] = "idle"
    BY <2>1, TablesAreApart DEF Init
  <2>3. \A s \in Sessions : com[s] = [state |-> "active", expires |-> SessionLifetime]
    BY <2>1, TablesAreApart
  <2>4. \A c \in Codes : com[c] = IF Issued[c] = None THEN None ELSE NewCode(Issued[c], 0)
    BY <2>1, TablesAreApart
  <2>5. ExpiryFits
    BY <2>2, <2>3 DEF ExpiryFits
  <2>6. StaysFits
    <3>1. [state |-> "active", expires |-> SessionLifetime] \in SessionRow
      BY GrantAssumption DEF SessionRow
    <3> QED
      BY <2>2, <2>3, <3>1, SomeAssumption DEF StaysFits, IsGranted
  <2>7. \A c \in Codes : NamedFits(c)
    <3>1. \A g : NewCode(g, 0).family = None
      BY DEF NewCode
    <3> QED
      BY <2>4, <3>1 DEF NamedFits
  <2>8. \A f : ~Opened(f)
    BY <2>2 DEF Opened, IsGranted
  <2> QED
    BY <2>2, <2>5, <2>6, <2>7, <2>8
    DEF FamilyInv, FamilyFits, BoundFits, RevokedFits, OneUnused, UsedHasHeir
<1>2. IndInv /\ IndInv' /\ LockInv /\ FamilyInv /\ [Next]_vars => FamilyInv'
  <2> SUFFICES ASSUME IndInv, IndInv', LockInv, FamilyInv, [Next]_vars PROVE FamilyInv'
    OBVIOUS
  <2>1. ExpiryFits' /\ StaysFits' /\ UsedHasHeir'
    BY NextKeepsExpiry, NextKeepsStays, NextKeepsHeir DEF FamilyInv
  <2>2. \A t \in Requests : FamilyFits(t)' /\ BoundFits(t)' /\ RevokedFits(t)'
    BY NextKeepsFamily, NextKeepsBound, NextKeepsRevoked DEF FamilyInv
  <2>3. \A c \in Codes : NamedFits(c)'
    BY NextKeepsNamed DEF FamilyInv
  <2>4. \A t, u \in Requests : t # u => OneUnused(t, u)'
    BY NextKeepsOneUnused
  <2> QED
    BY <2>1, <2>2, <2>3, <2>4 DEF FamilyInv
<1> QED
  BY <1>1, <1>2, Inductive, LocksHold, PTL DEF Spec

-----------------------------------------------------------------------------
(* A consent held FOR SHARE stands until the exchange that holds it is     *)
(* answered.                                                               *)

Holding == {"x_bind", "x_answer"}

SharesFit(r) ==
  /\ \A x \in Rows : r \in sharers[x] => x \in Consents /\ pc[r] \in Holding
  /\ pc[r] \in Holding /\ asked[r].grant.client \in Requiring =>
       r \in sharers[ConsentOf(asked[r].grant)]

HeldFits(x) == sharers[x] # {} => writer[x] = None /\ com[x] # None

ShareInv == (\A r \in Requests : SharesFit(r)) /\ \A x \in Consents : HeldFits(x)

\* What a statement of r does to what r holds: it writes no row another holds,
\* and holds a consent only where it asks for one.
ShareStep(r) ==
  /\ \A x \in Rows : writer[x] # r /\ writer'[x] = r => sharers[x] \subseteq {r}
  /\ \/ /\ pc[r] \notin Holding /\ pc'[r] \notin Holding
        /\ \A x \in Rows : r \in sharers'[x] => r \in sharers[x]
     \/ pc'[r] \notin Holding /\ \A x \in Rows : r \notin sharers'[x]
     \/ pc[r] \in Holding /\ pc'[r] \in Holding /\ sharers' = sharers /\ asked' = asked
     \/ /\ pc[r] = "x_consent" /\ pc'[r] = "x_bind" /\ asked' = asked
        /\ \/ asked[r].grant.client \notin Requiring /\ sharers' = sharers
           \/ /\ com[ConsentOf(asked[r].grant)] # None
              /\ HoldRow(r, ConsentOf(asked[r].grant))

\* A work writes no row another holds FOR SHARE.
LEMMA WriteNeedsLock ==
  ASSUME NEW r \in Requests, NEW x \in Rows, NEW v, IndInv, WriteRow(r, x, v)
  PROVE  /\ \A y \in Rows : writer[y] # r /\ writer'[y] = r => sharers[y] \subseteq {r}
         /\ sharers' = sharers
  BY DEF WriteRow, MayWrite, IndInv, TypeOK

\* Every statement does with the held consents what ShareStep tells.
LEMMA AdvanceShares ==
  ASSUME NEW r \in Requests, IndInv, Advance(r)
  PROVE  ShareStep(r)
<1> USE DEF Goto
<1> DEFINE of == asked[r].of
           x == ConsentOf(asked[r].grant)
<1>0. pc \in [Requests -> Steps \cup Outcomes] /\ pc[r] # "idle" /\ of \in Rows
  <2>1. pc \in [Requests -> Steps \cup Outcomes]
    BY DEF IndInv, TypeOK
  <2>2. pc[r] # "idle"
    BY DEF Advance, FindSession, SettleConsent, IssueCode, SpendAuthorizationCode, CommitSpentCode,
           ReadCodeSubject, HoldConsent, BindCodeFamily, AnswerExchange, MarkCodeReplayed,
           SpendRefreshToken, LockRefreshToken, ReadTokenSubject, AnswerRotation,
           ReadReplayedToken, RevokeToken, FindLiveSession, EndSession, DeleteConsent, FindTokens,
           RevokeRow, CommitTakeBack
  <2> QED
    BY <2>1, <2>2, AskedRows
<1>a. ASSUME Released(r), pc'[r] \notin Holding PROVE ShareStep(r)
  BY <1>a, ReleaseIsAlone DEF ShareStep
<1>b. ASSUME writer' = writer, sharers' = sharers, pc[r] \notin Holding, pc'[r] \notin Holding
      PROVE  ShareStep(r)
  BY <1>b DEF ShareStep
<1>c. ASSUME NEW y \in Rows, NEW v, WriteRow(r, y, v), pc[r] \notin Holding, pc'[r] \notin Holding
      PROVE  ShareStep(r)
  BY <1>c, WriteNeedsLock DEF ShareStep
<1>r. ASSUME NEW to \in Outcomes, Refuse(r, to) PROVE ShareStep(r)
  <2>1. Released(r) /\ pc'[r] = to
    BY <1>0, <1>r DEF Refuse, Rollback
  <2> QED
    BY <1>a, <2>1 DEF Holding
<1>s. ASSUME NEW to \in Steps \ Holding, Read(r, to), pc[r] \notin Holding PROVE ShareStep(r)
  <2>1. writer' = writer /\ sharers' = sharers /\ pc'[r] = to
    BY <1>0, <1>s DEF Read, storage
  <2> QED
    BY <1>b, <1>s, <2>1
<1>t. ASSUME NEW to \in Steps \ Holding, NEW y \in Rows, NEW v, Update(r, to, y, v),
             pc[r] \notin Holding
      PROVE  ShareStep(r)
  <2>1. WriteRow(r, y, v) /\ pc'[r] = to
    BY <1>0, <1>t DEF Update
  <2> QED
    BY <1>c, <1>t, <2>1
<1>1. CASE FindSession(r)
  BY <1>1, <1>r, <1>s DEF FindSession, Holding
<1>2. CASE SettleConsent(r)
  <2>1. pc[r] = "a_consent" /\ x \in Rows
    BY <1>2, AskedRows, TablesAreApart DEF SettleConsent
  <2> QED
    BY <1>2, <2>1, <1>r, <1>s, <1>t DEF SettleConsent, Holding
<1>3. CASE IssueCode(r)
  BY <1>0, <1>3, <1>a DEF IssueCode, InsertAndCommit, Holding
<1>4. CASE SpendAuthorizationCode(r)
  <2>1. CASE Read(r, "x_mark")
    BY <1>4, <2>1, <1>s DEF SpendAuthorizationCode, Holding
  <2>2. CASE ~Read(r, "x_mark")
    BY <1>0, <1>4, <2>2, <1>c DEF SpendAuthorizationCode, Holding
  <2> QED
    BY <2>1, <2>2
<1>5. CASE CommitSpentCode(r)
  BY <1>0, <1>5, <1>a DEF CommitSpentCode, Commit, Holding
<1>6. CASE ReadCodeSubject(r)
  BY <1>6, <1>r, <1>s DEF ReadCodeSubject, Holding
<1>7. CASE HoldConsent(r)
  <2>1. pc[r] = "x_consent"
    BY <1>7 DEF HoldConsent
  <2>2. CASE Refuse(r, "refused")
    BY <2>2, <1>r
  <2>3. CASE Read(r, "x_bind") /\ asked[r].grant.client \notin Requiring
    <3>1. writer' = writer /\ sharers' = sharers /\ pc'[r] = "x_bind" /\ asked' = asked
      BY <1>0, <2>3 DEF Read, storage
    <3> QED
      BY <2>1, <2>3, <3>1 DEF ShareStep
  <2>4. CASE com[x] # None /\ pc'[r] = "x_bind" /\ HoldRow(r, x) /\ asked' = asked
    <3>1. writer' = writer
      BY <2>4 DEF HoldRow
    <3> QED
      BY <2>1, <2>4, <3>1 DEF ShareStep
  <2> QED
    BY <1>0, <1>7, <2>2, <2>3, <2>4 DEF HoldConsent
<1>8. CASE BindCodeFamily(r)
  <2>1. pc[r] = "x_bind"
    BY <1>8 DEF BindCodeFamily
  <2>2. CASE Refuse(r, "refused")
    BY <2>2, <1>r
  <2>3. CASE ~Refuse(r, "refused")
    <3>1. /\ pc'[r] = "x_answer" /\ WriteRow(r, of, [com[of] EXCEPT !.family = r]) /\ asked' = asked
      BY <1>0, <1>8, <2>3 DEF BindCodeFamily
    <3> QED
      BY <1>0, <2>1, <3>1, WriteNeedsLock DEF ShareStep, Holding
  <2> QED
    BY <2>2, <2>3
<1>9. CASE AnswerExchange(r) \/ AnswerRotation(r)
  <2>1. PICK f, k, s : IssueRefreshToken(r, f, k, s)
    BY <1>9 DEF AnswerExchange, AnswerRotation
  <2>2. CASE Refuse(r, "failed")
    BY <2>2, <1>r
  <2>3. CASE ~Refuse(r, "failed")
    BY <1>0, <2>1, <2>3, <1>a DEF IssueRefreshToken, InsertAndCommit, Holding
  <2> QED
    BY <2>2, <2>3
<1>10. CASE MarkCodeReplayed(r)
  <2>1. CASE Refuse(r, "refused")
    BY <2>1, <1>r
  <2>2. CASE ~Refuse(r, "refused")
    BY <1>0, <1>10, <2>2, <1>c DEF MarkCodeReplayed, Holding
  <2> QED
    BY <2>1, <2>2
<1>11. CASE SpendRefreshToken(r)
  BY <1>11, <1>s DEF SpendRefreshToken, Holding
<1>12. CASE LockRefreshToken(r)
  BY <1>0, <1>12, <1>s, <1>t DEF LockRefreshToken, Holding
<1>13. CASE ReadTokenSubject(r)
  BY <1>13, <1>r, <1>s DEF ReadTokenSubject, Holding
<1>14. CASE ReadReplayedToken(r) \/ RevokeToken(r)
  <2>1. CASE Refuse(r, "refused") \/ Refuse(r, "over")
    BY <2>1, <1>r
  <2>2. CASE ~(Refuse(r, "refused") \/ Refuse(r, "over"))
    BY <1>0, <1>14, <2>2, <1>b DEF ReadReplayedToken, RevokeToken, storage, Holding
  <2> QED
    BY <2>1, <2>2
<1>15. CASE FindLiveSession(r)
  BY <1>15, <1>r, <1>s DEF FindLiveSession, Holding
<1>16. CASE EndSession(r)
  BY <1>0, <1>16, <1>r, <1>t DEF EndSession, Holding
<1>17. CASE DeleteConsent(r)
  BY <1>0, <1>17, <1>r, <1>t DEF DeleteConsent, Holding
<1>18. CASE FindTokens(r)
  BY <1>0, <1>18, <1>b DEF FindTokens, storage, Holding
<1>19. CASE RevokeRow(r)
  <2>1. PICK t \in todo[r] :
          \/ WriteRow(r, t, [com[t] EXCEPT !.revoked = TRUE])
          \/ UNCHANGED storage
    BY <1>19 DEF RevokeRow
  <2>2. t \in Rows
    BY TablesAreApart DEF IndInv, TypeOK
  <2>3. pc[r] = "t_rows" /\ pc' = pc
    BY <1>19 DEF RevokeRow
  <2> QED
    BY <2>1, <2>2, <2>3, <1>b, <1>c DEF storage, Holding
<1>20. CASE CommitTakeBack(r)
  BY <1>0, <1>20, <1>a DEF CommitTakeBack, Commit, Holding
<1> QED
  BY <1>1, <1>2, <1>3, <1>4, <1>5, <1>6, <1>7, <1>8, <1>9, <1>10, <1>11, <1>12, <1>13, <1>14,
     <1>15, <1>16, <1>17, <1>18, <1>19, <1>20 DEF Advance

\* Who held something holds it still.
LEMMA OthersKeepShares ==
  ASSUME NEW r, NEW q \in Requests \ {r}, Alone(r), SharesFit(q), IndInv
  PROVE  SharesFit(q)'
<1>1. pc'[q] = pc[q] /\ asked'[q] = asked[q]
  BY DEF Alone, Stands
<1>2. \A x \in Rows : (q \in sharers'[x]) <=> (q \in sharers[x])
  BY DEF Alone, RowsStand
<1>3. pc[q] \in Holding => ConsentOf(asked[q].grant) \in Rows
  BY AskedRows, TablesAreApart DEF Holding
<1>4. ConsentOf(asked[q].grant)' = ConsentOf(asked[q].grant)
  BY <1>1 DEF ConsentOf
<1> QED
  BY <1>1, <1>2, <1>3, <1>4 DEF SharesFit

\* A statement of r keeps what r shares where r is.
LEMMA OwnShares ==
  ASSUME NEW r \in Requests, IndInv, SharesFit(r), ShareStep(r)
  PROVE  SharesFit(r)'
<1> DEFINE x == ConsentOf(asked[r].grant)
<1>1. CASE pc'[r] \notin Holding /\ \A y \in Rows : r \notin sharers'[y]
  BY <1>1 DEF SharesFit
<1>2. CASE /\ pc[r] \notin Holding /\ pc'[r] \notin Holding
           /\ \A y \in Rows : r \in sharers'[y] => r \in sharers[y]
  BY <1>2 DEF SharesFit
<1>3. CASE pc[r] \in Holding /\ pc'[r] \in Holding /\ sharers' = sharers /\ asked' = asked
  <2>1. x' = x
    BY <1>3 DEF ConsentOf
  <2> QED
    BY <1>3, <2>1 DEF SharesFit
<1>4. CASE /\ pc[r] = "x_consent" /\ pc'[r] = "x_bind" /\ asked' = asked
           /\ \/ asked[r].grant.client \notin Requiring /\ sharers' = sharers
              \/ com[x] # None /\ HoldRow(r, x)
  <2>1. x' = x /\ x \in Consents /\ x \in Rows
    BY <1>4, AskedRows, TablesAreApart DEF ConsentOf
  <2>2. \A y \in Rows : r \notin sharers[y]
    BY <1>4 DEF SharesFit, Holding
  <2>3. sharers \in [Rows -> SUBSET Requests]
    BY DEF IndInv, TypeOK
  <2>4. CASE asked[r].grant.client \notin Requiring /\ sharers' = sharers
    BY <1>4, <2>2, <2>4 DEF SharesFit
  <2>5. CASE HoldRow(r, x)
    <3>1. sharers' = [sharers EXCEPT ![x] = @ \cup {r}]
      BY <2>5 DEF HoldRow
    <3> HIDE DEF x
    <3>2. r \in sharers'[x'] /\ \A y \in Rows : r \in sharers'[y] => y = x
      BY <2>1, <2>2, <2>3, <3>1
    <3> QED
      BY <1>4, <2>1, <3>2 DEF SharesFit, x, Holding
  <2> QED
    BY <1>4, <2>4, <2>5
<1> QED
  BY <1>1, <1>2, <1>3, <1>4 DEF ShareStep

\* A consent that is held is not written, and not withdrawn.
LEMMA NextKeepsHeld ==
  ASSUME IndInv, IndInv', LockInv, LockInv', [Next]_vars, ShareInv, NEW x \in Consents
  PROVE  HeldFits(x)'
<1> SUFFICES ASSUME sharers'[x] # {} PROVE writer'[x] = None /\ com'[x] # None
  BY DEF HeldFits
<1>0. x \in Rows /\ writer' \in [Rows -> Requests \cup {None}] /\ sharers \in [Rows -> SUBSET Requests]
      /\ sharers' \in [Rows -> SUBSET Requests]
  BY TablesAreApart DEF IndInv, TypeOK
<1>1. CASE sharers[x] # {}
  <2>1. writer[x] = None /\ com[x] # None
    BY <1>1 DEF ShareInv, HeldFits
  <2>2. com'[x] # None
    <3>1. ASSUME com'[x] = None PROVE FALSE
      <4>1. PICK r \in Requests : TakesBack(r) /\ asked[r].op = "withdraw" /\ asked[r].of = x
        BY <2>1, <3>1, WithdrawnBy
      <4>2. writer[x] = r
        BY <4>1 DEF TakesBack, LockInv, HasLocked
      <4> QED
        BY <2>1, <4>2, RequestsAreSome
    <3> QED
      BY <3>1
  <2>3. ASSUME NEW r \in Requests, writer'[x] = r PROVE FALSE
    <3>1. Start(r) \/ Advance(r) \/ Fail(r)
      <4>1. ~(Tick \/ Purge \/ UNCHANGED vars)
        BY <2>1, <2>3, PassiveIsAlone, RequestsAreSome
      <4>2. ASSUME NEW q \in Requests, Start(q) \/ Advance(q) \/ Fail(q) PROVE q = r
        <5>1. OwnStep(q)
          BY <4>2, StartIsOwn, AdvanceIsOwn, FailIsOwn
        <5> QED
          BY <1>0, <2>1, <2>3, <5>1, RequestsAreSome DEF OwnStep, Alone, RowsStand
      <4> QED
        BY <4>1, <4>2 DEF Next
    <3>2. Advance(r)
      <4>1. ASSUME Start(r) PROVE FALSE
        BY <2>1, <2>3, <4>1, StartIsOwn, RequestsAreSome DEF storage
      <4>2. ASSUME Fail(r) PROVE FALSE
        BY <1>0, <2>3, <4>2, ReleaseIsAlone DEF Fail, Rollback
      <4> QED
        BY <3>1, <4>1, <4>2
    <3>3. ShareStep(r)
      BY <3>2, AdvanceShares
    <3>4. r \in sharers[x] /\ pc[r] \in Holding
      BY <1>0, <1>1, <2>1, <2>3, <3>3, RequestsAreSome DEF ShareStep, ShareInv, SharesFit
    <3>5. pc'[r] \in Holding \/ \A y \in Rows : r \notin sharers'[y]
      BY <3>3, <3>4 DEF ShareStep, Holding
    <3>7. pc'[r] \notin Holding
      BY <1>0, <2>3 DEF LockInv, LocksFit, ConsentLock, Holding
    <3>8. sharers'[x] \subseteq {r}
      <4>1. OwnStep(r) /\ sharers[x] \subseteq {r}
        BY <1>0, <2>1, <2>3, <3>2, <3>3, AdvanceIsOwn, RequestsAreSome DEF ShareStep
      <4> QED
        BY <1>0, <4>1 DEF OwnStep, Alone, RowsStand
    <3> QED
      BY <1>0, <3>5, <3>7, <3>8
  <2> QED
    BY <1>0, <2>2, <2>3
<1>2. CASE sharers[x] = {}
  <2>1. PICK r \in Requests : r \in sharers'[x]
    BY <1>0
  <2>2. Start(r) \/ Advance(r) \/ Fail(r)
    <3>1. ~(Tick \/ Purge \/ UNCHANGED vars)
      BY <1>2, <2>1, PassiveIsAlone
    <3>2. ASSUME NEW q \in Requests, Start(q) \/ Advance(q) \/ Fail(q) PROVE q = r
      <4>1. OwnStep(q)
        BY <3>2, StartIsOwn, AdvanceIsOwn, FailIsOwn
      <4> QED
        BY <1>0, <1>2, <2>1, <4>1 DEF OwnStep, Alone, RowsStand
    <3> QED
      BY <3>1, <3>2 DEF Next
  <2>3. Advance(r)
    <3>1. ASSUME Start(r) PROVE FALSE
      BY <1>2, <2>1, <3>1, StartIsOwn DEF storage
    <3>2. ASSUME Fail(r) PROVE FALSE
      BY <1>0, <2>1, <3>2, ReleaseIsAlone DEF Fail, Rollback
    <3> QED
      BY <2>2, <3>1, <3>2
  <2>4. ShareStep(r)
    BY <2>3, AdvanceShares
  <2> DEFINE y == ConsentOf(asked[r].grant)
  <2>5. pc[r] = "x_consent" /\ com[y] # None /\ HoldRow(r, y)
    BY <1>0, <1>2, <2>1, <2>4 DEF ShareStep
  <2>6. y \in Rows
    BY <2>5, AskedRows, TablesAreApart
  <2>7. x = y /\ writer' = writer /\ com' = com /\ writer[y] \in {r, None}
    <3> HIDE DEF y
    <3> QED
      BY <1>0, <1>2, <2>1, <2>5, <2>6 DEF HoldRow, MayShare
  <2>8. writer[x] # r
    BY <1>0, <2>5, NothingLocked DEF LockInv, Writing
  <2> QED
    BY <2>5, <2>7, <2>8
<1> QED
  BY <1>1, <1>2

\* A consent somebody holds is nobody's to write, and is there.
THEOREM SharesHold == Spec => []ShareInv
<1>1. Init => ShareInv
  BY TablesAreApart DEF Init, StorageInit, ShareInv, SharesFit, HeldFits, Holding
<1>2. IndInv /\ IndInv' /\ LockInv /\ LockInv' /\ ShareInv /\ [Next]_vars => ShareInv'
  <2> SUFFICES ASSUME IndInv, IndInv', LockInv, LockInv', ShareInv, [Next]_vars PROVE ShareInv'
    OBVIOUS
  <2>1. \A x \in Consents : HeldFits(x)'
    BY NextKeepsHeld
  <2>2. ASSUME NEW q \in Requests PROVE SharesFit(q)'
    <3>1. CASE Tick \/ Purge \/ UNCHANGED vars
      BY <3>1, PassiveIsAlone, OthersKeepShares, RequestsAreSome DEF ShareInv
    <3>2. ASSUME NEW r \in Requests, Start(r) \/ Advance(r) \/ Fail(r) PROVE SharesFit(q)'
      <4>1. CASE q # r
        <5>1. OwnStep(r)
          BY <3>2, StartIsOwn, AdvanceIsOwn, FailIsOwn
        <5> QED
          BY <4>1, <5>1, OthersKeepShares DEF OwnStep, ShareInv
      <4>2. CASE q = r
        <5>1. CASE Start(r)
          <6>1. ShareStep(r)
            BY <5>1, StartIsOwn DEF ShareStep, storage, Holding
          <6> QED
            BY <4>2, <6>1, OwnShares DEF ShareInv
        <5>2. CASE Advance(r)
          BY <4>2, <5>2, AdvanceShares, OwnShares DEF ShareInv
        <5>3. CASE Fail(r)
          <6>1. ShareStep(r)
            BY <5>3, ReleaseIsAlone DEF Fail, Rollback, ShareStep, Holding, IndInv, TypeOK
          <6> QED
            BY <4>2, <6>1, OwnShares DEF ShareInv
        <5> QED
          BY <3>2, <5>1, <5>2, <5>3
      <4> QED
        BY <4>1, <4>2
    <3> QED
      BY <3>1, <3>2 DEF Next
  <2> QED
    BY <2>1, <2>2 DEF ShareInv
<1> QED
  BY <1>1, <1>2, Inductive, LocksHold, PTL DEF Spec


-----------------------------------------------------------------------------
(* A request that takes back reaches every family it is about.             *)

\* What a request takes back by name is a family somebody opened.
TakesFamily(r) ==
  pc[r] \in TakingBack /\ asked[r].op \notin {"withdraw", "logout"} =>
    family[r] = None \/ Opened(family[r])

\* The family f, by its first token, is one r is to take back.  A withdrawal
\* is sure to reach only what rests on a consent it holds.
Reaches(r, f) ==
  /\ com[f] # None /\ com[f].family = f
  /\ asked[r].op = "withdraw" => com[f].client \in Requiring
  /\ asked[r].op # "logout" /\ Targets(r, com[f])

IsTakenBack(r, f) == com[f].revoked \/ f \in todo[r] \/ f \in ended[r]

NoneEscapes(r) ==
  pc[r] = "t_rows" => \A f \in Requests : Reaches(r, f) => IsTakenBack(r, f)

\* A replayed code leaves revoked what it opened.
ReplayFits(f) ==
  Opened(f) /\ com[f] # None /\ com[asked[f].of] # None /\ com[asked[f].of].replayed =>
    com[f].revoked

\* So does a consent that was withdrawn what rests on it.
ConsentFits(f) ==
  /\ com[f] # None /\ com[f].family = f /\ com[f].client \in Requiring
  /\ com[ConsentOf(com[f])] = None
  => com[f].revoked

TakeInv ==
  /\ \A r \in Requests : TakesFamily(r) /\ NoneEscapes(r)
  /\ \A f \in Requests : ReplayFits(f) /\ ConsentFits(f)

\* Where each statement may lead.
LEMMA StatementsLead ==
  ASSUME NEW r \in Requests, IndInv
  PROVE  /\ FindSession(r) => pc'[r] \in {"a_consent"} \cup (Outcomes \ {"granted"})
         /\ SettleConsent(r) => pc'[r] \in {"a_issue"} \cup (Outcomes \ {"granted"})
         /\ IssueCode(r) => pc'[r] = "granted"
         /\ SpendAuthorizationCode(r) => pc'[r] \in {"x_spent", "x_mark"}
         /\ CommitSpentCode(r) => pc'[r] \in {"x_subject", "refused"}
         /\ ReadCodeSubject(r) => pc'[r] \in {"x_consent", "refused"}
         /\ HoldConsent(r) => pc'[r] \in {"x_bind", "refused"}
         /\ BindCodeFamily(r) => pc'[r] \in {"x_answer", "refused"}
         /\ MarkCodeReplayed(r) => pc'[r] \in {"t_start", "t_rows", "refused"}
         /\ AnswerExchange(r) => pc'[r] \in {"granted", "failed"}
         /\ SpendRefreshToken(r) => pc'[r] \in {"r_lock", "r_read"}
         /\ LockRefreshToken(r) => pc'[r] \in {"r_subject", "r_read"}
         /\ ReadTokenSubject(r) => pc'[r] \in {"r_answer", "refused"}
         /\ AnswerRotation(r) => pc'[r] \in {"granted", "failed"}
         /\ ReadReplayedToken(r) => pc'[r] \in {"t_start", "refused"}
         /\ RevokeToken(r) => pc'[r] \in {"t_start", "over"}
         /\ FindLiveSession(r) => pc'[r] \in {"l_end", "over"}
         /\ EndSession(r) => pc'[r] \in {"t_start", "over"}
         /\ DeleteConsent(r) => pc'[r] \in {"t_start", "refused"}
         /\ FindTokens(r) => pc'[r] = "t_rows"
         /\ RevokeRow(r) => pc'[r] = "t_rows"
         /\ CommitTakeBack(r) => pc'[r] \in {"refused", "over"}
         /\ Fail(r) => pc'[r] = "failed"
<1> USE DEF Goto
<1>0. pc \in [Requests -> Steps \cup Outcomes]
  BY DEF IndInv, TypeOK
<1>1. ASSUME NEW to, Refuse(r, to) \/ Read(r, to) PROVE pc'[r] = to
  BY <1>0, <1>1 DEF Refuse, Read
<1>2. ASSUME NEW to, NEW x, NEW v, Update(r, to, x, v) PROVE pc'[r] = to
  BY <1>0, <1>2 DEF Update
<1>3. /\ FindSession(r) => pc'[r] \in {"a_consent"} \cup (Outcomes \ {"granted"})
      /\ SettleConsent(r) => pc'[r] \in {"a_issue"} \cup (Outcomes \ {"granted"})
      /\ IssueCode(r) => pc'[r] = "granted"
  BY <1>0, <1>1, <1>2 DEF FindSession, SettleConsent, IssueCode, Outcomes
<1>4. /\ SpendAuthorizationCode(r) => pc'[r] \in {"x_spent", "x_mark"}
      /\ CommitSpentCode(r) => pc'[r] \in {"x_subject", "refused"}
      /\ ReadCodeSubject(r) => pc'[r] \in {"x_consent", "refused"}
  BY <1>0, <1>1 DEF SpendAuthorizationCode, CommitSpentCode, ReadCodeSubject
<1>5. /\ HoldConsent(r) => pc'[r] \in {"x_bind", "refused"}
      /\ BindCodeFamily(r) => pc'[r] \in {"x_answer", "refused"}
      /\ MarkCodeReplayed(r) => pc'[r] \in {"t_start", "t_rows", "refused"}
  BY <1>0, <1>1 DEF HoldConsent, BindCodeFamily, MarkCodeReplayed
<1>6. /\ AnswerExchange(r) => pc'[r] \in {"granted", "failed"}
      /\ AnswerRotation(r) => pc'[r] \in {"granted", "failed"}
  BY <1>0, <1>1 DEF AnswerExchange, AnswerRotation, IssueRefreshToken
<1>7. /\ SpendRefreshToken(r) => pc'[r] \in {"r_lock", "r_read"}
      /\ LockRefreshToken(r) => pc'[r] \in {"r_subject", "r_read"}
      /\ ReadTokenSubject(r) => pc'[r] \in {"r_answer", "refused"}
  BY <1>1, <1>2 DEF SpendRefreshToken, LockRefreshToken, ReadTokenSubject
<1>8. /\ ReadReplayedToken(r) => pc'[r] \in {"t_start", "refused"}
      /\ RevokeToken(r) => pc'[r] \in {"t_start", "over"}
  BY <1>0, <1>1 DEF ReadReplayedToken, RevokeToken
<1>9. /\ FindLiveSession(r) => pc'[r] \in {"l_end", "over"}
      /\ EndSession(r) => pc'[r] \in {"t_start", "over"}
      /\ DeleteConsent(r) => pc'[r] \in {"t_start", "refused"}
  BY <1>1, <1>2 DEF FindLiveSession, EndSession, DeleteConsent
<1>10. /\ FindTokens(r) => pc'[r] = "t_rows"
       /\ RevokeRow(r) => pc'[r] = "t_rows"
       /\ CommitTakeBack(r) => pc'[r] \in {"refused", "over"}
       /\ Fail(r) => pc'[r] = "failed"
  BY <1>0 DEF FindTokens, RevokeRow, CommitTakeBack, Fail
<1> QED
  BY <1>3, <1>4, <1>5, <1>6, <1>7, <1>8, <1>9, <1>10

\* The statements that lead to taking back.
LEMMA ComesToTakeBack ==
  ASSUME NEW r \in Requests, IndInv, Start(r) \/ Advance(r) \/ Fail(r), pc'[r] \in TakingBack
  PROVE  \/ FindTokens(r) \/ RevokeRow(r) \/ MarkCodeReplayed(r) \/ ReadReplayedToken(r)
         \/ RevokeToken(r) \/ EndSession(r) \/ DeleteConsent(r)
  BY StatementsLead, StartIsOwn DEF Advance, TakingBack, Outcomes

\* While a request takes back, nothing of its own is committed.
LEMMA TakingIsQuiet ==
  ASSUME NEW r \in Requests, IndInv, LockInv, Start(r) \/ Advance(r) \/ Fail(r),
         pc'[r] \in TakingBack
  PROVE  com' = com
  BY OthersAreQuiet, CommitSpentCodeEffect, IssueCodeEffect, AnswerExchangeEffect,
     AnswerRotationEffect, CommitTakeBackEffect
  DEF Quiet, SpendsCode, IssuesCode, OpensFamily, CarriesOn, TakesBack, TakingBack

\* What is taken back by name stays a family somebody opened.
LEMMA NextKeepsTakesFamily ==
  ASSUME IndInv, LockInv, FamilyInv, [Next]_vars, NEW q \in Requests, TakesFamily(q)
  PROVE  TakesFamily(q)'
<1>1. \A f : Opened(f) => Opened(f)'
  BY OpenedStays
<1>2. CASE Stands(q)
  <2>1. family'[q] = family[q]
    BY <1>2 DEF Stands
  <2>2. Opened(family[q]) => Opened(family[q])'
    BY <1>1, <2>1 DEF Opened, IsGranted
  <2> QED
    BY <1>2, <2>2 DEF TakesFamily, Stands
<1>3. ASSUME Start(q) \/ Advance(q) \/ Fail(q), pc'[q] \in TakingBack,
             asked'[q].op \notin {"withdraw", "logout"}, family'[q] # None
      PROVE  Opened(family[q])'
  <2>0. pc[q] # "idle" => CallFits(q) /\ StepFits(q)
    BY Served
  <2>1. family \in [Requests -> Requests \cup {None}]
    BY DEF IndInv, TypeOK
  <2>2. Opened(family'[q])
    <3>1. CASE FindTokens(q) \/ RevokeRow(q)
      BY <1>3, <3>1 DEF FindTokens, RevokeRow, TakesFamily, TakingBack
    <3>2. CASE MarkCodeReplayed(q)
      <4>1. asked[q].of \in Codes /\ com[asked[q].of] # None /\ family'[q] = com[asked[q].of].family
        BY <1>3, <2>0, <2>1, <3>2
        DEF MarkCodeReplayed, Refuse, Goto, TakingBack, StepFits, CallFits, IndInv, TypeOK
      <4> QED
        BY <1>3, <4>1 DEF FamilyInv, NamedFits
    <3>3. CASE ReadReplayedToken(q) \/ RevokeToken(q)
      <4>1. /\ asked[q].of \in Requests /\ com[asked[q].of] # None
            /\ family'[q] = com[asked[q].of].family
        BY <1>3, <2>0, <2>1, <3>3
        DEF ReadReplayedToken, RevokeToken, Refuse, Goto, TakingBack, StepFits, CallFits,
            IndInv, TypeOK
      <4> QED
        BY <4>1 DEF FamilyInv, FamilyFits
    <3>4. CASE EndSession(q) \/ DeleteConsent(q)
      BY <1>3, <2>0, <3>4 DEF EndSession, DeleteConsent, Update, Refuse, StepFits
    <3> QED
      BY <1>3, <3>1, <3>2, <3>3, <3>4, ComesToTakeBack
  <2> QED
    BY <1>1, <2>2 DEF Opened, IsGranted
<1>4. ASSUME NEW r \in Requests, Start(r) \/ Advance(r) \/ Fail(r), r # q PROVE Stands(q)
  BY <1>4, StartIsOwn, AdvanceIsOwn, FailIsOwn DEF OwnStep, Alone
<1>5. CASE Tick \/ Purge \/ UNCHANGED vars
  BY <1>2, <1>5, PassiveIsAlone DEF locals, Stands
<1> QED
  BY <1>2, <1>3, <1>4, <1>5 DEF Next, TakesFamily

\* An exchange opens a family on a consent that stands, held by nobody but
\* those who share it.
LEMMA OpenerHoldsConsent ==
  ASSUME IndInv, ShareInv, NEW f \in Requests, OpensFamily(f), com'[f].client \in Requiring
  PROVE  LET x == ConsentOf(com'[f])
         IN x \in Consents /\ writer[x] = None /\ com[x] # None /\ com'[x] # None
<1> DEFINE g == asked[f].grant
           x == ConsentOf(com'[f])
<1>1. /\ g \in Grant /\ pc[f] = "x_answer" /\ asked[f].of \in Codes
      /\ \A y \in Rows \ {asked[f].of, f} : com'[y] = com[y]
      /\ com'[f] = NewToken(f, g.client, g.session)
  BY DEF OpensFamily
<1>2. com'[f].client = g.client /\ com'[f].session = g.session
  BY <1>1, NewTokenFields
<1>3. x = ConsentOf(g)
  BY <1>2 DEF ConsentOf
<1>4. x \in Consents
  BY <1>1, <1>3, GrantAssumption DEF Grant, ConsentOf, Consents
<1>5. f \in sharers[x]
  BY <1>1, <1>2, <1>3 DEF ShareInv, SharesFit, Holding
<1>6. writer[x] = None /\ com[x] # None
  BY <1>4, <1>5 DEF ShareInv, HeldFits
<1>7. com'[x] = com[x]
  BY <1>1, <1>4, TablesAreApart
<1> QED
  BY <1>4, <1>6, <1>7

\* A first token is written by the exchange that opens its family.
LEMMA FirstIsOpened ==
  ASSUME IndInv, LockInv, FamilyInv, [Next]_vars, NEW f \in Requests,
         com[f] = None, com'[f] # None, com'[f].family = f
  PROVE  OpensFamily(f) /\ ~Opened(f)
<1>1. ASSUME CarriesOn(f) PROVE FALSE
  <2>1. /\ asked[f].of \in Requests /\ com[asked[f].of] # None /\ pc[f] = "r_answer"
        /\ com'[f].family = com[asked[f].of].family
    BY <1>1, NewTokenFields DEF CarriesOn
  <2>2. Opened(f)
    BY <2>1 DEF FamilyInv, FamilyFits
  <2> QED
    BY <2>1, <2>2 DEF Opened, IsGranted
<1>2. OpensFamily(f)
  BY <1>1, MintedBy
<1> QED
  BY <1>2 DEF OpensFamily, Opened, IsGranted

\* What another commits, or forgets, lets nothing escape.
LEMMA OthersLetNoneEscape ==
  ASSUME IndInv, IndInv', LockInv, FamilyInv, ShareInv, [Next]_vars,
         NEW r \in Requests, TakesFamily(r), NoneEscapes(r), Stands(r)
  PROVE  NoneEscapes(r)'
<1>1. MovesOn
  BY NextMovesOn
<1>2. /\ pc'[r] = pc[r] /\ asked'[r] = asked[r] /\ family'[r] = family[r]
      /\ todo'[r] = todo[r] /\ ended'[r] = ended[r]
  BY DEF Stands
<1> SUFFICES ASSUME pc[r] = "t_rows", NEW f \in Requests, Reaches(r, f)'
             PROVE  IsTakenBack(r, f)'
  BY <1>2 DEF NoneEscapes
<1>3. CASE com[f] # None
  <2>1. Reaches(r, f)
    <3>1. /\ com'[f] # None /\ com'[f].family = com[f].family /\ com'[f].client = com[f].client
          /\ com'[f].session = com[f].session
      BY <1>1, <1>3 DEF Reaches, MovesOn, TokenMoves
    <3>2. Targets(r, com[f])' <=> Targets(r, com[f])
      BY <1>2, <3>1 DEF Targets, ConsentOf
    <3> QED
      BY <1>2, <1>3, <3>1, <3>2 DEF Reaches
  <2>2. IsTakenBack(r, f)
    BY <2>1 DEF NoneEscapes
  <2> QED
    BY <1>1, <1>2, <1>3, <2>2 DEF IsTakenBack, Reaches, MovesOn, TokenMoves
<1>4. CASE com[f] = None
  <2>1. com'[f] # None /\ com'[f].family = f /\ asked[r].op # "logout"
    BY <1>2 DEF Reaches
  <2>2. OpensFamily(f) /\ ~Opened(f)
    BY <1>4, <2>1, FirstIsOpened
  <2>3. CASE asked[r].op = "withdraw"
    <3>1. com'[f].client \in Requiring /\ ConsentOf(com'[f]) = asked[r].of
      BY <1>2, <2>3 DEF Reaches, Targets
    <3>2. writer[asked[r].of] = None
      BY <2>2, <3>1, OpenerHoldsConsent
    <3>3. writer[asked[r].of] = r
      BY <2>3 DEF LockInv, HasLocked, TakingBack
    <3> QED
      BY <3>2, <3>3, RequestsAreSome
  <2>4. CASE asked[r].op # "withdraw"
    <3>1. f = family[r]
      BY <1>2, <2>1, <2>4 DEF Reaches, Targets
    <3> QED
      BY <2>1, <2>2, <2>4, <3>1, RequestsAreSome DEF TakesFamily, TakingBack
  <2> QED
    BY <2>3, <2>4
<1> QED
  BY <1>3, <1>4

\* No step lets a family escape a request that takes it back.
LEMMA NextKeepsNoneEscapes ==
  ASSUME IndInv, IndInv', LockInv, FamilyInv, ShareInv, [Next]_vars,
         NEW q \in Requests, TakesFamily(q), NoneEscapes(q)
  PROVE  NoneEscapes(q)'
<1>1. ASSUME Start(q) \/ Advance(q) \/ Fail(q), pc'[q] = "t_rows", NEW f \in Requests,
             Reaches(q, f)'
      PROVE  IsTakenBack(q, f)'
  <2>0. pc[q] # "idle" => CallFits(q) /\ StepFits(q)
    BY Served
  <2>1. com' = com
    BY <1>1, TakingIsQuiet DEF TakingBack
  <2>2. /\ todo \in [Requests -> SUBSET Requests] /\ ended \in [Requests -> SUBSET Requests]
        /\ pc \in [Requests -> Steps \cup Outcomes] /\ family \in [Requests -> Requests \cup {None}]
    BY DEF IndInv, TypeOK
  <2>3. CASE FindTokens(q)
    <3>1. asked' = asked /\ family' = family
      BY <2>3 DEF FindTokens
    <3>2. com[f] # None /\ Targets(q, com[f])
      BY <1>1, <2>1, <3>1 DEF Reaches, Targets, ConsentOf
    <3> QED
      BY <2>1, <2>2, <2>3, <3>2 DEF FindTokens, IsTakenBack
  <2>4. CASE RevokeRow(q)
    <3>1. Reaches(q, f)
      BY <1>1, <2>1, <2>4 DEF RevokeRow, Reaches, Targets, ConsentOf
    <3>2. pc[q] = "t_rows" /\ com[f] # None
      BY <2>4, <3>1 DEF RevokeRow, Reaches
    <3>3. IsTakenBack(q, f)
      BY <3>1, <3>2 DEF NoneEscapes
    <3> QED
      BY <2>1, <2>2, <2>4, <3>2, <3>3 DEF RevokeRow, IsTakenBack
  <2>5. CASE MarkCodeReplayed(q)
    <3>1. asked' = asked /\ asked[q].op = "exchange" /\ family'[q] = None
      BY <1>1, <2>0, <2>2, <2>5 DEF MarkCodeReplayed, Refuse, Goto, StepFits, Outcomes
    <3> QED
      BY <1>1, <3>1, RequestsAreSome DEF Reaches, Targets
  <2>6. CASE ReadReplayedToken(q) \/ RevokeToken(q)
    BY <1>1, <2>2, <2>6 DEF ReadReplayedToken, RevokeToken, Refuse, Goto
  <2>7. CASE EndSession(q) \/ DeleteConsent(q)
    BY <1>1, <2>2, <2>7 DEF EndSession, DeleteConsent, Update, Refuse, Goto
  <2> QED
    BY <1>1, <2>3, <2>4, <2>5, <2>6, <2>7, ComesToTakeBack DEF TakingBack
<1>2. ASSUME NEW r \in Requests, Start(r) \/ Advance(r) \/ Fail(r), r # q PROVE Stands(q)
  BY <1>2, StartIsOwn, AdvanceIsOwn, FailIsOwn DEF OwnStep, Alone
<1>3. CASE Tick \/ Purge \/ UNCHANGED vars
  BY <1>3, OthersLetNoneEscape, PassiveIsAlone DEF locals, Stands
<1> QED
  BY <1>1, <1>2, <1>3, OthersLetNoneEscape DEF Next, NoneEscapes

\* What a request takes back is revoked when it commits.
LEMMA ReachedIsRevoked ==
  ASSUME IndInv, NEW r \in Requests, NoneEscapes(r), TakesBack(r),
         NEW f \in Requests, Reaches(r, f)
  PROVE  com'[f].revoked
<1>1. com[f].revoked \/ f \in ended[r]
  BY DEF NoneEscapes, TakesBack, IsTakenBack
<1>2. CASE f \in ended[r]
  BY <1>2, RevokedToken DEF TakesBack
<1>3. CASE f \notin ended[r]
  BY <1>1, <1>3 DEF TakesBack
<1> QED
  BY <1>2, <1>3

\* What a code opened is revoked once the code is replayed, whatever the step.
LEMMA NextKeepsReplay ==
  ASSUME IndInv, IndInv', LockInv, FamilyInv, TakeInv, [Next]_vars, NEW f \in Requests
  PROVE  ReplayFits(f)'
<1> DEFINE c == asked[f].of
<1> SUFFICES ASSUME Opened(f)', com'[f] # None, com'[c'] # None, com'[c'].replayed
             PROVE  com'[f].revoked
  BY DEF ReplayFits
<1>1. MovesOn
  BY NextMovesOn
<1>2. ASSUME com[f] = None PROVE FALSE
  <2>1. asked'[f].op = "exchange"
    BY DEF Opened, IsGranted
  <2>2. OpensFamily(f)
    BY <1>2, <2>1, MintedBy DEF CarriesOn
  <2>3. c' = c /\ c \in Codes /\ com[c] # None /\ ~com[c].replayed
        /\ com'[c] = [com[c] EXCEPT !.family = f]
    BY <2>2 DEF OpensFamily
  <2>4. ~com'[c].replayed
    BY <2>3, BoundCode
  <2> HIDE DEF c
  <2> QED
    BY <2>3, <2>4
<1>3. CASE com[f] # None
  <2>1. pc[f] = "granted" /\ Stands(f) /\ family[f] = com[f].family
    BY <1>3, AnsweredStands DEF FamilyInv, FamilyFits, Outcomes
  <2>2. Opened(f) /\ c' = c /\ com[f].family = f
    BY <2>1 DEF Stands, Opened, IsGranted
  <2>3. c \in Codes
    BY <2>1, <2>2, Served DEF CallFits, Opened, IsGranted
  <2>4. com'[c] # None /\ com'[c].replayed
    <3> HIDE DEF c
    <3> QED
      BY <2>2
  <2>5. CASE com[c] = None
    <3>1. PICK r \in Requests : IssuesCode(r) /\ asked[r].of = c
      BY <2>3, <2>4, <2>5, IssuedBy
    <3>2. ~com'[c].replayed
      BY <3>1 DEF IssuesCode, NewCode
    <3> QED
      BY <2>4, <3>2
  <2>6. CASE com[c] # None /\ com[c].replayed
    <3>1. com[f].revoked
      BY <1>3, <2>2, <2>6 DEF TakeInv, ReplayFits
    <3> QED
      BY <1>1, <1>3, <3>1 DEF MovesOn, TokenMoves
  <2>7. CASE com[c] # None /\ ~com[c].replayed
    <3>1. com[c].family = f
      BY <2>2, <2>7 DEF FamilyInv, BoundFits
    <3>2. PICK r \in Requests : TakesBack(r) /\ asked[r].op = "exchange" /\ family[r] = com[c].family
      BY <2>3, <2>4, <2>7, ReplayedBy
    <3>3. Reaches(r, f)
      BY <1>3, <2>2, <3>1, <3>2 DEF Reaches, Targets
    <3> QED
      BY <3>2, <3>3, ReachedIsRevoked DEF TakeInv
  <2> QED
    BY <2>5, <2>6, <2>7
<1> QED
  BY <1>2, <1>3

\* What rests on a consent is revoked once the consent is gone, whatever the
\* step.
LEMMA NextKeepsConsent ==
  ASSUME IndInv, IndInv', LockInv, FamilyInv, ShareInv, TakeInv, [Next]_vars, NEW f \in Requests
  PROVE  ConsentFits(f)'
<1> DEFINE x == ConsentOf(com[f])
<1> SUFFICES ASSUME com'[f] # None, com'[f].family = f, com'[f].client \in Requiring,
                    com'[ConsentOf(com'[f])] = None
             PROVE  com'[f].revoked
  BY DEF ConsentFits, ConsentOf
<1>1. MovesOn
  BY NextMovesOn
<1>2. ASSUME com[f] = None PROVE FALSE
  BY <1>2, FirstIsOpened, OpenerHoldsConsent
<1>3. CASE com[f] # None
  <2>1. /\ com'[f].family = com[f].family /\ com'[f].client = com[f].client
        /\ com'[f].session = com[f].session
    BY <1>1, <1>3 DEF MovesOn, TokenMoves
  <2>2. com'[x] = None
    BY <2>1 DEF ConsentOf
  <2>3. x \in Consents
    BY <1>3, GrantAssumption DEF ConsentOf, Consents, IndInv, TypeOK, AreRows, TokenRow
  <2>4. CASE com[x] = None
    <3>1. com[f].revoked
      BY <1>3, <2>1, <2>4 DEF TakeInv, ConsentFits
    <3> QED
      BY <1>1, <1>3, <3>1 DEF MovesOn, TokenMoves
  <2>5. CASE com[x] # None
    <3>1. PICK r \in Requests : TakesBack(r) /\ asked[r].op = "withdraw" /\ asked[r].of = x
      BY <2>2, <2>3, <2>5, WithdrawnBy
    <3>2. Reaches(r, f)
      BY <1>3, <2>1, <3>1 DEF Reaches, Targets
    <3> QED
      BY <3>1, <3>2, ReachedIsRevoked DEF TakeInv
  <2> QED
    BY <2>4, <2>5
<1> QED
  BY <1>2, <1>3

\* Nothing a request takes back escapes it, and what a replayed code or a
\* withdrawn consent carried is revoked.
THEOREM TakenBackHolds == Spec => []TakeInv
<1>1. Init => TakeInv
  <2> SUFFICES ASSUME Init PROVE TakeInv
    OBVIOUS
  <2>1. \A t \in Requests : com[t] = None /\ pc[t] = "idle"
    BY TablesAreApart DEF Init, StorageInit
  <2> QED
    BY <2>1 DEF TakeInv, TakesFamily, NoneEscapes, ReplayFits, ConsentFits, TakingBack
<1>2. IndInv /\ IndInv' /\ LockInv /\ FamilyInv /\ ShareInv /\ TakeInv /\ [Next]_vars => TakeInv'
  <2> SUFFICES ASSUME IndInv, IndInv', LockInv, FamilyInv, ShareInv, TakeInv, [Next]_vars
               PROVE  TakeInv'
    OBVIOUS
  <2>1. \A r \in Requests : TakesFamily(r)' /\ NoneEscapes(r)'
    BY NextKeepsTakesFamily, NextKeepsNoneEscapes DEF TakeInv
  <2>2. \A f \in Requests : ReplayFits(f)' /\ ConsentFits(f)'
    BY NextKeepsReplay, NextKeepsConsent
  <2> QED
    BY <2>1, <2>2 DEF TakeInv
<1> QED
  BY <1>1, <1>2, Inductive, LocksHold, FamiliesHold, SharesHold, PTL DEF Spec

-----------------------------------------------------------------------------
(* What a code that is replayed and a consent that is withdrawn leave.     *)

\* What can be spent is of a family whose first token is there, not revoked.
LEMMA SpendableStands ==
  ASSUME IndInv, FamilyInv, NEW t \in Requests, Spendable(t)
  PROVE  LET f == com[t].family
         IN /\ Opened(f) /\ com[f] # None /\ ~com[f].revoked /\ com[f].family = f
            /\ com[f].client = com[t].client /\ com[f].session = com[t].session
            /\ now < SessionLifetime
<1> DEFINE f == com[t].family
           s == com[t].session
<1>1. com[t] # None /\ IsLive(s) /\ ~HasRevokedKin(com[t])
  BY DEF Spendable
<1>2. s \in Sessions /\ now \in Nat
  BY <1>1 DEF IndInv, TypeOK, AreRows, TokenRow
<1>3. com[s] # None /\ com[s].expires = SessionLifetime /\ com[s].expires > now
  BY <1>1, <1>2 DEF IsLive, FamilyInv, ExpiryFits
<1>4. now < SessionLifetime
  BY <1>2, <1>3, GrantAssumption
<1>5. Opened(f) /\ f \in Requests /\ FamilyFits(t)
  BY <1>1 DEF FamilyInv, FamilyFits, Opened
<1>6. com[f] # None
  BY <1>2, <1>4, <1>5, GrantAssumption DEF FamilyInv, StaysFits, Opened
<1>7. /\ com[f].family = f /\ com[f].client = com[t].client /\ com[f].session = s
  BY <1>1, <1>5, <1>6 DEF FamilyFits
<1>8. ~com[f].revoked
  BY <1>1, <1>5, <1>6, <1>7 DEF HasRevokedKin
<1> QED
  BY <1>4, <1>5, <1>6, <1>7, <1>8

\* Once an exchange marked a code replayed, no token of a family an exchange of
\* it opened can be spent, whatever wrote it and when.
THEOREM ReplayIsTakenBack == Spec => []ReplayTakesBack
<1>1. IndInv /\ FamilyInv /\ TakeInv => ReplayTakesBack
  <2> SUFFICES ASSUME IndInv, FamilyInv, TakeInv, NEW c \in Codes, com[c] # None, com[c].replayed,
                      NEW t \in Requests, Spendable(t), asked[com[t].family].of = c
               PROVE  FALSE
    BY DEF ReplayTakesBack
  <2> DEFINE f == com[t].family
  <2>1. Opened(f) /\ com[f] # None /\ ~com[f].revoked /\ f \in Requests
    BY SpendableStands DEF Opened
  <2> QED
    BY <2>1 DEF TakeInv, ReplayFits
<1> QED
  BY <1>1, Inductive, FamiliesHold, TakenBackHolds, PTL

\* As long as a consent is missing, no client that requires it holds a token it
\* could spend: an exchange held the consent until its token was there for the
\* withdrawal to find, and a rotation leaves the family's first token revoked.
THEOREM WithdrawalHolds == Spec => []WithdrawnHolds
<1>1. IndInv /\ FamilyInv /\ TakeInv => WithdrawnHolds
  <2> SUFFICES ASSUME IndInv, FamilyInv, TakeInv, NEW t \in Requests, Spendable(t),
                      com[t].client \in Requiring, com[ConsentOf(com[t])] = None
               PROVE  FALSE
    BY DEF WithdrawnHolds
  <2> DEFINE f == com[t].family
  <2>1. /\ f \in Requests /\ com[f] # None /\ ~com[f].revoked /\ com[f].family = f
        /\ com[f].client = com[t].client /\ com[f].session = com[t].session
    BY SpendableStands DEF Opened
  <2>2. ConsentOf(com[f]) = ConsentOf(com[t])
    BY <2>1 DEF ConsentOf
  <2> QED
    BY <2>1, <2>2 DEF TakeInv, ConsentFits
<1> QED
  BY <1>1, Inductive, FamiliesHold, TakenBackHolds, PTL

\* Two tokens of a family are never both good: all but the last were used.
THEOREM OneIsSpendable == Spec => []OneSpendable
<1>1. IndInv /\ FamilyInv => OneSpendable
  BY DEF OneSpendable, Spendable, MayBeSpent, FamilyInv, OneUnused
<1> QED
  BY <1>1, Inductive, FamiliesHold, PTL

\* A token marked used has an heir in its family, committed with the mark.
THEOREM UsedIsCarriedOn == Spec => []UsedHasHeir
<1>1. FamilyInv => UsedHasHeir
  BY DEF FamilyInv
<1> QED
  BY <1>1, FamiliesHold, PTL

\* A token is revoked by a request whose event is in the chain.
THEOREM RevocationIsTold == Spec => []NoSilentRevocation
<1>1. FamilyInv => NoSilentRevocation
  BY DEF FamilyInv, RevokedFits, NoSilentRevocation
<1> QED
  BY <1>1, FamiliesHold, PTL

-----------------------------------------------------------------------------
(* Nobody asks for a code that is still to be issued, and a code an        *)
(* exchange holds stays as long as a session may live.                     *)

IssueFits(q) ==
  Issues(q) =>
    /\ Issued[asked[q].of] = None
    /\ \A r \in Requests \ {q} : pc[r] # "idle" => asked[r].of # asked[q].of

KeptFits(r) == HoldsCode(r) /\ now <= SessionLifetime => com[asked[r].of] # None

IssueInv == \A r \in Requests : IssueFits(r) /\ (pc[r] # "idle" => KeptFits(r))

\* A request asks one thing.
LEMMA AsksOnce ==
  ASSUME IndInv, [Next]_vars, NEW q \in Requests, pc[q] # "idle"
  PROVE  /\ pc'[q] # "idle" /\ asked'[q].of = asked[q].of /\ asked'[q].op = asked[q].op
         /\ asked'[q].client = asked[q].client /\ asked'[q].at = asked[q].at
         /\ asked'[q].dead = asked[q].dead
<1>1. CASE Stands(q)
  BY <1>1 DEF Stands
<1>2. ASSUME NEW r \in Requests, Start(r) \/ Advance(r) \/ Fail(r), r # q PROVE Stands(q)
  BY <1>2, StartIsOwn, AdvanceIsOwn, FailIsOwn DEF OwnStep, Alone
<1>3. CASE Tick \/ Purge \/ UNCHANGED vars
  BY <1>1, <1>3, PassiveIsAlone DEF locals, Stands
<1>4. ASSUME Start(q) PROVE FALSE
  BY <1>4, StartIsOwn
<1>5. CASE Advance(q) \/ Fail(q)
  <2>1. pc'[q] # "idle"
    BY <1>5, AdvanceIsOwn, FailIsOwn DEF OwnStep
  <2>2. CASE SpendAuthorizationCode(q)
    <3>1. asked[q] \in Call /\ asked \in [Requests -> Call \cup {None}]
      BY Served DEF CallFits, IndInv, TypeOK
    <3>2. asked' = asked \/ asked' = [asked EXCEPT ![q].grant = GrantOf(com[asked[q].of])]
      BY <2>2 DEF SpendAuthorizationCode, Read
    <3> QED
      BY <2>1, <3>1, <3>2 DEF Call
  <2>3. ASSUME ~SpendAuthorizationCode(q) PROVE asked' = asked
    <3>1. ASSUME FindSession(q) \/ SettleConsent(q) \/ IssueCode(q) \/ CommitSpentCode(q)
                 \/ ReadCodeSubject(q) \/ HoldConsent(q) \/ BindCodeFamily(q)
          PROVE  asked' = asked
      BY <3>1 DEF FindSession, SettleConsent, IssueCode, CommitSpentCode, ReadCodeSubject,
                  HoldConsent, BindCodeFamily, Read, Refuse, Update
    <3>2. ASSUME MarkCodeReplayed(q) \/ AnswerExchange(q) \/ SpendRefreshToken(q)
                 \/ LockRefreshToken(q) \/ ReadTokenSubject(q) \/ AnswerRotation(q)
          PROVE  asked' = asked
      BY <3>2 DEF MarkCodeReplayed, AnswerExchange, SpendRefreshToken, LockRefreshToken,
                  ReadTokenSubject, AnswerRotation, IssueRefreshToken, Read, Refuse, Update
    <3>3. ASSUME ReadReplayedToken(q) \/ RevokeToken(q) \/ FindLiveSession(q) \/ EndSession(q)
                 \/ DeleteConsent(q) \/ FindTokens(q) \/ RevokeRow(q) \/ CommitTakeBack(q)
                 \/ Fail(q)
          PROVE  asked' = asked
      BY <3>3 DEF ReadReplayedToken, RevokeToken, FindLiveSession, EndSession, DeleteConsent,
                  FindTokens, RevokeRow, CommitTakeBack, Fail, Read, Refuse, Update
    <3> QED
      BY <1>5, <2>3, <3>1, <3>2, <3>3 DEF Advance
  <2> QED
    BY <2>1, <2>2, <2>3
<1> QED
  BY <1>1, <1>2, <1>3, <1>4, <1>5 DEF Next

\* What a request asks when it begins.
LEMMA Begins ==
  ASSUME IndInv, NEW q \in Requests, Start(q)
  PROVE  /\ pc'[q] = "a_session" => BeginAuthorize(q)
         /\ pc'[q] = "x_spend" => BeginExchange(q)
         /\ pc'[q] = "r_spend" => BeginRotate(q)
         /\ BeginAuthorize(q) => pc'[q] = "a_session"
         /\ BeginExchange(q) => pc'[q] = "x_spend"
         /\ BeginRotate(q) => pc'[q] = "r_spend"
         /\ BeginRevoke(q) => pc'[q] = "v_read"
         /\ BeginLogout(q) => pc'[q] = "l_read"
         /\ BeginWithdraw(q) => pc'[q] = "w_delete"
<1>1. ASSUME NEW first, NEW call, Begin(q, first, call) PROVE pc'[q] = first
  BY <1>1 DEF Begin, Goto, IndInv, TypeOK
<1>2. /\ BeginAuthorize(q) => pc'[q] = "a_session"
      /\ BeginExchange(q) => pc'[q] = "x_spend"
      /\ BeginRotate(q) => pc'[q] = "r_spend"
  BY <1>1 DEF BeginAuthorize, BeginExchange, BeginRotate
<1>3. /\ BeginRevoke(q) => pc'[q] = "v_read"
      /\ BeginLogout(q) => pc'[q] = "l_read"
      /\ BeginWithdraw(q) => pc'[q] = "w_delete"
  BY <1>1 DEF BeginRevoke, BeginLogout, BeginWithdraw
<1> QED
  BY <1>2, <1>3 DEF Start

\* Who has a new request ask for it has it by some answer.
LEMMA BeginsWith ==
  ASSUME IndInv, NEW q \in Requests, Start(q), asked'[q].of \in Codes
  PROVE  \/ /\ BeginAuthorize(q) /\ Issued[asked'[q].of] = None
            /\ \A r \in Requests : pc[r] # "idle" => asked[r].of # asked'[q].of
         \/ /\ BeginExchange(q)
            /\ \/ Issued[asked'[q].of] # None
               \/ \E r \in Requests : pc[r] = "granted" /\ asked[r].of = asked'[q].of
<1>1. ASSUME NEW first, NEW op, NEW k, NEW of, NEW g, NEW fits, NEW dead,
             Begin(q, first, NewCall(op, k, of, g, fits, dead))
      PROVE  asked'[q].of = of
  BY <1>1 DEF Begin, NewCall, IndInv, TypeOK
<1>2. CASE BeginAuthorize(q)
  BY <1>1, <1>2 DEF BeginAuthorize
<1>3. CASE BeginExchange(q)
  BY <1>1, <1>3 DEF BeginExchange
<1>4. ASSUME BeginRotate(q) \/ BeginRevoke(q) \/ BeginLogout(q) \/ BeginWithdraw(q) PROVE FALSE
  BY <1>1, <1>4, TablesAreApart DEF BeginRotate, BeginRevoke, BeginLogout, BeginWithdraw
<1> QED
  BY <1>2, <1>3, <1>4 DEF Start

\* Nobody comes to ask for a code that is still to be issued.
LEMMA NextKeepsIssue ==
  ASSUME IndInv, IndInv', LockInv, [Next]_vars, \A q \in Requests : IssueFits(q),
         NEW q \in Requests
  PROVE  IssueFits(q)'
<1> SUFFICES ASSUME Issues(q)'
             PROVE  /\ Issued[asked'[q].of] = None
                    /\ \A r \in Requests \ {q} : pc'[r] # "idle" => asked'[r].of # asked'[q].of
  BY DEF IssueFits
<1>0. asked'[q].of \in Codes
  BY DEF Issues, Issuing, IndInv, RequestFits, StepFits, CallFits
<1>1. CASE Issues(q)
  <2>1. pc[q] # "idle" /\ asked'[q].of = asked[q].of
    BY <1>1, AsksOnce DEF Issues, Issuing
  <2>2. Issued[asked[q].of] = None
    BY <1>1 DEF IssueFits
  <2>3. ASSUME NEW r \in Requests \ {q}, pc'[r] # "idle", asked'[r].of = asked[q].of PROVE FALSE
    <3>1. CASE pc[r] # "idle"
      BY <1>1, <2>3, <3>1, AsksOnce DEF IssueFits
    <3>2. CASE pc[r] = "idle"
      <4>1. ~Stands(r)
        BY <2>3, <3>2 DEF Stands
      <4>2. ASSUME NEW p \in Requests, Start(p) \/ Advance(p) \/ Fail(p) PROVE p = r
        BY <4>1, <4>2, StartIsOwn, AdvanceIsOwn, FailIsOwn DEF OwnStep, Alone
      <4>3. ~(Tick \/ Purge \/ UNCHANGED vars)
        BY <4>1, PassiveIsAlone DEF locals, Stands
      <4>4. Start(r) \/ Advance(r) \/ Fail(r)
        BY <4>2, <4>3 DEF Next
      <4>5. ~Advance(r) /\ ~Fail(r)
        BY <3>2 DEF Fail, IsServed, Advance, FindSession, SettleConsent, IssueCode,
             SpendAuthorizationCode, CommitSpentCode, ReadCodeSubject, HoldConsent,
             BindCodeFamily, AnswerExchange, MarkCodeReplayed, SpendRefreshToken,
             LockRefreshToken, ReadTokenSubject, AnswerRotation, ReadReplayedToken,
             RevokeToken, FindLiveSession, EndSession, DeleteConsent, FindTokens, RevokeRow,
             CommitTakeBack
      <4>6. Start(r) /\ asked'[r].of \in Codes
        BY <1>0, <2>1, <2>3, <4>4, <4>5
      <4>7. CASE \A p \in Requests : pc[p] # "idle" => asked[p].of # asked'[r].of
        BY <2>1, <2>3, <4>7
      <4>8. CASE \E p \in Requests : pc[p] = "granted" /\ asked[p].of = asked'[r].of
        BY <1>1, <2>3, <4>8 DEF IssueFits, Issues, Issuing
      <4> QED
        BY <2>2, <2>3, <4>6, <4>7, <4>8, BeginsWith
    <3> QED
      BY <3>1, <3>2
  <2> QED
    BY <2>1, <2>2, <2>3
<1>2. CASE ~Issues(q)
  <2>1. ~Stands(q)
    BY <1>2 DEF Stands, Issues
  <2>2. ASSUME NEW r \in Requests, Start(r) \/ Advance(r) \/ Fail(r) PROVE r = q
    BY <2>1, <2>2, StartIsOwn, AdvanceIsOwn, FailIsOwn DEF OwnStep, Alone
  <2>3. ~(Tick \/ Purge \/ UNCHANGED vars)
    BY <2>1, PassiveIsAlone DEF locals, Stands
  <2>4. Start(q) \/ Advance(q) \/ Fail(q)
    BY <2>2, <2>3 DEF Next
  <2>5. ASSUME Advance(q) \/ Fail(q) PROVE FALSE
    <3>1. pc[q] \notin Issuing /\ pc'[q] \in Issuing
      BY <1>2 DEF Issues
    <3>2. ~FindSession(q) /\ ~SettleConsent(q) /\ ~IssueCode(q)
      BY <3>1 DEF FindSession, SettleConsent, IssueCode, Issuing
    <3> QED
      BY <2>5, <3>1, <3>2, StatementsLead DEF Advance, Issuing, Outcomes
  <2>6. Start(q) /\ pc'[q] = "a_session"
    BY <2>4, <2>5, StartIsOwn DEF Issues, Issuing
  <2>7. ~BeginExchange(q)
    BY <2>6, Begins
  <2>8. /\ Issued[asked'[q].of] = None
        /\ \A r \in Requests : pc[r] # "idle" => asked[r].of # asked'[q].of
    BY <1>0, <2>6, <2>7, BeginsWith
  <2>9. \A r \in Requests \ {q} : pc'[r] = pc[r] /\ asked'[r] = asked[r]
    BY <2>6, StartIsOwn DEF OwnStep, Alone, Stands
  <2> QED
    BY <2>8, <2>9
<1> QED
  BY <1>1, <1>2

\* Retention forgets no code an exchange holds while a session lives.
LEMMA NextKeepsKept ==
  ASSUME IndInv, IndInv', LockInv, FamilyInv, [Next]_vars, NEW r \in Requests,
         pc[r] # "idle" => KeptFits(r), pc'[r] # "idle"
  PROVE  KeptFits(r)'
<1> SUFFICES ASSUME HoldsCode(r)', now' <= SessionLifetime PROVE com'[asked'[r].of] # None
  BY DEF KeptFits
<1>1. MovesOn
  BY NextMovesOn
<1>2. asked'[r].of \in Codes
  BY DEF HoldsCode, IndInv, RequestFits, CallFits
<1>3. CASE pc[r] # "idle" /\ HoldsCode(r)
  <2>1. asked'[r].of = asked[r].of
    BY <1>3, AsksOnce
  <2>2. now <= SessionLifetime
    BY <1>1, GrantAssumption DEF MovesOn
  <2>3. com[asked[r].of] # None
    BY <1>3, <2>2 DEF KeptFits
  <2>4. com[asked[r].of].expires \in Nat
    BY <1>2, <2>1, <2>3 DEF IndInv, TypeOK, AreRows, CodeRow
  <2>5. ~(com[asked[r].of].expires + CodesKept < now)
    BY <1>1, <2>2, <2>4, GrantAssumption, LifetimeAssumption DEF MovesOn
  <2> QED
    BY <1>1, <1>2, <2>1, <2>3, <2>5 DEF MovesOn, GoesLate
<1>4. CASE ~(pc[r] # "idle" /\ HoldsCode(r))
  <2>1. CASE pc'[r] = "x_spent"
    <3>1. writer'[asked'[r].of] = r
      BY <2>1 DEF IndInv, RequestFits, HoldFits
    <3> QED
      BY <1>2, <3>1, RequestsAreSome DEF IndInv, WritesKeep
  <2>2. CASE pc'[r] # "x_spent"
    <3>0. pc'[r] \in {"x_subject", "x_consent", "x_bind", "x_answer", "granted"}
          /\ asked'[r].op = "exchange"
      BY <2>2 DEF HoldsCode, Redeeming
    <3>1. ~Stands(r)
      BY <1>4, <3>0 DEF Stands, HoldsCode, Redeeming
    <3>2. ASSUME NEW q \in Requests, Start(q) \/ Advance(q) \/ Fail(q) PROVE q = r
      BY <3>1, <3>2, StartIsOwn, AdvanceIsOwn, FailIsOwn DEF OwnStep, Alone
    <3>3. ~(Tick \/ Purge \/ UNCHANGED vars)
      BY <3>1, PassiveIsAlone DEF locals, Stands
    <3>4. Start(r) \/ Advance(r) \/ Fail(r)
      BY <3>2, <3>3 DEF Next
    <3>5. ~Start(r) /\ ~Fail(r)
      BY <3>0, StatementsLead, StartIsOwn
    <3>6. \/ CommitSpentCode(r) \/ ReadCodeSubject(r) \/ HoldConsent(r) \/ BindCodeFamily(r)
          \/ AnswerExchange(r) \/ IssueCode(r) \/ AnswerRotation(r)
      BY <3>0, <3>4, <3>5, StatementsLead DEF Advance, Outcomes
    <3>7. pc[r] \in {"x_spent", "x_subject", "x_consent", "x_bind", "x_answer", "a_issue", "r_answer"}
      BY <3>6 DEF CommitSpentCode, ReadCodeSubject, HoldConsent, BindCodeFamily, AnswerExchange,
                  IssueCode, AnswerRotation
    <3>8. StepFits(r) /\ asked[r].op = "exchange"
      BY <3>0, <3>7, Served, AsksOnce
    <3> QED
      BY <1>4, <3>7, <3>8 DEF StepFits, HoldsCode, Redeeming, Issuing, Rotating
  <2> QED
    BY <2>1, <2>2
<1> QED
  BY <1>3, <1>4

\* Nobody asks for a code before it is issued, and none an exchange holds goes
\* while a session lives.
THEOREM IssuesHold == Spec => []IssueInv
<1>1. Init => IssueInv
  BY DEF Init, IssueInv, IssueFits, Issues, Issuing
<1>2. IndInv /\ IndInv' /\ LockInv /\ FamilyInv /\ IssueInv /\ [Next]_vars => IssueInv'
  <2> SUFFICES ASSUME IndInv, IndInv', LockInv, FamilyInv, IssueInv, [Next]_vars PROVE IssueInv'
    OBVIOUS
  <2>1. \A q \in Requests : IssueFits(q)'
    BY NextKeepsIssue DEF IssueInv
  <2>2. \A r \in Requests : pc'[r] # "idle" => KeptFits(r)'
    BY NextKeepsKept DEF IssueInv
  <2> QED
    BY <2>1, <2>2 DEF IssueInv
<1> QED
  BY <1>1, <1>2, Inductive, LocksHold, FamiliesHold, PTL DEF Spec

\* A code stays known while a token it obtained could still be spent: retention
\* keeps it for as long as a session lives.
THEOREM CodeIsKept == Spec => []CodeKeptLongEnough
<1>1. IndInv /\ FamilyInv /\ IssueInv => CodeKeptLongEnough
  <2> SUFFICES ASSUME IndInv, FamilyInv, IssueInv, NEW r \in Requests, IsGranted(r, "exchange"),
                      com[asked[r].of] = None, NEW t \in Family(r), Spendable(t)
               PROVE  FALSE
    BY DEF CodeKeptLongEnough
  <2>1. now < SessionLifetime /\ now \in Nat
    BY SpendableStands DEF Family, IndInv, TypeOK
  <2>2. HoldsCode(r) /\ pc[r] # "idle"
    BY DEF IsGranted, HoldsCode
  <2> QED
    BY <2>1, <2>2, GrantAssumption DEF IssueInv, KeptFits
<1> QED
  BY <1>1, Inductive, FamiliesHold, IssuesHold, PTL

-----------------------------------------------------------------------------
(* What came dead stays dead: a call that began with a dead code or a dead *)
(* token never gets past the statement that tells.                         *)

DeadCode(r) ==
  LET code == com[asked[r].of]
  IN code = None \/ code.spent \/ code.expires <= asked[r].at \/ ~IsLive(code.session)

DeadToken(r) ==
  LET row == com[asked[r].of]
  IN ~MayBeSpent(row, asked[r].client, asked[r].at) \/ ~IsLive(row.session)

DeadFits(r) ==
  pc[r] # "idle" /\ asked[r].dead =>
    /\ asked[r].op \in {"exchange", "rotate"}
    /\ pc[r] \notin {"x_consent", "x_bind", "x_answer", "r_answer", "granted"}
    /\ pc[r] = "x_spend" => DeadCode(r)
    /\ pc[r] \in {"x_spent", "x_subject"} => ~IsLive(asked[r].grant.session)
    /\ pc[r] = "r_spend" => DeadToken(r) \/ HasRevokedKin(com[asked[r].of])
    /\ pc[r] = "r_lock" => DeadToken(r)
    /\ pc[r] = "r_subject" => ~IsLive(com[asked[r].of].session)

DeadInv == \A r \in Requests : DeadFits(r)

\* A session is live once the step is taken.
LiveNext(s) == com'[s] # None /\ com'[s].state = "active" /\ com'[s].expires > now'

\* No session comes back to life.
LEMMA SessionStaysDead ==
  ASSUME IndInv, MovesOn, NEW s \in Sessions, LiveNext(s)
  PROVE  IsLive(s)
<1>1. com'[s] # None /\ com[s] # None
  BY DEF LiveNext, MovesOn, SessionMoves
<1>2. com[s].expires \in Nat
  BY <1>1 DEF IndInv, TypeOK, AreRows, SessionRow
<1>3. com'[s].state = "active" /\ com'[s].expires > now' /\ com'[s].expires = com[s].expires
      /\ com[s].state = "active"
  BY <1>1 DEF LiveNext, MovesOn, SessionMoves
<1> QED
  BY <1>1, <1>2, <1>3 DEF IsLive, MovesOn

\* What another does revives no code.
LEMMA DeadCodeStays ==
  ASSUME IndInv, IndInv', LockInv, IssueInv, [Next]_vars, NEW r \in Requests,
         pc[r] # "idle", asked[r].op = "exchange", DeadCode(r)
  PROVE  DeadCode(r)'
<1> DEFINE c == asked[r].of
<1>1. MovesOn
  BY NextMovesOn
<1>2. c \in Codes
  BY Served DEF CallFits
<1>3. asked'[r].of = c /\ asked'[r].at = asked[r].at
  BY AsksOnce
<1> SUFFICES ASSUME com'[c] # None, ~com'[c].spent, ~(com'[c].expires <= asked[r].at),
                    LiveNext(com'[c].session)
             PROVE  FALSE
  BY <1>3 DEF DeadCode, IsLive, LiveNext
<1>4. ASSUME com[c] = None PROVE FALSE
  <2>1. PICK q \in Requests : IssuesCode(q) /\ asked[q].of = c
    BY <1>2, <1>4, IssuedBy
  <2>2. q # r /\ Issues(q)
    BY <1>2, <2>1 DEF IssuesCode, Issues, Issuing
  <2> QED
    BY <2>1, <2>2 DEF IssueInv, IssueFits
<1>5. CASE com[c] # None
  <2>1. /\ com'[c].session = com[c].session /\ com'[c].expires = com[c].expires
        /\ com[c].spent => com'[c].spent
    BY <1>1, <1>2, <1>5 DEF MovesOn, CodeMoves
  <2>2. com[c].session \in Sessions
    BY <1>2, <1>5 DEF IndInv, TypeOK, AreRows, CodeRow
  <2>3. IsLive(com[c].session)
    BY <1>1, <2>1, <2>2, SessionStaysDead
  <2> QED
    BY <1>5, <2>1, <2>3 DEF DeadCode
<1> QED
  BY <1>4, <1>5

\* Nor a token, nor a family with a revoked token in it.
LEMMA DeadTokenStays ==
  ASSUME IndInv, IndInv', LockInv, FamilyInv, [Next]_vars, NEW r \in Requests,
         pc[r] # "idle", asked[r].op = "rotate"
  PROVE  /\ DeadToken(r) => DeadToken(r)'
         /\ HasRevokedKin(com[asked[r].of]) =>
              DeadToken(r)' \/ HasRevokedKin(com[asked[r].of])'
<1> DEFINE t == asked[r].of
<1>1. MovesOn
  BY NextMovesOn
<1>2. t \in Requests /\ pc[t] = "granted"
  BY Served DEF CallFits
<1>3. asked'[r].of = t /\ asked'[r].at = asked[r].at /\ asked'[r].client = asked[r].client
  BY AsksOnce
<1> SUFFICES ASSUME com'[t] # None, MayBeSpent(com'[t], asked[r].client, asked[r].at),
                    LiveNext(com'[t].session)
             PROVE  /\ ~DeadToken(r)
                    /\ HasRevokedKin(com[t]) =>
                         \E kin \in Requests : /\ com'[kin] # None /\ com'[kin].revoked
                                               /\ com'[kin].family = com'[t].family
  BY <1>3 DEF DeadToken, IsLive, LiveNext, MayBeSpent, HasRevokedKin
<1>4. com[t] # None
  BY <1>1, <1>2 DEF MovesOn, ComesOnce
<1>5. /\ com'[t].session = com[t].session /\ com'[t].expires = com[t].expires
      /\ com'[t].client = com[t].client /\ com'[t].family = com[t].family
      /\ com[t].used => com'[t].used
      /\ com[t].revoked => com'[t].revoked
  BY <1>1, <1>2, <1>4 DEF MovesOn, TokenMoves
<1>6. com[t].session \in Sessions
  BY <1>2, <1>4 DEF IndInv, TypeOK, AreRows, TokenRow
<1>7. IsLive(com[t].session)
  BY <1>1, <1>5, <1>6, SessionStaysDead
<1>8. MayBeSpent(com[t], asked[r].client, asked[r].at)
  BY <1>4, <1>5 DEF MayBeSpent
<1>9. ASSUME NEW kin \in Requests, com[kin] # None, com[kin].family = com[t].family,
             com[kin].revoked
      PROVE  com'[kin] # None /\ com'[kin].revoked /\ com'[kin].family = com'[t].family
  <2>1. com[com[t].session].expires = SessionLifetime /\ com[kin].expires = SessionLifetime
    BY <1>6, <1>7, <1>9 DEF IsLive, FamilyInv, ExpiryFits
  <2>2. ~(com[kin].expires < now)
    BY <1>1, <1>7, <2>1, GrantAssumption DEF IsLive, MovesOn
  <2>3. com'[kin] # None
    BY <1>1, <1>9, <2>2 DEF MovesOn, GoesLate
  <2> QED
    BY <1>1, <1>5, <1>9, <2>3 DEF MovesOn, TokenMoves
<1> QED
  BY <1>4, <1>7, <1>8, <1>9 DEF DeadToken, HasRevokedKin

\* What others do revives nothing a dead call asked for.
LEMMA OthersKeepDead ==
  ASSUME IndInv, IndInv', LockInv, FamilyInv, IssueInv, [Next]_vars, NEW r \in Requests,
         DeadFits(r), Stands(r), \A x \in Rows : writer[x] = r => com'[x] = com[x]
  PROVE  DeadFits(r)'
<1>1. MovesOn
  BY NextMovesOn
<1>2. pc'[r] = pc[r] /\ asked'[r] = asked[r]
  BY DEF Stands
<1> SUFFICES ASSUME pc[r] # "idle", asked[r].dead PROVE DeadFits(r)'
  BY <1>2 DEF DeadFits
<1>3. CallFits(r) /\ StepFits(r) /\ HoldFits(r)
  BY Served DEF IndInv, RequestFits
<1>4. pc[r] = "x_spend" => DeadCode(r)'
  BY <1>3, DeadCodeStays DEF DeadFits, StepFits
<1>5. pc[r] \in {"x_spent", "x_subject"} => ~IsLive(asked[r].grant.session)'
  <2>1. ASSUME pc[r] \in {"x_spent", "x_subject"}, LiveNext(asked[r].grant.session) PROVE FALSE
    <3>1. asked[r].grant.session \in Sessions
      BY <1>3, <2>1 DEF CallFits, Redeeming, Grant
    <3> QED
      BY <1>1, <2>1, <3>1, SessionStaysDead DEF DeadFits
  <2> QED
    BY <1>2, <2>1 DEF IsLive, LiveNext
<1>6. pc[r] = "r_spend" => DeadToken(r)' \/ HasRevokedKin(com[asked[r].of])'
  BY <1>3, DeadTokenStays DEF DeadFits, StepFits
<1>7. pc[r] = "r_lock" => DeadToken(r)'
  BY <1>3, DeadTokenStays DEF DeadFits, StepFits
<1>8. pc[r] = "r_subject" => ~IsLive(com[asked[r].of].session)'
  <2> DEFINE t == asked[r].of
  <2>1. ASSUME pc[r] = "r_subject", LiveNext(com'[t].session) PROVE FALSE
    <3>1. t \in Requests /\ t \in Rows /\ writer[t] = r
      BY <1>3, <2>1, TablesAreApart
      DEF CallFits, StepFits, HoldFits, HoldsToken, Rotating
    <3>2. com'[t] = com[t] /\ com[t] # None
      BY <3>1, RequestsAreSome DEF IndInv, WritesKeep
    <3>3. com[t].session \in Sessions
      BY <3>1, <3>2 DEF IndInv, TypeOK, AreRows, TokenRow
    <3> QED
      BY <1>1, <2>1, <3>2, <3>3, SessionStaysDead DEF DeadFits
  <2> QED
    BY <1>2, <2>1 DEF IsLive, LiveNext
<1> QED
  BY <1>2, <1>4, <1>5, <1>6, <1>7, <1>8 DEF DeadFits

\* A call begins dead with a code or a token that is.
LEMMA StartKeepsDead ==
  ASSUME IndInv, NEW r \in Requests, Start(r)
  PROVE  DeadFits(r)'
<1>1. ASSUME NEW first, NEW op, NEW k, NEW of, NEW g, NEW fits, NEW dead,
             Begin(r, first, NewCall(op, k, of, g, fits, dead))
      PROVE  /\ asked'[r].op = op /\ asked'[r].client = k /\ asked'[r].of = of
             /\ asked'[r].at = now /\ asked'[r].dead = dead
             /\ pc'[r] = first /\ com' = com /\ now' = now
  BY <1>1 DEF Begin, Goto, NewCall, storage, IndInv, TypeOK
<1>2. CASE BeginExchange(r)
  <2>1. PICK c \in Codes : /\ asked'[r].op = "exchange" /\ asked'[r].of = c /\ asked'[r].at = now
                           /\ asked'[r].dead = IsDeadCode(c)
                           /\ pc'[r] = "x_spend" /\ com' = com /\ now' = now
    BY <1>1, <1>2 DEF BeginExchange
  <2>2. IsDeadCode(c) => DeadCode(r)'
    BY <2>1 DEF DeadCode, IsDeadCode, IsLive
  <2> QED
    BY <2>1, <2>2 DEF DeadFits
<1>3. CASE BeginRotate(r)
  <2>1. PICK t \in Requests, k \in Clients :
          /\ asked'[r].op = "rotate" /\ asked'[r].client = k /\ asked'[r].of = t
          /\ asked'[r].at = now /\ asked'[r].dead = (~Spendable(t) \/ com[t].client # k)
          /\ pc'[r] = "r_spend" /\ com' = com /\ now' = now
    BY <1>1, <1>3 DEF BeginRotate
  <2>2. (~Spendable(t) \/ com[t].client # k) => DeadToken(r)' \/ HasRevokedKin(com[asked[r].of])'
    BY <2>1 DEF DeadToken, HasRevokedKin, Spendable, MayBeSpent, IsLive
  <2> QED
    BY <2>1, <2>2 DEF DeadFits
<1>4. ASSUME BeginAuthorize(r) \/ BeginRevoke(r) \/ BeginLogout(r) \/ BeginWithdraw(r)
      PROVE  ~asked'[r].dead
  BY <1>1, <1>4 DEF BeginAuthorize, BeginRevoke, BeginLogout, BeginWithdraw
<1> QED
  BY <1>2, <1>3, <1>4 DEF Start, DeadFits

\* A request that came dead gets no further than where it is found out.
LEMMA AdvanceKeepsDead ==
  ASSUME IndInv, LockInv, NEW r \in Requests, Advance(r) \/ Fail(r), DeadFits(r)
  PROVE  DeadFits(r)'
<1>0. pc[r] # "idle" /\ CallFits(r) /\ StepFits(r) /\ HoldFits(r)
  <2>1. pc[r] # "idle"
    BY DEF Fail, IsServed, Advance, FindSession, SettleConsent, IssueCode,
           SpendAuthorizationCode, CommitSpentCode, ReadCodeSubject, HoldConsent,
           BindCodeFamily, AnswerExchange, MarkCodeReplayed, SpendRefreshToken,
           LockRefreshToken, ReadTokenSubject, AnswerRotation, ReadReplayedToken,
           RevokeToken, FindLiveSession, EndSession, DeleteConsent, FindTokens, RevokeRow,
           CommitTakeBack
  <2> QED
    BY <2>1, Served DEF IndInv, RequestFits
<1>1. [Next]_vars
  BY DEF Next
<1>2. asked'[r].op = asked[r].op /\ asked'[r].of = asked[r].of /\ asked'[r].dead = asked[r].dead
      /\ asked'[r].client = asked[r].client /\ asked'[r].at = asked[r].at
  BY <1>0, <1>1, AsksOnce
<1> SUFFICES ASSUME asked[r].dead PROVE DeadFits(r)'
  BY <1>2 DEF DeadFits
<1>3. /\ asked[r].op \in {"exchange", "rotate"}
      /\ pc[r] \notin {"x_consent", "x_bind", "x_answer", "r_answer", "granted"} \cup Issuing
  BY <1>0 DEF DeadFits, StepFits
<1>4. ~HoldConsent(r) /\ ~BindCodeFamily(r) /\ ~AnswerExchange(r) /\ ~AnswerRotation(r)
      /\ ~IssueCode(r) /\ ~FindSession(r) /\ ~SettleConsent(r)
  BY <1>3 DEF HoldConsent, BindCodeFamily, AnswerExchange, AnswerRotation, IssueCode,
              FindSession, SettleConsent, Issuing
<1>5. CASE SpendAuthorizationCode(r)
  <2> DEFINE c == asked[r].of
             code == com[c]
  <2>1. pc[r] = "x_spend" /\ DeadCode(r)
    BY <1>0, <1>5 DEF SpendAuthorizationCode, DeadFits
  <2>2. CASE pc'[r] = "x_spent"
    <3>1. /\ code # None /\ ~code.spent /\ code.expires > asked[r].at
          /\ asked' = [asked EXCEPT ![r].grant = GrantOf(code)] /\ com' = com /\ now' = now
      BY <1>5, <2>2 DEF SpendAuthorizationCode, Read, Goto, WriteRow, IndInv, TypeOK
    <3>2. asked'[r].grant.session = code.session
      BY <1>0, <3>1 DEF GrantOf, CallFits, Call, IndInv, TypeOK
    <3>3. ~IsLive(code.session)
      <4>1. c \in Codes /\ code.expires \in Nat /\ asked[r].at \in Nat
        BY <1>0, <2>1, <3>1 DEF StepFits, CallFits, Call, IndInv, TypeOK, AreRows, CodeRow
      <4> QED
        BY <2>1, <3>1, <4>1 DEF DeadCode
    <3>4. ~IsLive(asked[r].grant.session)'
      BY <3>1, <3>2, <3>3 DEF IsLive
    <3> QED
      BY <1>2, <1>3, <2>2, <3>4 DEF DeadFits
  <2>3. CASE pc'[r] = "x_mark"
    BY <1>2, <1>3, <2>3 DEF DeadFits
  <2> QED
    BY <1>5, <2>2, <2>3, StatementsLead
<1>6. CASE CommitSpentCode(r)
  <2>1. pc[r] = "x_spent" /\ asked' = asked
    BY <1>6 DEF CommitSpentCode
  <2>2. ~IsLive(asked[r].grant.session)
    BY <1>0, <2>1 DEF DeadFits
  <2>3. ~LiveNext(asked[r].grant.session)
    <3>1. asked[r].grant.session \in Sessions
      BY <1>0, <2>1 DEF CallFits, Redeeming, Grant
    <3>2. com'[asked[r].grant.session] = com[asked[r].grant.session] /\ now' = now
      BY <1>6, <3>1, TablesAreApart, CommitSpentCodeEffect DEF SpendsCode, CommitSpentCode
    <3> QED
      BY <2>2, <3>2 DEF IsLive, LiveNext
  <2>4. ~IsLive(asked[r].grant.session)'
    BY <2>1, <2>3 DEF IsLive, LiveNext
  <2> QED
    BY <1>2, <1>3, <1>6, <2>4, StatementsLead DEF DeadFits
<1>7. CASE ReadCodeSubject(r)
  <2>1. pc'[r] = "refused"
    BY <1>0, <1>7 DEF ReadCodeSubject, DeadFits, Refuse, Goto, IndInv, TypeOK
  <2> QED
    BY <1>2, <1>3, <2>1 DEF DeadFits
<1>8. CASE SpendRefreshToken(r)
  <2> DEFINE row == com[asked[r].of]
  <2>1. CASE pc'[r] = "r_lock"
    <3>1. /\ MayBeSpent(row, asked[r].client, asked[r].at) /\ ~HasRevokedKin(row)
          /\ com' = com /\ now' = now /\ asked' = asked /\ pc[r] = "r_spend"
      BY <1>8, <2>1 DEF SpendRefreshToken, Read, Goto, storage, IndInv, TypeOK
    <3>2. DeadToken(r)
      BY <1>0, <3>1 DEF DeadFits
    <3>3. DeadToken(r)'
      BY <3>1, <3>2 DEF DeadToken, MayBeSpent, IsLive
    <3> QED
      BY <1>2, <1>3, <2>1, <3>3 DEF DeadFits
  <2>2. CASE pc'[r] = "r_read"
    BY <1>2, <1>3, <2>2 DEF DeadFits
  <2> QED
    BY <1>8, <2>1, <2>2, StatementsLead
<1>9. CASE LockRefreshToken(r)
  <2> DEFINE row == com[asked[r].of]
  <2>1. CASE pc'[r] = "r_subject"
    <3>1. /\ MayBeSpent(row, asked[r].client, asked[r].at)
          /\ com' = com /\ now' = now /\ asked' = asked /\ pc[r] = "r_lock"
      BY <1>9, <2>1 DEF LockRefreshToken, Read, Update, WriteRow, Goto, IndInv, TypeOK
    <3>2. ~IsLive(row.session)
      BY <1>0, <3>1 DEF DeadFits, DeadToken
    <3>3. ~IsLive(com[asked[r].of].session)'
      BY <3>1, <3>2 DEF IsLive
    <3> QED
      BY <1>2, <1>3, <2>1, <3>3 DEF DeadFits
  <2>2. CASE pc'[r] = "r_read"
    BY <1>2, <1>3, <2>2 DEF DeadFits
  <2> QED
    BY <1>9, <2>1, <2>2, StatementsLead
<1>10. CASE ReadTokenSubject(r)
  <2> DEFINE t == asked[r].of
  <2>1. pc[r] = "r_subject" /\ ~IsLive(com[t].session)
    BY <1>0, <1>10 DEF ReadTokenSubject, DeadFits
  <2>2. t \in Requests /\ writer[t] = r
    BY <1>0, <2>1 DEF StepFits, CallFits, HoldFits, HoldsToken, Rotating
  <2>3. com[t] # None /\ cur[t] = [com[t] EXCEPT !.used = TRUE]
    BY <2>1, <2>2 DEF LockInv, LocksFit, TokenLock, Rotating
  <2>4. cur[t].session = com[t].session
    BY <2>2, <2>3, UsedToken
  <2>5. pc'[r] = "refused"
    BY <1>10, <2>1, <2>4 DEF ReadTokenSubject, Refuse, Goto, IndInv, TypeOK
  <2> QED
    BY <1>2, <1>3, <2>5 DEF DeadFits
<1>11. ASSUME \/ MarkCodeReplayed(r) \/ ReadReplayedToken(r) \/ RevokeToken(r)
              \/ FindLiveSession(r) \/ EndSession(r) \/ DeleteConsent(r)
              \/ FindTokens(r) \/ RevokeRow(r) \/ CommitTakeBack(r) \/ Fail(r)
       PROVE  pc'[r] \in {"t_start", "t_rows", "l_end", "refused", "over", "failed"}
  BY <1>11, StatementsLead
<1>12. CASE pc'[r] \in {"t_start", "t_rows", "l_end", "refused", "over", "failed"}
  BY <1>2, <1>3, <1>12 DEF DeadFits
<1> QED
  BY <1>4, <1>5, <1>6, <1>7, <1>8, <1>9, <1>10, <1>11, <1>12 DEF Advance

\* Every call that came dead is where it is found out, or was refused.
THEOREM DeadHold == Spec => []DeadInv
<1>1. Init => DeadInv
  BY DEF Init, DeadInv, DeadFits
<1>2. IndInv /\ IndInv' /\ LockInv /\ FamilyInv /\ IssueInv /\ DeadInv /\ [Next]_vars => DeadInv'
  <2> SUFFICES ASSUME IndInv, IndInv', LockInv, FamilyInv, IssueInv, DeadInv, [Next]_vars,
                      NEW q \in Requests
               PROVE  DeadFits(q)'
    BY DEF DeadInv
  <2>1. CASE Tick \/ Purge \/ UNCHANGED vars
    BY <2>1, PassiveIsAlone, OthersKeepDead, RequestsAreSome DEF Alone, RowsStand, DeadInv
  <2>2. ASSUME NEW r \in Requests, Start(r) \/ Advance(r) \/ Fail(r), r # q PROVE DeadFits(q)'
    <3>1. OwnStep(r)
      BY <2>2, StartIsOwn, AdvanceIsOwn, FailIsOwn
    <3> QED
      BY <2>2, <3>1, OthersKeepDead DEF OwnStep, Alone, RowsStand, DeadInv
  <2>3. ASSUME Start(q) \/ Advance(q) \/ Fail(q) PROVE DeadFits(q)'
    BY <2>3, StartKeepsDead, AdvanceKeepsDead DEF DeadInv
  <2> QED
    BY <2>1, <2>2, <2>3 DEF Next
<1> QED
  BY <1>1, <1>2, Inductive, LocksHold, FamiliesHold, IssuesHold, PTL DEF Spec

\* A call that began with a code or a token already dead is granted nothing.
THEOREM DeadIsRefused == Spec => []DeadObtainsNothing
<1>1. DeadInv => DeadObtainsNothing
  BY DEF DeadInv, DeadFits, DeadObtainsNothing
<1> QED
  BY <1>1, DeadHold, PTL

-----------------------------------------------------------------------------
(* A family with nothing left to spend stays so.                           *)

\* What can be spent after a step was unused, or heir to what was, before it.
LEMMA SpendableBefore ==
  ASSUME IndInv, LockInv, FamilyInv, MovesOn, NEW t \in Requests, Spendable(t)',
         NEW u \in Requests, com[u] # None, ~com[u].used,
         com[u].family = com'[t].family, com[u].session = com'[t].session
  PROVE  Spendable(u)
<1>1. LiveNext(com'[t].session)
  BY DEF Spendable, IsLive, LiveNext
<1>2. \A kin \in Requests : com'[kin] # None /\ com'[kin].family = com'[t].family =>
                              ~com'[kin].revoked
  BY DEF Spendable, HasRevokedKin
<1>3. com[u].session \in Sessions
  BY DEF IndInv, TypeOK, AreRows, TokenRow
<1>4. IsLive(com[u].session)
  BY <1>1, <1>3, SessionStaysDead
<1>5. com[com[u].session].expires = SessionLifetime /\ now < SessionLifetime
  BY <1>3, <1>4 DEF IsLive, FamilyInv, ExpiryFits
<1>6. ASSUME NEW kin \in Requests, com[kin] # None, com[kin].family = com[u].family,
             com[kin].revoked
      PROVE  FALSE
  <2>1. com[kin].expires = SessionLifetime
    BY <1>6 DEF FamilyInv, ExpiryFits
  <2>2. com'[kin] # None
    BY <1>5, <1>6, <2>1, GrantAssumption DEF MovesOn, GoesLate
  <2> QED
    BY <1>2, <1>6, <2>2 DEF MovesOn, TokenMoves
<1>7. com[u].expires > now /\ ~com[u].revoked
  BY <1>5, <1>6 DEF FamilyInv, ExpiryFits
<1> QED
  BY <1>4, <1>6, <1>7 DEF Spendable, MayBeSpent, HasRevokedKin

\* No step gives a family that has nothing left to spend anything to spend.
THEOREM RevivesNever == Spec => NeverRevived
<1>1. IndInv /\ IndInv' /\ LockInv /\ FamilyInv /\ [Next]_vars =>
        \A f \in Requests :
          Family(f) # {} /\ (\A t \in Family(f) : ~Spendable(t))
            => (\A t \in Family(f) : ~Spendable(t))'
  <2> SUFFICES ASSUME IndInv, IndInv', LockInv, FamilyInv, [Next]_vars, NEW f \in Requests,
                      Family(f) # {}, \A t \in Family(f) : ~Spendable(t),
                      NEW t \in Requests, com'[t] # None, com'[t].family = f, Spendable(t)'
               PROVE  FALSE
    BY DEF Family
  <2>1. MovesOn
    BY NextMovesOn
  <2>2. CASE com[t] # None
    <3>1. /\ com[t].family = f /\ com[t].session = com'[t].session
          /\ ~com'[t].used /\ ~com[t].used
      BY <2>1, <2>2 DEF MovesOn, TokenMoves, Spendable, MayBeSpent
    <3>2. Spendable(t)
      BY <2>1, <2>2, <3>1, SpendableBefore
    <3> QED
      BY <2>2, <3>1, <3>2 DEF Family
  <2>3. CASE com[t] = None /\ OpensFamily(t)
    <3>1. f = t /\ pc[t] = "x_answer"
      BY <2>3, NewTokenFields DEF OpensFamily
    <3>2. Opened(t)
      BY <3>1 DEF Family, FamilyInv, FamilyFits
    <3> QED
      BY <3>1, <3>2 DEF Opened, IsGranted
  <2>4. CASE com[t] = None /\ CarriesOn(t)
    <3> DEFINE u == asked[t].of
    <3>1. /\ u \in Requests /\ com[u] # None /\ ~com[u].used
          /\ com'[t] = NewToken(com[u].family, com[u].client, com[u].session)
      BY <2>4 DEF CarriesOn
    <3>2. com'[t].family = com[u].family /\ com'[t].session = com[u].session
      BY <3>1, NewTokenFields
    <3>3. Spendable(u)
      BY <2>1, <3>1, <3>2, SpendableBefore
    <3> QED
      BY <3>1, <3>2, <3>3 DEF Family
  <2> QED
    BY <2>2, <2>3, <2>4, MintedBy
<1> QED
  BY <1>1, Inductive, LocksHold, FamiliesHold, PTL DEF Spec, NeverRevived

-----------------------------------------------------------------------------
(* Who was given tokens, and of which family.                              *)

MintFits(r) ==
  /\ pc[r] \in Issuing \cup {"idle"} => family[r] = None
  /\ pc[r] = "granted" =>
       \/ asked[r].op \in {"authorize", "allow"} /\ family[r] = None
       \/ asked[r].op = "exchange" /\ family[r] = r
       \/ asked[r].op = "rotate" /\ family[r] \in Requests

MintInv == \A r \in Requests : MintFits(r)

\* Every request that is granted something keeps the family that goes with it.
LEMMA NextKeepsMint ==
  ASSUME IndInv, LockInv, FamilyInv, [Next]_vars, NEW q \in Requests, MintFits(q)
  PROVE  MintFits(q)'
<1>1. CASE Stands(q)
  BY <1>1 DEF Stands, MintFits
<1>2. ASSUME NEW r \in Requests, Start(r) \/ Advance(r) \/ Fail(r), r # q PROVE Stands(q)
  BY <1>2, StartIsOwn, AdvanceIsOwn, FailIsOwn DEF OwnStep, Alone
<1>3. CASE Tick \/ Purge \/ UNCHANGED vars
  BY <1>1, <1>3, PassiveIsAlone DEF locals, Stands
<1>4. CASE Start(q)
  BY <1>4, StartIsOwn DEF MintFits, Issuing
<1>5. CASE Advance(q) \/ Fail(q)
  <2>1. ASSUME pc'[q] \in Issuing \cup {"idle"} PROVE family'[q] = None
    <3>1. FindSession(q) \/ SettleConsent(q)
      BY <1>5, <2>1, StatementsLead DEF Advance, Issuing, Outcomes
    <3>2. pc[q] \in Issuing /\ family' = family
      BY <3>1 DEF FindSession, SettleConsent, Read, Refuse, Update, Issuing
    <3> QED
      BY <3>2 DEF MintFits
  <2>2. ASSUME pc'[q] = "granted"
        PROVE  \/ asked'[q].op \in {"authorize", "allow"} /\ family'[q] = None
               \/ asked'[q].op = "exchange" /\ family'[q] = q
               \/ asked'[q].op = "rotate" /\ family'[q] \in Requests
    <3>1. IssuesCode(q) \/ OpensFamily(q) \/ CarriesOn(q)
      BY <1>5, <2>2, OthersAreQuiet, CommitSpentCodeEffect, IssueCodeEffect,
         AnswerExchangeEffect, AnswerRotationEffect, CommitTakeBackEffect
      DEF Quiet, SpendsCode, TakesBack
    <3>2. CASE IssuesCode(q)
      BY <3>2 DEF IssuesCode, MintFits, Issuing
    <3>3. CASE OpensFamily(q)
      BY <3>3 DEF OpensFamily
    <3>4. CASE CarriesOn(q)
      BY <3>4 DEF CarriesOn, FamilyInv, FamilyFits, Opened
    <3> QED
      BY <3>1, <3>2, <3>3, <3>4
  <2> QED
    BY <2>1, <2>2 DEF MintFits
<1> QED
  BY <1>1, <1>2, <1>3, <1>4, <1>5 DEF Next

\* Whoever was given a refresh token is an exchange or a rotation, and has a
\* family; whoever was given a code has none.
THEOREM MintsHold == Spec => []MintInv
<1>1. Init => MintInv
  BY DEF Init, MintInv, MintFits
<1>2. IndInv /\ LockInv /\ FamilyInv /\ MintInv /\ [Next]_vars => MintInv'
  BY NextKeepsMint DEF MintInv
<1> QED
  BY <1>1, <1>2, Inductive, LocksHold, FamiliesHold, PTL DEF Spec

-----------------------------------------------------------------------------
(* The current token of a family.                                          *)

\* A family has at most one current token, and is open only if an exchange
\* opened it.
LEMMA CurrentIs ==
  ASSUME FamilyInv, NEW f \in Requests
  PROVE  /\ \A t \in CurrentTokens(f) : currentBar[f] = t /\ IsOpened(f)
         /\ CurrentTokens(f) = {} => currentBar[f] = None
<1>1. \A t, u \in CurrentTokens(f) : t = u
  BY DEF CurrentTokens, Family, Spendable, MayBeSpent, FamilyInv, OneUnused
<1>2. \A t \in CurrentTokens(f) : IsOpened(f)
  BY DEF CurrentTokens, Family, FamilyInv, FamilyFits, Opened, IsOpened
<1>3. CurrentTokens(f) = {} => currentBar[f] = None
  BY DEF currentBar
<1>4. ASSUME NEW t \in CurrentTokens(f) PROVE currentBar[f] = t
  <2>1. currentBar[f] = CHOOSE u \in CurrentTokens(f) : TRUE
    BY <1>4 DEF currentBar
  <2>2. (CHOOSE u \in CurrentTokens(f) : TRUE) \in CurrentTokens(f)
    BY <1>4
  <2> QED
    BY <1>1, <1>4, <2>1, <2>2
<1> QED
  BY <1>2, <1>3, <1>4

\* The same of the state a step leads to.
LEMMA CurrentIsNext ==
  ASSUME FamilyInv', NEW f \in Requests
  PROVE  /\ \A t \in CurrentTokens(f)' : currentBar'[f] = t /\ IsOpened(f)'
         /\ CurrentTokens(f)' = {} => currentBar'[f] = None
<1>1. \A t, u \in CurrentTokens(f)' : t = u
  BY DEF CurrentTokens, Family, Spendable, MayBeSpent, FamilyInv, OneUnused
<1>2. \A t \in CurrentTokens(f)' : IsOpened(f)'
  BY DEF CurrentTokens, Family, FamilyInv, FamilyFits, Opened, IsOpened
<1>3. CurrentTokens(f)' = {} => currentBar'[f] = None
  BY DEF currentBar
<1>4. ASSUME NEW t \in CurrentTokens(f)' PROVE currentBar'[f] = t
  <2>1. currentBar'[f] = CHOOSE u \in CurrentTokens(f)' : TRUE
    BY <1>4 DEF currentBar
  <2>2. (CHOOSE u \in CurrentTokens(f)' : TRUE) \in CurrentTokens(f)'
    BY <1>4
  <2> QED
    BY <1>1, <1>4, <2>1, <2>2
<1> QED
  BY <1>2, <1>3, <1>4

\* A step that mints nothing closes the families it leaves without a token.
LEMMA FadingCloses ==
  ASSUME IndInv, LockInv, FamilyInv, FamilyInv', MovesOn,
         \A t \in Requests : com[t] = None => com'[t] = None,
         \A f \in Requests : IsOpened(f)' <=> IsOpened(f),
         mintedBar' = mintedBar
  PROVE  Lifecycle!Next
<1> DEFINE G == {f \in Requests : CurrentTokens(f) # {} /\ CurrentTokens(f)' = {}}
<1>1. ASSUME NEW f \in Requests, NEW t \in CurrentTokens(f)' PROVE t \in CurrentTokens(f)
  <2>1. t \in Requests /\ com'[t] # None /\ com'[t].family = f /\ Spendable(t)'
    BY <1>1 DEF CurrentTokens, Family
  <2>2. com[t] # None
    BY <2>1
  <2>3. com[t].family = f /\ com[t].session = com'[t].session /\ ~com[t].used
    BY <2>1, <2>2 DEF MovesOn, TokenMoves, Spendable, MayBeSpent
  <2>4. Spendable(t)
    BY <2>1, <2>2, <2>3, SpendableBefore
  <2> QED
    BY <2>1, <2>2, <2>3, <2>4 DEF CurrentTokens, Family
<1>2. \A f \in G : stageBar[f] = "open"
  BY CurrentIs DEF stageBar
<1>3. ASSUME NEW f \in Requests
      PROVE  /\ stageBar'[f] = IF f \in G THEN "closed" ELSE stageBar[f]
             /\ currentBar'[f] = IF f \in G THEN None ELSE currentBar[f]
  <2>0. /\ stageBar[f] = IF ~IsOpened(f) THEN "none"
                         ELSE IF CurrentTokens(f) = {} THEN "closed" ELSE "open"
        /\ stageBar'[f] = IF ~IsOpened(f)' THEN "none"
                          ELSE IF CurrentTokens(f)' = {} THEN "closed" ELSE "open"
    BY DEF stageBar
  <2>1. CASE CurrentTokens(f)' # {}
    <3>1. PICK t \in CurrentTokens(f)' : TRUE
      BY <2>1
    <3>2. t \in CurrentTokens(f) /\ f \notin G
      BY <1>1, <3>1
    <3>3. currentBar'[f] = t /\ currentBar[f] = t
      BY <3>1, <3>2, CurrentIs, CurrentIsNext
    <3> QED
      BY <2>0, <2>1, <3>2, <3>3
  <2>2. CASE CurrentTokens(f)' = {} /\ CurrentTokens(f) # {}
    BY <2>0, <2>2, CurrentIs, CurrentIsNext
  <2>3. CASE CurrentTokens(f)' = {} /\ CurrentTokens(f) = {}
    BY <2>0, <2>3, CurrentIs, CurrentIsNext
  <2> QED
    BY <2>1, <2>2, <2>3
<1>4. /\ stageBar' = [f \in Requests |-> IF f \in G THEN "closed" ELSE stageBar[f]]
      /\ currentBar' = [f \in Requests |-> IF f \in G THEN None ELSE currentBar[f]]
  <2>1. DOMAIN stageBar' = Requests /\ DOMAIN currentBar' = Requests
        /\ stageBar' = [f \in Requests |-> stageBar'[f]]
        /\ currentBar' = [f \in Requests |-> currentBar'[f]]
    BY DEF stageBar, currentBar
  <2> HIDE DEF G
  <2> QED
    BY <1>3, <2>1
<1>5. G \in SUBSET Requests
  OBVIOUS
<1> HIDE DEF G
<1>6. Lifecycle!Close(G)
  BY <1>2, <1>4 DEF Lifecycle!Close
<1> QED
  BY <1>5, <1>6 DEF Lifecycle!Next

\* A family whose rows a step leaves alone keeps its current token.
LEMMA FamilyStands ==
  ASSUME NEW g \in Requests, now' = now,
         \A t \in Requests : com[t] # None /\ com[t].family = g => com'[t] = com[t],
         \A t \in Requests : com'[t] # None /\ com'[t].family = g => com'[t] = com[t],
         \A s \in Sessions : com'[s] = com[s],
         \A t \in Requests : com[t] # None => com[t].session \in Sessions
  PROVE  CurrentTokens(g)' = CurrentTokens(g)
<1>1. ASSUME NEW t \in Requests, com[t] # None, com[t].family = g, com'[t] = com[t]
      PROVE  Spendable(t)' <=> Spendable(t)
  <2>1. HasRevokedKin(com[t])' <=> HasRevokedKin(com[t])
    BY <1>1 DEF HasRevokedKin
  <2>2. IsLive(com[t].session)' <=> IsLive(com[t].session)
    BY <1>1 DEF IsLive
  <2> QED
    BY <1>1, <2>1, <2>2 DEF Spendable, MayBeSpent
<1>2. \A t \in Requests : t \in Family(g)' <=> t \in Family(g)
  BY DEF Family
<1>3. \A t \in Requests : t \in CurrentTokens(g)' <=> t \in CurrentTokens(g)
  BY <1>1, <1>2 DEF CurrentTokens, Family
<1> QED
  BY <1>3 DEF CurrentTokens, Family

\* What a minting step does to everything but the family it mints for.
LEMMA MintingElsewhere ==
  ASSUME FamilyInv, FamilyInv', NEW r \in Requests, NEW f \in Requests, OwnStep(r),
         pc[r] # "granted", pc'[r] = "granted", family'[r] = f,
         asked'[r].op = "exchange" => f = r,
         \A g \in Requests \ {f} : CurrentTokens(g)' = CurrentTokens(g)
  PROVE  /\ r \notin mintedBar /\ mintedBar' = mintedBar \cup {r}
         /\ \A g \in Requests \ {f} :
              stageBar'[g] = stageBar[g] /\ currentBar'[g] = currentBar[g]
<1>1. \A q \in Requests \ {r} : pc'[q] = pc[q] /\ asked'[q] = asked[q] /\ family'[q] = family[q]
  BY DEF OwnStep, Alone, Stands
<1>2. r \notin mintedBar /\ mintedBar' = mintedBar \cup {r}
  BY <1>1, RequestsAreSome DEF mintedBar
<1>3. ASSUME NEW g \in Requests \ {f} PROVE stageBar'[g] = stageBar[g] /\ currentBar'[g] = currentBar[g]
  <2>1. IsOpened(g)' <=> IsOpened(g)
    BY <1>1, <1>3 DEF IsOpened, IsGranted
  <2>2. stageBar'[g] = stageBar[g]
    BY <1>3, <2>1 DEF stageBar
  <2>3. currentBar'[g] = currentBar[g]
    <3>1. CASE CurrentTokens(g) = {}
      BY <1>3, <3>1, CurrentIs, CurrentIsNext
    <3>2. CASE CurrentTokens(g) # {}
      BY <1>3, <3>2, CurrentIs, CurrentIsNext
    <3> QED
      BY <3>1, <3>2
  <2> QED
    BY <2>2, <2>3
<1> QED
  BY <1>2, <1>3

\* What is opened, carried on or minted late, from what becomes of its family.
LEMMA MintingIsAStep ==
  ASSUME NEW r \in Requests, NEW f \in Requests,
         r \notin mintedBar, mintedBar' = mintedBar \cup {r},
         \A g \in Requests \ {f} :
           stageBar'[g] = stageBar[g] /\ currentBar'[g] = currentBar[g],
         \/ stageBar[f] \in {"none", "open"} /\ stageBar'[f] = "open" /\ currentBar'[f] = r
         \/ /\ stageBar[f] \in {"none", "closed"} /\ stageBar'[f] = "closed"
            /\ currentBar'[f] = currentBar[f]
  PROVE  Lifecycle!Next
<1>1. /\ stageBar = [g \in Requests |-> stageBar[g]] /\ stageBar' = [g \in Requests |-> stageBar'[g]]
      /\ currentBar = [g \in Requests |-> currentBar[g]]
      /\ currentBar' = [g \in Requests |-> currentBar'[g]]
  BY DEF stageBar, currentBar
<1>2. /\ stageBar' = [stageBar EXCEPT ![f] = stageBar'[f]]
      /\ currentBar' = [currentBar EXCEPT ![f] = currentBar'[f]]
  BY <1>1
<1>3. CASE stageBar[f] = "none" /\ stageBar'[f] = "open" /\ currentBar'[f] = r
  <2>1. Lifecycle!Open(f, r)
    BY <1>2, <1>3 DEF Lifecycle!Open
  <2> QED
    BY <2>1 DEF Lifecycle!Next
<1>4. CASE stageBar[f] = "open" /\ stageBar'[f] = "open" /\ currentBar'[f] = r
  <2>1. stageBar' = stageBar
    BY <1>1, <1>4
  <2>2. Lifecycle!CarryOn(f, r)
    BY <1>2, <1>4, <2>1 DEF Lifecycle!CarryOn
  <2> QED
    BY <2>2 DEF Lifecycle!Next
<1>5. CASE /\ stageBar[f] \in {"none", "closed"} /\ stageBar'[f] = "closed"
           /\ currentBar'[f] = currentBar[f]
  <2>1. currentBar' = currentBar
    BY <1>1, <1>5
  <2>2. Lifecycle!MintLate(f, r)
    BY <1>2, <1>5, <2>1 DEF Lifecycle!MintLate
  <2> QED
    BY <2>2 DEF Lifecycle!Next
<1> QED
  BY <1>3, <1>4, <1>5

\* An answered exchange opens its family, or finds it closed.
LEMMA OpeningIsAStep ==
  ASSUME IndInv, LockInv, FamilyInv, FamilyInv', NEW r \in Requests, OwnStep(r), OpensFamily(r)
  PROVE  Lifecycle!Next
<1>1. /\ pc[r] = "x_answer" /\ pc'[r] = "granted" /\ family'[r] = r /\ asked'[r].op = "exchange"
      /\ asked[r].of \in Codes /\ com[r] = None /\ com'[r] # None /\ now' = now
      /\ \A x \in Rows \ {asked[r].of, r} : com'[x] = com[x]
      /\ com'[r] = NewToken(r, asked[r].grant.client, asked[r].grant.session)
  BY DEF OpensFamily, OwnStep
<1>2. com'[r].family = r
  BY <1>1, NewTokenFields
<1>3. \A t \in Requests : com[t] # None => com[t].session \in Sessions
  BY DEF IndInv, TypeOK, AreRows, TokenRow
<1>4. \A t \in Requests : com[t] = None \/ com[t].family # r
  BY <1>1 DEF FamilyInv, FamilyFits, Opened, IsGranted
<1>5. ASSUME NEW g \in Requests \ {r} PROVE CurrentTokens(g)' = CurrentTokens(g)
  BY <1>1, <1>2, <1>3, <1>5, TablesAreApart, FamilyStands
<1>6. /\ r \notin mintedBar /\ mintedBar' = mintedBar \cup {r}
      /\ \A g \in Requests \ {r} : stageBar'[g] = stageBar[g] /\ currentBar'[g] = currentBar[g]
  BY <1>1, <1>5, MintingElsewhere
<1>7. ~IsOpened(r) /\ IsOpened(r)' /\ CurrentTokens(r) = {}
  BY <1>1, <1>4 DEF IsOpened, IsGranted, CurrentTokens, Family
<1>8. stageBar[r] = "none" /\ currentBar[r] = None
  BY <1>7, CurrentIs DEF stageBar
<1>9. CASE CurrentTokens(r)' = {}
  <2>1. stageBar'[r] = "closed" /\ currentBar'[r] = None
    BY <1>7, <1>9, CurrentIsNext DEF stageBar
  <2> QED
    BY <1>6, <1>8, <2>1, MintingIsAStep
<1>10. CASE CurrentTokens(r)' # {}
  <2>1. stageBar'[r] = "open"
    BY <1>7, <1>10 DEF stageBar
  <2>2. CurrentTokens(r)' = {r}
    BY <1>1, <1>4, <1>10, TablesAreApart DEF CurrentTokens, Family
  <2>3. currentBar'[r] = r
    BY <2>2, CurrentIsNext
  <2> QED
    BY <1>6, <1>8, <2>1, <2>3, MintingIsAStep
<1> QED
  BY <1>9, <1>10

\* An answered rotation puts its token in the place of the one it spent, or
\* finds the family closed.
LEMMA CarryingOnIsAStep ==
  ASSUME IndInv, LockInv, FamilyInv, FamilyInv', MovesOn, NEW r \in Requests,
         OwnStep(r), CarriesOn(r), NEW u, u = asked[r].of, NEW f, f = com[u].family
  PROVE  Lifecycle!Next
<1>1. /\ pc[r] = "r_answer" /\ pc'[r] = "granted" /\ family'[r] = f /\ asked'[r].op = "rotate"
      /\ u \in Requests \ {r} /\ com[r] = None /\ com'[r] # None /\ now' = now
      /\ com[u] # None /\ ~com[u].used /\ com'[u] = [com[u] EXCEPT !.used = TRUE]
      /\ \A x \in Rows \ {u, r} : com'[x] = com[x]
      /\ com'[r] = NewToken(f, com[u].client, com[u].session)
  BY DEF CarriesOn, OwnStep
<1>2. /\ com'[r].family = f /\ com'[r].session = com[u].session
      /\ ~com'[r].used /\ ~com'[r].revoked
      /\ com'[u] # None /\ com'[u].family = f /\ com'[u].revoked = com[u].revoked
  BY <1>1, NewTokenFields, UsedToken
<1>3. \A t \in Requests : com[t] # None => com[t].session \in Sessions
  BY DEF IndInv, TypeOK, AreRows, TokenRow
<1>4. f \in Requests /\ IsOpened(f) /\ f # r /\ com[u].session \in Sessions
  BY <1>1, <1>3 DEF FamilyInv, FamilyFits, Opened, IsOpened, IsGranted
<1>5. IsOpened(f)'
  BY <1>4 DEF OwnStep, Alone, Stands, IsOpened, IsGranted
<1>6. ASSUME NEW g \in Requests \ {f} PROVE CurrentTokens(g)' = CurrentTokens(g)
  <2>1. /\ \A t \in Requests : com[t] # None /\ com[t].family = g => com'[t] = com[t]
        /\ \A t \in Requests : com'[t] # None /\ com'[t].family = g => com'[t] = com[t]
        /\ \A x \in Sessions : com'[x] = com[x]
    BY <1>1, <1>2, <1>6, TablesAreApart
  <2> QED
    BY <1>1, <1>3, <2>1, FamilyStands
<1>7. /\ r \notin mintedBar /\ mintedBar' = mintedBar \cup {r}
      /\ \A g \in Requests \ {f} : stageBar'[g] = stageBar[g] /\ currentBar'[g] = currentBar[g]
  BY <1>1, <1>4, <1>6, MintingElsewhere
<1>8. CurrentTokens(f) \subseteq {u} /\ (Spendable(u) => u \in CurrentTokens(f))
  <2>1. ASSUME NEW t \in CurrentTokens(f), t # u PROVE FALSE
    BY <1>1, <2>1
    DEF CurrentTokens, Family, Spendable, MayBeSpent, FamilyInv, OneUnused
  <2> QED
    BY <1>1, <2>1 DEF CurrentTokens, Family
<1>9. CurrentTokens(f)' \subseteq {r} /\ (Spendable(r)' => r \in CurrentTokens(f)')
  <2>1. ASSUME NEW t \in CurrentTokens(f)', t # r PROVE FALSE
    <3>1. t \in Requests /\ com'[t] # None /\ com'[t].family = f /\ ~com'[t].used
      BY <2>1 DEF CurrentTokens, Family, Spendable, MayBeSpent
    <3>2. OneUnused(t, r)'
      BY <2>1, <3>1 DEF FamilyInv
    <3> QED
      BY <1>1, <1>2, <3>1, <3>2 DEF OneUnused
  <2> QED
    BY <1>1, <1>2, <2>1 DEF CurrentTokens, Family
<1>10. Spendable(r)' => Spendable(u)
  BY <1>1, <1>2, SpendableBefore
<1>11. ASSUME Spendable(u) PROVE Spendable(r)'
  <2>1. IsLive(com[u].session) /\ ~HasRevokedKin(com[u])
    BY <1>11 DEF Spendable
  <2>2. LiveNext(com'[r].session)
    BY <1>1, <1>2, <1>4, <2>1, TablesAreApart DEF IsLive, LiveNext
  <2>3. com'[r].expires = SessionLifetime /\ com[com[u].session].expires = SessionLifetime
    BY <1>1, <1>4, <2>1 DEF FamilyInv, ExpiryFits, IsLive
  <2>4. com'[r].expires > now'
    BY <1>1, <2>1, <2>3 DEF IsLive
  <2>5. ASSUME NEW kin \in Requests, com'[kin] # None, com'[kin].family = f, com'[kin].revoked
        PROVE  FALSE
    <3>1. kin # r
      BY <1>2, <2>5
    <3>2. CASE kin = u
      BY <1>1, <1>2, <2>1, <2>5, <3>2 DEF HasRevokedKin
    <3>3. CASE kin # u
      BY <1>1, <2>1, <2>5, <3>1, <3>3, TablesAreApart DEF HasRevokedKin
    <3> QED
      BY <3>2, <3>3
  <2> QED
    BY <1>1, <1>2, <2>2, <2>4, <2>5 DEF Spendable, MayBeSpent, HasRevokedKin, IsLive, LiveNext
<1>12. CASE Spendable(u)
  <2>1. CurrentTokens(f) = {u} /\ CurrentTokens(f)' = {r}
    BY <1>8, <1>9, <1>11, <1>12
  <2>2. stageBar[f] = "open" /\ stageBar'[f] = "open" /\ currentBar'[f] = r
    BY <1>4, <1>5, <2>1, CurrentIsNext DEF stageBar
  <2> QED
    BY <1>4, <1>7, <2>2, MintingIsAStep
<1>13. CASE ~Spendable(u)
  <2>1. CurrentTokens(f) = {} /\ CurrentTokens(f)' = {}
    BY <1>8, <1>9, <1>10, <1>13 DEF CurrentTokens
  <2>2. /\ stageBar[f] = "closed" /\ stageBar'[f] = "closed"
        /\ currentBar[f] = None /\ currentBar'[f] = None
    BY <1>4, <1>5, <2>1, CurrentIs, CurrentIsNext DEF stageBar
  <2> QED
    BY <1>4, <1>7, <2>2, MintingIsAStep
<1> QED
  BY <1>12, <1>13

\* Who is granted something new was issued a code, or minted a token.
LEMMA NewlyGranted ==
  ASSUME IndInv, LockInv, [Next]_vars, NEW q \in Requests, pc[q] # "granted", pc'[q] = "granted"
  PROVE  IssuesCode(q) \/ OpensFamily(q) \/ CarriesOn(q)
<1>1. ~(UNCHANGED locals)
  BY DEF locals
<1>2. \A r \in Requests : OwnStep(r) => r = q
  BY DEF OwnStep, Alone, Stands
<1> QED
  BY <1>1, <1>2, StepCommits DEF Quiet, CommitsBy, Forgets, SpendsCode, TakesBack

\* Every statement of every handler, every tick and every purge is a step of
\* the lifecycle of the grants: a grant is carried by one token at a time, each
\* token is minted once, and a closed grant stays closed.
THEOREM GrantsImplementLifecycle == Spec => ImplementsLifecycle
<1>1. Init => Lifecycle!Init
  <2> SUFFICES ASSUME Init PROVE Lifecycle!Init
    OBVIOUS
  <2>1. \A t \in Requests : com[t] = None /\ pc[t] = "idle"
    BY TablesAreApart DEF Init, StorageInit
  <2>2. \A f \in Requests : ~IsOpened(f) /\ CurrentTokens(f) = {}
    BY <2>1 DEF IsOpened, IsGranted, CurrentTokens, Family
  <2>3. stageBar = [f \in Requests |-> "none"] /\ currentBar = [f \in Requests |-> None]
    BY <2>2 DEF stageBar, currentBar
  <2>4. mintedBar = {}
    BY <2>1 DEF mintedBar
  <2> QED
    BY <2>3, <2>4 DEF Lifecycle!Init
<1>2. IndInv /\ IndInv' /\ LockInv /\ FamilyInv /\ FamilyInv' /\ MintInv /\ MintInv' /\ [Next]_vars
        => [Lifecycle!Next]_(Lifecycle!vars)
  <2> SUFFICES ASSUME IndInv, IndInv', LockInv, FamilyInv, FamilyInv', MintInv, MintInv',
                      [Next]_vars
               PROVE  Lifecycle!Next
    OBVIOUS
  <2>0. MovesOn
    BY NextMovesOn
  <2>1. ASSUME NEW t \in Requests, com[t] = None, com'[t] # None PROVE Lifecycle!Next
    <3>1. OwnStep(t) /\ (OpensFamily(t) \/ CarriesOn(t))
      BY <2>1, MintedBy
    <3> QED
      BY <2>0, <3>1, OpeningIsAStep, CarryingOnIsAStep
  <2>2. CASE \A t \in Requests : com[t] = None => com'[t] = None
    <3>1. ASSUME NEW q \in Requests, pc[q] = "granted" PROVE Stands(q)
      BY <3>1, AnsweredStands DEF Outcomes
    <3>2. ASSUME NEW q \in Requests, pc[q] # "granted", pc'[q] = "granted" PROVE IssuesCode(q)
      BY <2>2, <3>2, NewlyGranted DEF OpensFamily, CarriesOn
    <3>3. ASSUME NEW q \in Requests, pc[q] # "granted", pc'[q] = "granted"
          PROVE  asked'[q].op \in {"authorize", "allow"} /\ family'[q] = None
      BY <3>2, <3>3 DEF IssuesCode, MintInv, MintFits, Issuing
    <3>4. \A f \in Requests : IsOpened(f)' <=> IsOpened(f)
      BY <3>1, <3>3 DEF IsOpened, IsGranted, Stands
    <3>5. mintedBar' = mintedBar
      BY <3>1, <3>3 DEF mintedBar, Stands
    <3> QED
      BY <2>0, <2>2, <3>4, <3>5, FadingCloses
  <2> QED
    BY <2>1, <2>2
<1> QED
  BY <1>1, <1>2, Inductive, LocksHold, FamiliesHold, MintsHold, PTL
  DEF Spec, ImplementsLifecycle, Lifecycle!Spec

=============================================================================
