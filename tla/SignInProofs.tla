---------------------------- MODULE SignInProofs ----------------------------
(***************************************************************************)
(* What SignIn promises, for any number of calls, people and sessions.  Of *)
(* a request: it is answered once, it does not vanish unanswered, and a    *)
(* form that lost it keeps no session.  Of a code: it is for who proved it *)
(* on the page it was asked on, and gives nothing that was not allowed.    *)
(***************************************************************************)
EXTENDS SignIn, TLAPS

-----------------------------------------------------------------------------
(* The inductive invariant.                                                *)

BeginSteps == {"idle", "find", "judge", "keep", "told", "waiting", "grant", "refused", "failed"}
SignInSteps == {"idle", "prove", "mark", "marked", "asked", "terms", "owe", "owing", "consent",
                "take", "issue", "done", "orphan", "ending", "refused", "expired", "failed"}
AnswerSteps == {"idle", "answer", "check", "allow", "add", "give", "deny",
                "done", "refused", "expired", "failed"}

\* The steps between the statement that takes a request and the commit.
Taking == {"issue", "check", "allow", "add", "give", "deny"}

\* The steps at which a call holds a row it wrote.
Writing == Taking \cup {"marked", "owing", "ending"}

\* The steps of a form before it opened its session.
Unopened == {"idle", "prove", "mark", "marked", "asked"}

Asked == [page : Begins \cup {None}, proof : Proof \cup {None}, hint : People \cup {None},
          scopes : AskedScopes, ticket : AllSessions \cup {None}, person : People \cup {None},
          read : RequestRow \cup ClientRow \cup {None},
          way : {"none", "password", "code", "key", "allow", "deny"}, required : BOOLEAN]

RowFits(x, v) ==
  v = None \/ (/\ x \in Begins => v \in RequestRow
               /\ x \in AllSessions => v \in SessionRow
               /\ x = "client" => v \in ClientRow)

TypeOK ==
  /\ DOMAIN com = Rows /\ DOMAIN cur = Rows
  /\ \A x \in Rows : RowFits(x, com[x]) /\ RowFits(x, cur[x])
  /\ writer \in [Rows -> Calls \cup {None}]
  /\ pc \in [Calls -> BeginSteps \cup SignInSteps \cup AnswerSteps]
  /\ mine \in [Calls -> Asked]

\* A call is at a step of its handler, and has what that step needs.
CallFits(c) ==
  /\ c \in Begins => pc[c] \in BeginSteps
  /\ c \in SignIns => /\ pc[c] \in SignInSteps
                      /\ pc[c] \notin {"idle", "refused", "expired", "failed"} => mine[c].page \in Begins
  /\ c \in Answers => /\ pc[c] \in AnswerSteps
                      /\ pc[c] \in {"answer", "check"} => mine[c].way \in {"allow", "deny"}
                      /\ pc[c] \notin {"idle", "refused", "expired", "failed"} =>
                           mine[c].page \in Begins /\ mine[c].ticket \in AllSessions
  /\ pc[c] = "prove" => mine[c].read \in RequestRow
  /\ pc[c] \in {"mark", "allow", "add", "give"} => mine[c].person \in People
  /\ pc[c] \in Taking => writer[mine[c].page] = c /\ mine[c].read \in RequestRow
  /\ pc[c] = "ending" => writer[c] = c

\* A request waits once its call left it waiting.  Who writes its row keeps it
\* or has taken it.
PageFits(p) ==
  /\ pc[p] # "waiting" => com[p] = None /\ writer[p] = None
  /\ writer[p] # None =>
       /\ mine[writer[p]].page = p
       /\ \/ pc[writer[p]] \in {"marked", "owing"} /\ cur[p] # None
          \/ pc[writer[p]] \in Taking /\ cur[p] = None

\* A session is written by the form that opened it, to end it.
SessionFits(s) ==
  writer[s] # None => writer[s] = s /\ pc[s] = "ending" /\ cur[s] # None /\ ~cur[s].active

\* A form that opened no session has none, and one that lost keeps none.
FormFits(c) ==
  /\ pc[c] \in Unopened => com[c] = None
  /\ pc[c] = "expired" /\ com[c] # None => ~com[c].active

\* A request its client was answered is gone.
IsGone(p) == p \in Begins /\ pc[p] = "waiting" /\ com[p] = None /\ writer[p] = None

AnsweredIsGone == \A a \in sent : a.page # None => IsGone(a.page)

Lines ==
  /\ \A x \in Rows : writer[x] = None => cur[x] = com[x]
  /\ writer["client"] = None
  /\ \A p \in Begins : PageFits(p)
  /\ \A s \in AllSessions : SessionFits(s)
  /\ \A c \in SignIns : FormFits(c)
  /\ \A c \in Calls : CallFits(c)

IndInv == TypeOK /\ Lines /\ AnsweredIsGone /\ AnsweredOnce

-----------------------------------------------------------------------------
(* Steps that leave the rows of others alone.                              *)

Steps == BeginSteps \cup SignInSteps \cup AnswerSteps

Moves(c) == \A d \in Calls \ {c} : pc'[d] = pc[d] /\ mine'[d] = mine[d]

RowsStand(c) ==
  \A x \in Rows : \A d \in Calls \ {c} :
    /\ (writer'[x] = d) <=> (writer[x] = d)
    /\ writer[x] = d => cur'[x] = cur[x] /\ com'[x] = com[x]

\* No call is None, and the calls of two handlers differ.
LEMMA CallsAreSome ==
  /\ None \notin Calls /\ None \notin Rows /\ Begins \subseteq Rows /\ AllSessions \subseteq Rows
  /\ SignIns \subseteq AllSessions /\ People \subseteq Rows /\ "client" \in Rows
  /\ Begins \subseteq Calls /\ SignIns \subseteq Calls /\ Answers \subseteq Calls
  BY NoneAssumption, RowsAssumption DEF AllSessions, Calls

\* A call is of one handler.
LEMMA TablesAreApart ==
  /\ Begins \cap AllSessions = {} /\ Begins \cap People = {} /\ AllSessions \cap People = {}
  /\ "client" \notin Begins \cup AllSessions \cup People
  /\ Begins \cap SignIns = {} /\ Begins \cap Answers = {} /\ SignIns \cap Answers = {}
  BY RowsAssumption, SignInAssumption

\* What another call has is its own.
LEMMA OthersFit ==
  ASSUME NEW c \in Calls, IndInv, Moves(c), RowsStand(c)
  PROVE  \A d \in Calls \ {c} : CallFits(d)'
<1> SUFFICES ASSUME NEW d \in Calls, d # c PROVE CallFits(d)'
  OBVIOUS
<1>1. CallFits(d) /\ pc'[d] = pc[d] /\ mine'[d] = mine[d]
  BY DEF IndInv, Lines, Moves
<1>2. pc[d] \in Taking => mine[d].page \in Rows
  BY <1>1, CallsAreSome DEF CallFits, Taking, Calls, BeginSteps
<1>3. pc[d] = "ending" => d \in Rows
  BY <1>1, CallsAreSome DEF CallFits, Calls, BeginSteps, AnswerSteps
<1>4. pc[d] \in Taking => writer'[mine[d].page] = d
  BY <1>1, <1>2 DEF CallFits, RowsStand
<1>5. pc[d] = "ending" => writer'[d] = d
  BY <1>1, <1>3 DEF CallFits, RowsStand
<1> QED
  BY <1>1, <1>4, <1>5 DEF CallFits

\* A statement that reads moves its call, and nothing else.
LEMMA ReadKeeps ==
  ASSUME NEW c \in Calls, IndInv, Moves(c), UNCHANGED <<storage, sent>>,
         pc' \in [Calls -> Steps], mine' \in [Calls -> Asked],
         pc[c] # "waiting", pc'[c] # "waiting",
         \/ pc[c] \notin Writing /\ pc'[c] \notin Writing
         \/ pc[c] \in Taking /\ pc'[c] \in Taking /\ mine'[c].page = mine[c].page,
         CallFits(c)', c \in SignIns => FormFits(c)'
  PROVE  IndInv'
<1>1. TypeOK'
  BY DEF IndInv, TypeOK, storage, Steps, RowFits
<1>2. \A d \in Calls : CallFits(d)'
  BY OthersFit DEF RowsStand, storage
<1>3. ASSUME NEW p \in Begins PROVE PageFits(p)'
  BY CallsAreSome DEF IndInv, Lines, PageFits, storage, TypeOK, Moves, Writing, Taking
<1>4. ASSUME NEW s \in AllSessions PROVE SessionFits(s)'
  BY CallsAreSome DEF IndInv, Lines, SessionFits, storage, TypeOK, Moves, Writing, Taking
<1>5. ASSUME NEW d \in SignIns PROVE FormFits(d)'
  BY CallsAreSome DEF IndInv, Lines, FormFits, storage, Moves
<1>6. Lines'
  BY <1>2, <1>3, <1>4, <1>5 DEF IndInv, Lines, storage
<1>7. AnsweredIsGone'
  BY CallsAreSome DEF IndInv, AnsweredIsGone, IsGone, storage, Moves
<1> QED
  BY <1>1, <1>6, <1>7 DEF IndInv, AnsweredOnce

\* A unit of work that is dropped leaves what was there before it.
LEMMA DropKeeps ==
  ASSUME NEW c \in Calls, IndInv, NEW to \in {"refused", "expired", "failed"}, Drops(c, to),
         pc[c] # "waiting", c \in Begins => to # "expired",
         c \in SignIns /\ to = "expired" /\ com[c] # None => ~com[c].active
  PROVE  IndInv'
<1>t. TypeOK
  BY DEF IndInv
<1>1. /\ pc' = [pc EXCEPT ![c] = to] /\ mine' = [mine EXCEPT ![c] = Nothing]
      /\ com' = com /\ cur' = [x \in Rows |-> IF writer[x] = c THEN com[x] ELSE cur[x]]
      /\ writer' = [x \in Rows |-> IF writer[x] = c THEN None ELSE writer[x]]
      /\ sent' = sent
  BY DEF Drops, Goto, Rollback, Released
<1>2. Nothing \in Asked
  BY DEF Nothing, Asked, AskedScopes
<1>3. Moves(c) /\ RowsStand(c)
  BY <1>1, <1>t, CallsAreSome DEF Moves, RowsStand, TypeOK
<1>4. TypeOK'
  BY <1>1, <1>2, <1>t DEF TypeOK, BeginSteps, SignInSteps, AnswerSteps, RowFits
<1>5. CallFits(c)'
  BY <1>1, <1>t DEF CallFits, TypeOK, Taking, BeginSteps, SignInSteps, AnswerSteps
<1>6. \A d \in Calls : CallFits(d)'
  BY <1>3, <1>5, OthersFit
<1>7. ASSUME NEW p \in Begins PROVE PageFits(p)'
  BY <1>1, <1>3, CallsAreSome DEF IndInv, Lines, PageFits, TypeOK, Moves
<1>8. ASSUME NEW s \in AllSessions PROVE SessionFits(s)'
  BY <1>1, <1>3, CallsAreSome DEF IndInv, Lines, SessionFits, TypeOK, Moves
<1>9. ASSUME NEW d \in SignIns PROVE FormFits(d)'
  BY <1>1, <1>3, <1>t, CallsAreSome DEF IndInv, Lines, FormFits, Moves, Unopened, TypeOK
<1>10. Lines'
  BY <1>1, <1>6, <1>7, <1>8, <1>9, CallsAreSome DEF IndInv, Lines
<1>11. AnsweredIsGone'
  BY <1>1, <1>3, CallsAreSome DEF IndInv, AnsweredIsGone, IsGone, Moves
<1> QED
  BY <1>1, <1>4, <1>10, <1>11 DEF IndInv, AnsweredOnce

\* A COMMIT publishes what its call wrote: the request it took is gone, and
\* its client is answered.
LEMMA CommitKeeps ==
  ASSUME NEW c \in Calls, IndInv, Commit(c),
         NEW to \in {"told", "asked", "consent", "done", "expired"}, pc' = [pc EXCEPT ![c] = to],
         mine' = mine, pc[c] # "waiting",
         CallFits(c)', c \in SignIns => FormFits(c)',
         \/ sent' = sent
         \/ \E a : /\ sent' = sent \cup {a}
                   /\ a.page = None \/ (pc[c] \in Taking /\ a.page = mine[c].page)
  PROVE  IndInv'
<1>t. TypeOK
  BY DEF IndInv
<1>1. /\ com' = [x \in Rows |-> IF writer[x] = c THEN cur[x] ELSE com[x]] /\ cur' = cur
      /\ writer' = [x \in Rows |-> IF writer[x] = c THEN None ELSE writer[x]]
  BY DEF Commit, Released
<1>3. Moves(c) /\ RowsStand(c)
  BY <1>1, <1>t, CallsAreSome DEF Moves, RowsStand, TypeOK
<1>4. TypeOK'
  <2>1. \A x \in Rows : RowFits(x, com'[x]) /\ RowFits(x, cur'[x])
    BY <1>1, <1>t DEF TypeOK
  <2>2. \A x \in Rows : RowFits(x, com[x])' /\ RowFits(x, cur[x])'
    BY <2>1 DEF RowFits
  <2>3. pc' \in [Calls -> BeginSteps \cup SignInSteps \cup AnswerSteps]
    BY <1>t DEF TypeOK, BeginSteps, SignInSteps
  <2> QED
    BY <1>1, <1>t, <2>2, <2>3 DEF TypeOK
<1>6. \A d \in Calls : CallFits(d)'
  BY <1>3, OthersFit
<1>7. ASSUME NEW p \in Begins PROVE PageFits(p)'
  <2>1. PageFits(p) /\ p \in Rows /\ p \in Calls
    BY CallsAreSome DEF IndInv, Lines
  <2>2. pc[p] # "waiting" => pc'[p] # "waiting"
    BY <2>1, <1>3, <1>t DEF Moves, TypeOK
  <2>3. pc[p] = "waiting" => pc'[p] = "waiting"
    BY <2>1, <1>3, <1>t DEF Moves, TypeOK
  <2>4. writer'[p] # None => writer'[p] = writer[p] /\ writer[p] \in Calls \ {c}
    BY <2>1, <1>1, <1>t DEF TypeOK
  <2>5. pc'[p] # "waiting" => com'[p] = None /\ writer'[p] = None
    BY <2>1, <2>3, <1>1, CallsAreSome DEF PageFits
  <2> QED
    BY <2>1, <2>4, <2>5, <1>1, <1>3 DEF PageFits, Moves
<1>8. ASSUME NEW s \in AllSessions PROVE SessionFits(s)'
  BY <1>1, <1>3, <1>t, CallsAreSome DEF IndInv, Lines, SessionFits, TypeOK, Moves
<1>9. ASSUME NEW d \in SignIns PROVE FormFits(d)'
  <2>1. CASE d = c
    BY <2>1
  <2>2. CASE d # c
    <3>1. com'[d] = com[d]
      BY <2>2, <1>1, CallsAreSome DEF IndInv, Lines, SessionFits
    <3> QED
      BY <2>2, <3>1, <1>3, CallsAreSome DEF IndInv, Lines, FormFits, Moves
  <2> QED
    BY <2>1, <2>2
<1>10. Lines'
  BY <1>1, <1>6, <1>7, <1>8, <1>9, CallsAreSome DEF IndInv, Lines
<1>11. ASSUME NEW a \in sent PROVE a.page # None => IsGone(a.page)'
  <2>1. a.page # None => IsGone(a.page)
    BY DEF IndInv, AnsweredIsGone
  <2> QED
    BY <2>1, <1>1, <1>3, CallsAreSome DEF Moves, IsGone
<1>12. ASSUME pc[c] \in Taking
       PROVE  LET p == mine[c].page IN
              /\ p \in Begins /\ pc'[p] = "waiting" /\ com'[p] = None /\ writer'[p] = None
              /\ \A a \in sent : a.page # p
  <2>1. mine[c].page \in Begins /\ writer[mine[c].page] = c
    BY <1>12, CallsAreSome DEF IndInv, Lines, CallFits, Taking, Calls, BeginSteps
  <2>2. cur[mine[c].page] = None /\ pc[mine[c].page] = "waiting"
    BY <1>12, <2>1, CallsAreSome DEF IndInv, Lines, PageFits, Taking
  <2>3. \A a \in sent : a.page # mine[c].page
    BY <2>1, CallsAreSome DEF IndInv, AnsweredIsGone, IsGone
  <2> QED
    BY <2>1, <2>2, <2>3, <1>1, <1>3, CallsAreSome DEF Moves
<1>13. AnsweredIsGone' /\ AnsweredOnce'
  <2>1. CASE sent' = sent
    BY <2>1, <1>11 DEF IndInv, AnsweredIsGone, IsGone, AnsweredOnce
  <2>2. CASE sent' # sent
    <3>1. PICK a : /\ sent' = sent \cup {a}
                   /\ a.page = None \/ (pc[c] \in Taking /\ a.page = mine[c].page)
      BY <2>2
    <3>2. AnsweredIsGone'
      BY <3>1, <1>11, <1>12 DEF AnsweredIsGone, IsGone
    <3>3. AnsweredOnce'
      BY <3>1, <1>12 DEF IndInv, AnsweredOnce
    <3> QED
      BY <3>2, <3>3
  <2> QED
    BY <2>1, <2>2
<1> QED
  BY <1>4, <1>10, <1>13 DEF IndInv

\* A call that takes no part in a step keeps its rows as it wrote them.
LEMMA WriteIsAlone ==
  ASSUME NEW c \in Calls, NEW x \in Rows, NEW v, IndInv, WriteRow(c, x, v)
  PROVE  /\ RowsStand(c) /\ com' = com
         /\ cur' = [cur EXCEPT ![x] = v] /\ writer' = [writer EXCEPT ![x] = c]
         /\ writer[x] \in {c, None}
<1>1. DOMAIN cur = Rows /\ writer \in [Rows -> Calls \cup {None}]
  BY DEF IndInv, TypeOK
<1> QED
  BY <1>1, CallsAreSome DEF WriteRow, MayWrite, RowsStand

\* A statement that writes a row keeps the lines of the others.
LEMMA WriteKeeps ==
  ASSUME NEW c \in Calls, IndInv, NEW x \in Rows, NEW v, WriteRow(c, x, v), Moves(c),
         pc' \in [Calls -> Steps], mine' \in [Calls -> Asked], sent' = sent,
         pc[c] # "waiting", pc'[c] # "waiting", x # "client",
         \/ pc[c] \notin Writing
         \/ pc[c] \in Taking /\ pc'[c] \in Taking /\ mine'[c].page = mine[c].page,
         RowFits(x, v), CallFits(c)', c \in SignIns => FormFits(c)',
         x \in Begins => PageFits(x)' /\ pc[x] = "waiting" /\ com[x] # None /\ pc[c] \notin Writing,
         x \in AllSessions => SessionFits(x)'
  PROVE  IndInv'
<1>t. TypeOK
  BY DEF IndInv
<1>1. /\ com' = com /\ cur' = [cur EXCEPT ![x] = v] /\ writer' = [writer EXCEPT ![x] = c]
      /\ RowsStand(c)
  BY WriteIsAlone
<1>2. TypeOK'
  <2>1. \A y \in Rows : RowFits(y, com'[y]) /\ RowFits(y, cur'[y])
    BY <1>1, <1>t DEF TypeOK
  <2>2. \A y \in Rows : RowFits(y, com[y])' /\ RowFits(y, cur[y])'
    BY <2>1 DEF RowFits
  <2> QED
    BY <1>1, <1>t, <2>2 DEF TypeOK, Steps
<1>3. \A d \in Calls : CallFits(d)'
  BY <1>1, OthersFit
<1>4. ASSUME NEW p \in Begins PROVE PageFits(p)'
  <2>1. CASE p = x
    BY <2>1
  <2>2. CASE p # x
    <3>1. /\ PageFits(p) /\ p \in Rows /\ p \in Calls
          /\ com'[p] = com[p] /\ cur'[p] = cur[p] /\ writer'[p] = writer[p]
      BY <2>2, <1>1, <1>t, CallsAreSome DEF IndInv, Lines, TypeOK
    <3>2. (pc[p] = "waiting") <=> (pc'[p] = "waiting")
      BY <3>1 DEF Moves
    <3>3. writer[p] # None => writer[p] \in Calls
      BY <3>1, <1>t DEF TypeOK
    <3>4. writer[p] = c => pc[c] \in Writing
      BY <3>1, CallsAreSome DEF PageFits, Writing
    <3> QED
      BY <3>1, <3>2, <3>3, <3>4 DEF PageFits, Moves, Taking
  <2> QED
    BY <2>1, <2>2
<1>5. ASSUME NEW s \in AllSessions PROVE SessionFits(s)'
  <2>1. CASE s = x
    BY <2>1
  <2>2. CASE s # x
    <3>1. SessionFits(s) /\ cur'[s] = cur[s] /\ writer'[s] = writer[s]
      BY <2>2, <1>1, <1>t, CallsAreSome DEF IndInv, Lines, TypeOK
    <3>2. writer[s] # None => writer[s] \in Calls \ {c}
      BY <3>1, <1>t, CallsAreSome DEF SessionFits, TypeOK, Writing, Taking
    <3> QED
      BY <3>1, <3>2 DEF SessionFits, Moves
  <2> QED
    BY <2>1, <2>2
<1>6. ASSUME NEW d \in SignIns PROVE FormFits(d)'
  BY <1>1, CallsAreSome DEF IndInv, Lines, FormFits, Moves
<1>7. Lines'
  BY <1>1, <1>t, <1>3, <1>4, <1>5, <1>6, CallsAreSome DEF IndInv, Lines, TypeOK
<1>8. AnsweredIsGone'
  <2>1. ASSUME NEW p, IsGone(p) PROVE IsGone(p)'
    BY <2>1, <1>1, <1>t, CallsAreSome DEF IsGone, Moves, TypeOK
  <2> QED
    BY <2>1 DEF IndInv, AnsweredIsGone
<1> QED
  BY <1>2, <1>7, <1>8 DEF IndInv, AnsweredOnce

\* A row that is inserted is published with the rest of its unit of work.
LEMMA InsertKeeps ==
  ASSUME NEW c \in Calls, IndInv, c \in Begins \cup SignIns, NEW v, InsertAndCommit(c, c, v), Moves(c),
         pc' \in [Calls -> Steps], mine' \in [Calls -> Asked], sent' = sent,
         pc[c] # "waiting", pc[c] \notin Writing, pc'[c] \notin Writing,
         RowFits(c, v), CallFits(c)', c \in SignIns => FormFits(c)',
         c \in Begins => pc'[c] = "waiting"
  PROVE  IndInv'
<1>t. TypeOK
  BY DEF IndInv
<1>r. c \in Rows
  BY CallsAreSome
<1>0. \A x \in Rows : writer[x] = c => x \notin Begins /\ x \notin AllSessions /\ x # "client"
  BY CallsAreSome DEF IndInv, Lines, PageFits, SessionFits, Writing, Taking
<1>a. writer[c] = None
  BY CallsAreSome DEF IndInv, Lines, PageFits, SessionFits, Writing
<1>1. /\ com' = [x \in Rows |-> IF x = c THEN v ELSE IF writer[x] = c THEN cur[x] ELSE com[x]]
      /\ cur' = [cur EXCEPT ![c] = v]
      /\ writer' = [x \in Rows |-> IF writer[x] = c THEN None ELSE writer[x]]
  BY DEF InsertAndCommit, Released
<1>2. RowsStand(c)
  BY <1>1, <1>r, <1>t, <1>a, CallsAreSome DEF RowsStand, TypeOK
<1>3. TypeOK'
  <2>1. \A x \in Rows : RowFits(x, com'[x]) /\ RowFits(x, cur'[x])
    BY <1>1, <1>r, <1>t DEF TypeOK
  <2>2. \A x \in Rows : RowFits(x, com[x])' /\ RowFits(x, cur[x])'
    BY <2>1 DEF RowFits
  <2> QED
    BY <1>1, <1>r, <1>t, <2>2 DEF TypeOK, Steps
<1>4. \A d \in Calls : CallFits(d)'
  BY <1>2, OthersFit
<1>5. ASSUME NEW x \in Rows \ {c}, x \in Begins \/ x \in AllSessions \/ x = "client"
      PROVE  com'[x] = com[x] /\ cur'[x] = cur[x] /\ writer'[x] = writer[x]
  BY <1>5, <1>0, <1>1, <1>t DEF TypeOK
<1>6. ASSUME NEW p \in Begins PROVE PageFits(p)'
  <2>1. CASE p = c
    BY <2>1, <1>1, <1>r, <1>a, CallsAreSome DEF PageFits
  <2>2. CASE p # c
    BY <2>2, <1>0, <1>5, <1>t, CallsAreSome DEF IndInv, Lines, PageFits, Moves, TypeOK
  <2> QED
    BY <2>1, <2>2
<1>7. ASSUME NEW s \in AllSessions PROVE SessionFits(s)'
  <2>1. CASE s = c
    BY <2>1, <1>1, <1>r, <1>a, CallsAreSome DEF SessionFits
  <2>2. CASE s # c
    BY <2>2, <1>0, <1>5, <1>t, CallsAreSome DEF IndInv, Lines, SessionFits, Moves, TypeOK
  <2> QED
    BY <2>1, <2>2
<1>8. ASSUME NEW d \in SignIns PROVE FormFits(d)'
  BY <1>5, CallsAreSome DEF IndInv, Lines, FormFits, Moves
<1>9. ASSUME NEW x \in Rows, writer'[x] = None PROVE cur'[x] = com'[x]
  BY <1>1, <1>r, <1>t, <1>9, CallsAreSome DEF IndInv, Lines, TypeOK
<1>10. writer'["client"] = None
  BY <1>1, CallsAreSome DEF IndInv, Lines
<1>11. Lines'
  BY <1>4, <1>6, <1>7, <1>8, <1>9, <1>10 DEF Lines
<1>12. AnsweredIsGone'
  <2>1. ASSUME NEW p, IsGone(p) PROVE IsGone(p)'
    <3>1. p \in Rows /\ p \in Calls /\ p # c
      BY <2>1, CallsAreSome DEF IsGone
    <3> QED
      BY <2>1, <3>1, <1>5 DEF IsGone, Moves
  <2> QED
    BY <2>1 DEF IndInv, AnsweredIsGone
<1> QED
  BY <1>3, <1>11, <1>12 DEF IndInv, AnsweredOnce

-----------------------------------------------------------------------------
(* Every action keeps the invariant.                                       *)

\* What a call asked, as its next statement has it.
LEMMA ReadsKeeps ==
  ASSUME NEW c \in Calls, IndInv, NEW from, NEW to \in Steps, NEW ask \in Asked,
         Reads(c, from, to, ask), from # "waiting", to # "waiting",
         \/ from \notin Writing /\ to \notin Writing
         \/ from \in Taking /\ to \in Taking /\ ask.page = mine[c].page,
         CallFits(c)',
         c \in SignIns => to # "expired" /\ (to \in Unopened => from \in Unopened)
  PROVE  IndInv'
<1>1. /\ pc[c] = from /\ pc' = [pc EXCEPT ![c] = to] /\ mine' = [mine EXCEPT ![c] = ask]
      /\ UNCHANGED <<storage, sent>>
  BY DEF Reads, Goto
<1>2. pc \in [Calls -> Steps] /\ mine \in [Calls -> Asked]
  BY DEF IndInv, TypeOK, Steps
<1>3. Moves(c) /\ pc'[c] = to /\ mine'[c] = ask
  BY <1>1, <1>2 DEF Moves
<1>4. c \in SignIns => FormFits(c)'
  BY <1>1, <1>3 DEF IndInv, Lines, FormFits, storage
<1> QED
  BY <1>1, <1>2, <1>3, <1>4, ReadKeeps

\* A call that begins has nothing yet.
LEMMA StartsKeep ==
  ASSUME NEW c \in Calls, IndInv, NEW to \in Steps, NEW ask \in Asked,
         Starts(c, to, ask), UNCHANGED storage, to # "waiting", to \notin Writing, CallFits(c)'
  PROVE  IndInv'
<1>1. /\ pc[c] = "idle" /\ pc' = [pc EXCEPT ![c] = to] /\ sent' = sent
      /\ mine' = [mine EXCEPT ![c] = [ask EXCEPT !.required = Requires]]
  BY DEF Starts, Goto
<1>2. pc \in [Calls -> Steps] /\ mine \in [Calls -> Asked]
  BY DEF IndInv, TypeOK, Steps
<1>a. com["client"] # None => com["client"] \in ClientRow
  BY CallsAreSome DEF IndInv, TypeOK, RowFits
<1>b. Requires \in BOOLEAN
  BY <1>a DEF Requires, ClientRow
<1>c. [ask EXCEPT !.required = Requires] \in Asked
  BY <1>b DEF Asked
<1>3. Moves(c) /\ pc'[c] = to
  BY <1>1, <1>2 DEF Moves
<1>4. c \in SignIns => FormFits(c)'
  BY <1>1, <1>3 DEF IndInv, Lines, FormFits, storage, Unopened
<1> QED
  BY <1>1, <1>2, <1>3, <1>4, <1>c, ReadKeeps DEF Writing, Taking

\* trust_request
LEMMA BeginAuthorizationKeeps ==
  ASSUME NEW c \in Begins, IndInv, BeginAuthorization(c)
  PROVE  IndInv'
<1>1. PICK a \in Asks[c], ticket \in Tickets \cup {None} :
        Starts(c, IF Serves(com["client"]) THEN "find" ELSE "refused",
               [Nothing EXCEPT !.scopes = a.scopes, !.proof = a.proof, !.hint = a.hint,
                               !.ticket = ticket, !.read = com["client"]])
  BY DEF BeginAuthorization
<1> DEFINE to == IF Serves(com["client"]) THEN "find" ELSE "refused"
           ask == [Nothing EXCEPT !.scopes = a.scopes, !.proof = a.proof, !.hint = a.hint,
                                  !.ticket = ticket, !.read = com["client"]]
<1>2. a.scopes \in AskedScopes
  BY DEF AskedScopes
<1>3. a.proof \in Proof /\ a.hint \in People \cup {None}
  BY SignInAssumption DEF Proof
<1>4. ticket \in AllSessions \cup {None}
  BY DEF Tickets
<1>5. com["client"] \in ClientRow \cup {None}
  BY CallsAreSome DEF IndInv, TypeOK, RowFits
<1>6. ask \in Asked
  BY <1>2, <1>3, <1>4, <1>5 DEF Asked, Nothing, AskedScopes
<1>7. to \in Steps /\ to \in BeginSteps /\ to # "waiting" /\ to \notin Writing
      /\ to \notin {"prove", "mark", "allow", "add", "give", "ending"} \cup Taking
  BY DEF Steps, BeginSteps, Writing, Taking
<1>8. pc' = [pc EXCEPT ![c] = to] /\ c \in Calls /\ DOMAIN pc = Calls
  BY <1>1, CallsAreSome DEF Starts, Goto, IndInv, TypeOK
<1>9. CallFits(c)'
  BY <1>7, <1>8, TablesAreApart DEF CallFits
<1> HIDE DEF to, ask
<1> QED
  BY <1>1, <1>6, <1>7, <1>8, <1>9, StartsKeep DEF BeginAuthorization, to, ask

\* find_answering_session
LEMMA FindSessionKeeps ==
  ASSUME NEW c \in Begins, IndInv, FindSession(c)
  PROVE  IndInv'
<1> DEFINE answering == IF SessionAnswers(c) THEN mine[c].ticket ELSE None
           to == IF answering # None THEN "judge"
                 ELSE IF mine[c].proof.silent THEN "told" ELSE "keep"
           ask == [mine[c] EXCEPT !.ticket = answering]
<1>1. c \in Calls /\ DOMAIN pc = Calls /\ mine[c] \in Asked
  BY CallsAreSome DEF IndInv, TypeOK
<1>2. Reads(c, "find", to, ask) /\ pc' = [pc EXCEPT ![c] = to]
  BY DEF FindSession, Reads, Goto
<1>3. ask \in Asked
  BY <1>1 DEF Asked
<1>4. to \in Steps /\ to \in BeginSteps /\ to # "waiting" /\ to \notin Writing
      /\ to \notin {"prove", "mark", "allow", "add", "give", "ending"} \cup Taking
  BY DEF Steps, BeginSteps, Writing, Taking
<1> HIDE DEF to, ask
<1>5. CallFits(c)'
  BY <1>1, <1>2, <1>4, TablesAreApart DEF CallFits
<1> QED
  BY <1>1, <1>2, <1>3, <1>4, <1>5, ReadsKeeps, TablesAreApart DEF Writing, Taking

\* is_consent_owed_by
LEMMA JudgeConsentKeeps ==
  ASSUME NEW c \in Begins, IndInv, JudgeConsent(c)
  PROVE  IndInv'
<1>1. c \in Calls /\ DOMAIN pc = Calls /\ mine[c] \in Asked
  BY CallsAreSome DEF IndInv, TypeOK
<1>2. PICK to \in {"grant", "told", "keep"} : Reads(c, "judge", to, mine[c])
  BY DEF JudgeConsent
<1>3. pc' = [pc EXCEPT ![c] = to]
  BY <1>2 DEF Reads, Goto
<1>4. CallFits(c)'
  BY <1>1, <1>3, TablesAreApart DEF CallFits, BeginSteps, Taking
<1> QED
  BY <1>1, <1>2, <1>4, ReadsKeeps, TablesAreApart DEF Writing, Taking, Steps, BeginSteps

\* leave_request_waiting
LEMMA KeepPendingKeeps ==
  ASSUME NEW c \in Begins, IndInv, KeepPendingAuthorization(c)
  PROVE  IndInv'
<1> DEFINE v == [scopes |-> mine[c].scopes, proof |-> mine[c].proof, hint |-> mine[c].hint,
                 first |-> None, key |-> None, waitsIn |-> mine[c].ticket]
<1>1. c \in Calls /\ pc \in [Calls -> Steps] /\ mine \in [Calls -> Asked] /\ mine[c] \in Asked
  BY CallsAreSome DEF IndInv, TypeOK, Steps
<1>2. /\ pc[c] = "keep" /\ InsertAndCommit(c, c, v) /\ pc' = [pc EXCEPT ![c] = "waiting"]
      /\ mine' = mine /\ sent' = sent
  BY DEF KeepPendingAuthorization, Goto
<1>3. v \in RequestRow
  BY <1>1 DEF RequestRow, Asked
<1> HIDE DEF v
<1>4. RowFits(c, v)
  BY <1>3, TablesAreApart DEF RowFits
<1>5. Moves(c) /\ pc' \in [Calls -> Steps] /\ pc'[c] = "waiting"
  BY <1>1, <1>2 DEF Moves, Steps, BeginSteps
<1>6. CallFits(c)'
  BY <1>5, TablesAreApart DEF CallFits, BeginSteps, Taking
<1> QED
  BY <1>1, <1>2, <1>4, <1>5, <1>6, InsertKeeps, TablesAreApart DEF Writing, Taking

\* admit_pending_sign_in
LEMMA RefusePendingKeeps ==
  ASSUME NEW c \in Begins, IndInv, RefusePending(c)
  PROVE  IndInv'
  BY DropKeeps, CallsAreSome, TablesAreApart DEF RefusePending

\* One answer is sent, for the page it names.
LEMMA SendsOne ==
  ASSUME NEW c, NEW page, NEW kind, NEW session, NEW asked, Sends(c, page, kind, session, asked)
  PROVE  \E a : sent' = sent \cup {a} /\ a.page = page
<1> DEFINE a == [by |-> c, page |-> page, kind |-> kind, session |-> session,
                 person |-> IF session = None THEN None ELSE Sees(c, session).person,
                 scopes |-> asked.scopes, hint |-> asked.hint, proof |-> asked.proof,
                 required |-> mine[c].required]
<1>1. sent' = sent \cup {a} /\ a.page = page
  BY DEF Sends
<1> QED
  BY <1>1

\* The session of the browser answers: no page is.
LEMMA IssueFromSessionKeeps ==
  ASSUME NEW c \in Begins, IndInv, IssueFromSession(c)
  PROVE  IndInv'
<1>1. c \in Calls /\ DOMAIN pc = Calls
  BY CallsAreSome DEF IndInv, TypeOK
<1>2. /\ pc[c] = "grant" /\ Commit(c) /\ pc' = [pc EXCEPT ![c] = "told"] /\ mine' = mine
      /\ \E a : sent' = sent \cup {a} /\ a.page = None
  BY SendsOne DEF IssueFromSession, Goto
<1>3. CallFits(c)'
  BY <1>1, <1>2, TablesAreApart DEF CallFits, BeginSteps, Taking
<1> QED
  BY <1>1, <1>2, <1>3, CommitKeeps, TablesAreApart

\* A call at no step that writes sees what is committed.
LEMMA SeesCommitted ==
  ASSUME NEW c \in Calls, IndInv, pc[c] \notin Writing
  PROVE  /\ \A p \in Begins : writer[p] # c /\ Sees(c, p) = com[p]
         /\ \A s \in AllSessions : writer[s] # c /\ Sees(c, s) = com[s]
<1>1. ASSUME NEW p \in Begins PROVE writer[p] # c
  BY CallsAreSome DEF IndInv, Lines, PageFits, Writing
<1>2. ASSUME NEW s \in AllSessions PROVE writer[s] # c
  BY CallsAreSome DEF IndInv, Lines, SessionFits, Writing
<1> QED
  BY <1>1, <1>2 DEF Sees

\* The rows of a table are what the table holds.
LEMMA RowsFit ==
  ASSUME IndInv
  PROVE  /\ \A p \in Begins : /\ com[p] \in RequestRow \cup {None}
                              /\ cur[p] \in RequestRow \cup {None}
         /\ \A s \in AllSessions : /\ com[s] \in SessionRow \cup {None}
                                   /\ cur[s] \in SessionRow \cup {None}
  BY CallsAreSome DEF IndInv, TypeOK, RowFits

\* The request of a form is read.
LEMMA ReadPendingKeeps ==
  ASSUME NEW c \in SignIns, IndInv, ReadPending(c)
  PROVE  IndInv'
<1>1. c \in Calls /\ pc \in [Calls -> Steps] /\ mine \in [Calls -> Asked] /\ pc[c] = "idle"
  BY CallsAreSome DEF IndInv, TypeOK, Steps, ReadPending
<1>2. PICK page \in Begins, same \in BOOLEAN, way \in {"password", "code", "key"} :
        IF same /\ IsWaiting(c, page)
        THEN Starts(c, "prove", [Nothing EXCEPT !.page = page, !.way = way, !.read = com[page]])
        ELSE Starts(c, "expired", Nothing)
  BY DEF ReadPending
<1>3. CASE same /\ IsWaiting(c, page)
  <2> DEFINE ask == [Nothing EXCEPT !.page = page, !.way = way, !.read = com[page]]
  <2>1. com[page] \in RequestRow
    BY <1>1, <1>3, SeesCommitted, RowsFit DEF IsWaiting, Writing, Taking
  <2>2. ask \in Asked /\ ask.page = page /\ ask.read = com[page]
    BY <2>1 DEF Asked, Nothing, AskedScopes
  <2>3. Starts(c, "prove", ask)
    BY <1>2, <1>3
  <2> HIDE DEF ask
  <2>4. pc'[c] = "prove" /\ mine'[c].page = page /\ mine'[c].read = com[page]
    BY <1>1, <2>2, <2>3 DEF Starts, Goto, Asked
  <2>5. CallFits(c)'
    BY <2>1, <2>4, TablesAreApart DEF CallFits, SignInSteps, Taking
  <2> QED
    BY <1>1, <2>2, <2>3, <2>5, StartsKeep DEF ReadPending, Steps, SignInSteps, Writing, Taking
<1>4. CASE ~(same /\ IsWaiting(c, page))
  <2>1. Starts(c, "expired", Nothing)
    BY <1>2, <1>4
  <2>2. Nothing \in Asked
    BY DEF Nothing, Asked, AskedScopes
  <2>3. pc'[c] = "expired"
    BY <1>1, <2>1 DEF Starts, Goto
  <2>4. CallFits(c)'
    BY <2>3, TablesAreApart DEF CallFits, SignInSteps, Taking
  <2> QED
    BY <1>1, <2>1, <2>2, <2>4, StartsKeep DEF ReadPending, Steps, SignInSteps, Writing, Taking
<1> QED
  BY <1>3, <1>4

\* A form at one of its steps has a page.
LEMMA FormHasPage ==
  ASSUME NEW c \in SignIns, IndInv, pc[c] \notin {"idle", "refused", "expired", "failed"}
  PROVE  /\ mine[c].page \in Begins /\ mine[c].page \in Rows /\ c \in Calls
         /\ mine[c] \in Asked /\ pc \in [Calls -> Steps] /\ mine \in [Calls -> Asked]
  BY CallsAreSome DEF IndInv, Lines, CallFits, TypeOK, Steps

\* open_session
LEMMA OpensKeeps ==
  ASSUME NEW c \in SignIns, IndInv, NEW p \in People, pc[c] = "prove", Opens(c, p), sent' = sent
  PROVE  IndInv'
<1> DEFINE v == [person |-> p, active |-> TRUE, page |-> mine[c].page]
<1>1. /\ mine[c].page \in Begins /\ c \in Calls /\ mine[c] \in Asked
      /\ pc \in [Calls -> Steps] /\ mine \in [Calls -> Asked]
  BY FormHasPage
<1>2. /\ InsertAndCommit(c, c, v) /\ pc' = [pc EXCEPT ![c] = "terms"]
      /\ mine' = [mine EXCEPT ![c].person = p]
  BY DEF Opens, Goto
<1>3. v \in SessionRow
  BY <1>1 DEF SessionRow
<1> HIDE DEF v
<1>4. RowFits(c, v)
  BY <1>3, TablesAreApart, CallsAreSome DEF RowFits
<1>5. [mine[c] EXCEPT !.person = p] \in Asked
  BY <1>1 DEF Asked
<1>6. mine' \in [Calls -> Asked] /\ mine'[c] = [mine[c] EXCEPT !.person = p]
  BY <1>1, <1>2, <1>5
<1>7. Moves(c) /\ pc' \in [Calls -> Steps] /\ pc'[c] = "terms" /\ mine'[c].page = mine[c].page
  BY <1>1, <1>2, <1>6 DEF Moves, Steps, SignInSteps, Asked
<1>8. CallFits(c)'
  BY <1>1, <1>7, TablesAreApart DEF CallFits, SignInSteps, Taking
<1>9. FormFits(c)'
  BY <1>7 DEF FormFits, Unopened
<1> QED
  BY <1>1, <1>2, <1>4, <1>6, <1>7, <1>8, <1>9, InsertKeeps, TablesAreApart DEF Writing, Taking

\* sign_in_with_password
LEMMA ProvePasswordKeeps ==
  ASSUME NEW c \in SignIns, IndInv, ProvePassword(c)
  PROVE  IndInv'
<1>1. PICK p \in People :
        /\ pc[c] = "prove" /\ sent' = sent
        /\ \/ Opens(c, p)
           \/ Goto(c, "mark") /\ mine' = [mine EXCEPT ![c].person = p] /\ UNCHANGED storage
  BY DEF ProvePassword
<1>2. CASE Opens(c, p)
  BY <1>1, <1>2, OpensKeeps
<1>3. CASE Goto(c, "mark") /\ mine' = [mine EXCEPT ![c].person = p] /\ UNCHANGED storage
  <2>1. /\ mine[c].page \in Begins /\ c \in Calls /\ mine[c] \in Asked
        /\ pc \in [Calls -> Steps] /\ mine \in [Calls -> Asked]
    BY <1>1, FormHasPage
  <2>2. [mine[c] EXCEPT !.person = p] \in Asked
    BY <2>1 DEF Asked
  <2>3. mine' \in [Calls -> Asked] /\ mine'[c] = [mine[c] EXCEPT !.person = p]
    BY <1>3, <2>1, <2>2
  <2>4. /\ Moves(c) /\ pc' \in [Calls -> Steps] /\ pc'[c] = "mark"
        /\ mine'[c].page = mine[c].page /\ mine'[c].person = p
    BY <1>3, <2>1, <2>3 DEF Moves, Goto, Steps, SignInSteps, Asked
  <2>5. CallFits(c)'
    BY <2>1, <2>4, TablesAreApart DEF CallFits, SignInSteps, Taking
  <2>6. FormFits(c)'
    BY <1>1, <1>3, <2>4 DEF IndInv, Lines, FormFits, Unopened, storage
  <2> QED
    BY <1>1, <1>3, <2>1, <2>3, <2>4, <2>5, <2>6, ReadKeeps DEF Writing, Taking
<1> QED
  BY <1>1, <1>2, <1>3

\* finish_sign_in_with_code and finish_sign_in_with_key
LEMMA ProveFactorKeeps ==
  ASSUME NEW c \in SignIns, IndInv, ProveFactor(c)
  PROVE  IndInv'
<1>1. pc[c] = "prove" /\ mine[c].read.first # None /\ Opens(c, mine[c].read.first) /\ sent' = sent
  BY DEF ProveFactor
<1>2. mine[c].read \in RequestRow
  BY <1>1, CallsAreSome DEF IndInv, Lines, CallFits
<1>3. mine[c].read.first \in People
  BY <1>1, <1>2 DEF RequestRow
<1> QED
  BY <1>1, <1>3, OpensKeeps

\* A proof that fails opened no session.
LEMMA RefuseProofKeeps ==
  ASSUME NEW c \in SignIns, IndInv, RefuseProof(c)
  PROVE  IndInv'
<1>1. com[c] = None
  BY DEF RefuseProof, IndInv, Lines, FormFits, Unopened
<1> QED
  BY <1>1, DropKeeps, CallsAreSome, TablesAreApart DEF RefuseProof

\* The request a call may write, and that waits, is as committed.
LEMMA WaitingRow ==
  ASSUME NEW c \in Calls, IndInv, NEW page \in Begins, pc[c] \notin Writing,
         MayWrite(c, page), IsWaiting(c, page)
  PROVE  /\ cur[page] = com[page] /\ com[page] \in RequestRow /\ com[page] # None
         /\ pc[page] = "waiting"
<1>1. writer[page] # c /\ com[page] # None
  BY SeesCommitted DEF IsWaiting
<1>2. writer[page] = None
  BY <1>1 DEF MayWrite
<1>3. com[page] \in RequestRow /\ cur[page] = com[page] /\ pc[page] = "waiting"
  BY <1>1, <1>2, RowsFit, CallsAreSome DEF IndInv, Lines, PageFits
<1> QED
  BY <1>1, <1>3

\* A statement that writes the row of a request, or takes it.
LEMMA PageWriteKeeps ==
  ASSUME NEW c \in Calls, IndInv, NEW from, NEW to, NEW page \in Begins, NEW v,
         Writes(c, from, to, page, v), IsWaiting(c, page),
         from \notin Writing, from # "waiting",
         \/ v \in RequestRow /\ to \in {"marked", "owing"}
         \/ v = None /\ to \in Taking,
         mine' \in [Calls -> Asked], Moves(c), mine'[c].page = page,
         CallFits(c)',
         c \in SignIns => (to = "marked" => from \in Unopened)
  PROVE  IndInv'
<1>1. /\ pc[c] = from /\ WriteRow(c, page, v) /\ MayWrite(c, page)
      /\ pc' = [pc EXCEPT ![c] = to] /\ sent' = sent
  BY DEF Writes, WriteRow, Goto
<1>2. pc \in [Calls -> Steps] /\ page \in Rows /\ page # "client"
  BY CallsAreSome, TablesAreApart DEF IndInv, TypeOK, Steps
<1>3. cur[page] = com[page] /\ com[page] # None /\ pc[page] = "waiting"
  BY <1>1, WaitingRow
<1>4. /\ com' = com /\ cur' = [cur EXCEPT ![page] = v] /\ writer' = [writer EXCEPT ![page] = c]
  BY <1>1, <1>2, WriteIsAlone
<1>5. DOMAIN cur = Rows /\ DOMAIN writer = Rows
  BY DEF IndInv, TypeOK
<1>6. to \in Steps /\ to # "waiting" /\ to \in Writing /\ to # "expired"
  BY DEF Steps, SignInSteps, AnswerSteps, Taking, Writing
<1>7. pc' \in [Calls -> Steps] /\ pc'[c] = to /\ pc'[page] = "waiting"
  BY <1>1, <1>2, <1>3, <1>6, CallsAreSome DEF Moves
<1>8. PageFits(page)'
  <2>1. writer'[page] = c /\ cur'[page] = v
    BY <1>2, <1>4, <1>5
  <2> QED
    BY <2>1, <1>7, RowsAssumption DEF PageFits
<1>9. c \in SignIns => FormFits(c)'
  BY <1>1, <1>4, <1>6, <1>7 DEF IndInv, Lines, FormFits, Unopened, Taking
<1>10. RowFits(page, v)
  BY TablesAreApart DEF RowFits
<1> QED
  BY <1>1, <1>2, <1>3, <1>6, <1>7, <1>8, <1>9, <1>10, WriteKeeps, TablesAreApart

\* mark_first_factor
LEMMA MarkFirstFactorKeeps ==
  ASSUME NEW c \in SignIns, IndInv, MarkFirstFactor(c)
  PROVE  IndInv'
<1> DEFINE page == mine[c].page
           p == mine[c].person
           v == [cur[page] EXCEPT !.first = p, !.key = IF "key" \in Holds[p] THEN p ELSE None]
<1>1. pc[c] = "mark"
  BY DEF MarkFirstFactor
<1>2. /\ page \in Begins /\ c \in Calls /\ pc \in [Calls -> Steps] /\ mine \in [Calls -> Asked]
  BY <1>1, FormHasPage
<1>3. p \in People
  BY <1>1, CallsAreSome DEF IndInv, Lines, CallFits
<1>4. CASE IsWaiting(c, page) /\ Writes(c, "mark", "marked", page, v) /\ mine' = mine
  <2>1. MayWrite(c, page)
    BY <1>4 DEF Writes, WriteRow
  <2>2. cur[page] \in RequestRow
    BY <1>1, <1>2, <1>4, <2>1, WaitingRow DEF Writing, Taking
  <2>3. v \in RequestRow
    BY <2>2, <1>3 DEF RequestRow
  <2>4. Moves(c) /\ pc'[c] = "marked"
    BY <1>2, <1>4 DEF Writes, Goto, Moves
  <2>5. CallFits(c)'
    BY <1>2, <1>4, <2>4, TablesAreApart DEF CallFits, SignInSteps, Taking
  <2> HIDE DEF v
  <2> QED
    BY <1>2, <1>4, <2>3, <2>4, <2>5, PageWriteKeeps DEF Writing, Taking, Unopened
<1>5. CASE Drops(c, "expired")
  <2>1. com[c] = None
    BY <1>1 DEF IndInv, Lines, FormFits, Unopened
  <2> QED
    BY <1>1, <1>2, <1>5, <2>1, DropKeeps, TablesAreApart
<1> QED
  BY <1>4, <1>5 DEF MarkFirstFactor

\* The commit of a form that goes on, or has ended its session.
LEMMA FormCommitKeeps ==
  ASSUME NEW c \in SignIns, IndInv, NEW from, NEW to \in {"asked", "consent", "done"},
         pc[c] = from, from \notin {"idle", "refused", "expired", "failed", "waiting", "ending"},
         to = "asked" => from = "marked",
         Commit(c), pc' = [pc EXCEPT ![c] = to], mine' = mine,
         \/ sent' = sent
         \/ \E a : /\ sent' = sent \cup {a}
                   /\ a.page = None \/ (pc[c] \in Taking /\ a.page = mine[c].page)
  PROVE  IndInv'
<1>1. /\ mine[c].page \in Begins /\ c \in Calls /\ c \in Rows /\ pc \in [Calls -> Steps]
  BY FormHasPage, CallsAreSome
<1>2. pc'[c] = to
  BY <1>1
<1>3. CallFits(c)'
  BY <1>1, <1>2, TablesAreApart DEF CallFits, SignInSteps, Taking
<1>4. com'[c] = com[c]
  BY <1>1, CallsAreSome DEF Commit, IndInv, Lines, SessionFits
<1>5. FormFits(c)'
  BY <1>2, <1>4 DEF IndInv, Lines, FormFits, Unopened
<1> QED
  BY <1>1, <1>3, <1>5, CommitKeeps

\* The commit of a first factor.
LEMMA CommitMarkKeeps ==
  ASSUME NEW c \in SignIns, IndInv, CommitMark(c)
  PROVE  IndInv'
  BY FormCommitKeeps DEF CommitMark, Commits, Goto

\* The commit of a consent that is owed.
LEMMA CommitOwedKeeps ==
  ASSUME NEW c \in SignIns, IndInv, CommitOwed(c)
  PROVE  IndInv'
  BY FormCommitKeeps DEF CommitOwed, Commits, Goto

\* The code of a form, for the request it took.
LEMMA IssueCodeKeeps ==
  ASSUME NEW c \in SignIns, IndInv, IssueCode(c)
  PROVE  IndInv'
<1>1. /\ pc[c] = "issue" /\ Commit(c) /\ pc' = [pc EXCEPT ![c] = "done"] /\ mine' = mine
      /\ \E a : sent' = sent \cup {a} /\ a.page = mine[c].page
  BY SendsOne DEF IssueCode, Goto
<1> QED
  BY <1>1, FormCommitKeeps DEF Taking

\* is_consent_owed_after_sign_in
LEMMA ReadTermsKeeps ==
  ASSUME NEW c \in SignIns, IndInv, ReadTerms(c)
  PROVE  IndInv'
<1>1. PICK to \in {"owe", "take"} : Reads(c, "terms", to, mine[c])
  BY DEF ReadTerms
<1>2. /\ mine[c].page \in Begins /\ c \in Calls /\ mine[c] \in Asked
      /\ pc \in [Calls -> Steps] /\ mine \in [Calls -> Asked]
  BY <1>1, FormHasPage DEF Reads
<1>3. pc'[c] = to /\ mine'[c] = mine[c]
  BY <1>1, <1>2 DEF Reads, Goto
<1>4. CallFits(c)'
  BY <1>2, <1>3, TablesAreApart DEF CallFits, SignInSteps, Taking
<1> QED
  BY <1>1, <1>2, <1>4, ReadsKeeps DEF Writing, Taking, Steps, SignInSteps, Unopened

\* mark_consent_owed
LEMMA MarkConsentOwedKeeps ==
  ASSUME NEW c \in SignIns, IndInv, MarkConsentOwed(c)
  PROVE  IndInv'
<1> DEFINE page == mine[c].page
           v == [cur[page] EXCEPT !.waitsIn = c]
<1>1. pc[c] = "owe" /\ MayWrite(c, page)
  BY DEF MarkConsentOwed
<1>2. /\ page \in Begins /\ c \in Calls /\ pc \in [Calls -> Steps] /\ mine \in [Calls -> Asked]
      /\ mine[c] \in Asked
  BY <1>1, FormHasPage
<1>3. CASE IsWaiting(c, page) /\ Writes(c, "owe", "owing", page, v) /\ mine' = mine
  <2>1. cur[page] \in RequestRow
    BY <1>1, <1>2, <1>3, WaitingRow DEF Writing, Taking
  <2>2. v \in RequestRow
    BY <2>1, CallsAreSome DEF RequestRow
  <2>3. Moves(c) /\ pc'[c] = "owing"
    BY <1>2, <1>3 DEF Writes, Goto, Moves
  <2>4. CallFits(c)'
    BY <1>2, <1>3, <2>3, TablesAreApart DEF CallFits, SignInSteps, Taking
  <2> HIDE DEF v
  <2> QED
    BY <1>2, <1>3, <2>2, <2>3, <2>4, PageWriteKeeps DEF Writing, Taking
<1>4. CASE Reads(c, "owe", "orphan", mine[c])
  <2>1. pc'[c] = "orphan" /\ mine'[c] = mine[c]
    BY <1>2, <1>4 DEF Reads, Goto
  <2>2. CallFits(c)'
    BY <1>2, <2>1, TablesAreApart DEF CallFits, SignInSteps, Taking
  <2> QED
    BY <1>2, <1>4, <2>2, ReadsKeeps DEF Writing, Taking, Steps, SignInSteps, Unopened
<1> QED
  BY <1>3, <1>4 DEF MarkConsentOwed

\* take_pending_authorization: who takes a request that waits holds its row.
LEMMA TakeKeeps ==
  ASSUME NEW c \in Calls, IndInv, mine[c].page \in Begins,
         NEW from, NEW to \in Taking, NEW lost, Take(c, from, to, lost),
         from \notin Writing, from # "waiting",
         \/ c \in SignIns /\ from = "take" /\ to = "issue" /\ lost = "orphan"
         \/ c \in Answers /\ from = "answer" /\ to = "check" /\ lost = "expired"
  PROVE  IndInv'
<1> DEFINE page == mine[c].page
<1>1. pc[c] = from /\ MayWrite(c, page)
  BY DEF Take
<1>2. pc \in [Calls -> Steps] /\ mine \in [Calls -> Asked] /\ mine[c] \in Asked /\ CallFits(c)
  BY DEF IndInv, TypeOK, Steps, Lines
<1>3. CASE IsWaiting(c, page) /\ Writes(c, from, to, page, None)
           /\ mine' = [mine EXCEPT ![c].read = cur[page]]
  <2>1. cur[page] \in RequestRow
    BY <1>1, <1>3, WaitingRow
  <2>2. [mine[c] EXCEPT !.read = cur[page]] \in Asked
    BY <1>2, <2>1 DEF Asked
  <2>3. mine' \in [Calls -> Asked] /\ mine'[c] = [mine[c] EXCEPT !.read = cur[page]]
    BY <1>2, <1>3, <2>2
  <2>4. /\ mine'[c].page = page /\ mine'[c].read = cur[page] /\ mine'[c].way = mine[c].way
        /\ mine'[c].ticket = mine[c].ticket
    BY <1>2, <2>3 DEF Asked
  <2>5. Moves(c) /\ pc'[c] = to
    BY <1>2, <1>3 DEF Writes, Goto, Moves
  <2>6. writer'[page] = c
    BY <1>3, CallsAreSome DEF Writes, WriteRow, IndInv, TypeOK
  <2>7. CallFits(c)'
    BY <1>1, <1>2, <2>1, <2>4, <2>5, <2>6, TablesAreApart
    DEF CallFits, SignInSteps, AnswerSteps, Taking
  <2> QED
    BY <1>3, <2>3, <2>4, <2>5, <2>7, PageWriteKeeps DEF Taking
<1>4. CASE Reads(c, from, lost, mine[c])
  <2>1. pc'[c] = lost /\ mine'[c] = mine[c]
    BY <1>2, <1>4 DEF Reads, Goto
  <2>2. CallFits(c)'
    BY <1>2, <2>1, TablesAreApart DEF CallFits, SignInSteps, AnswerSteps, Taking
  <2> QED
    BY <1>2, <1>4, <2>2, ReadsKeeps, TablesAreApart
    DEF Writing, Taking, Steps, SignInSteps, Unopened
<1> QED
  BY <1>3, <1>4 DEF Take

\* The form takes its request.
LEMMA TakePendingKeeps ==
  ASSUME NEW c \in SignIns, IndInv, TakePending(c)
  PROVE  IndInv'
<1>1. pc[c] = "take" /\ Take(c, "take", "issue", "orphan")
  BY DEF TakePending, Take
<1> QED
  BY <1>1, FormHasPage, TakeKeeps DEF Taking, Writing

\* end_orphan_session
LEMMA EndOrphanKeeps ==
  ASSUME NEW c \in SignIns, IndInv, EndOrphan(c)
  PROVE  IndInv'
<1>1. pc[c] = "orphan" /\ MayWrite(c, c)
  BY DEF EndOrphan
<1>2. /\ mine[c].page \in Begins /\ c \in Calls /\ pc \in [Calls -> Steps]
      /\ mine \in [Calls -> Asked] /\ c \in Rows /\ c \in AllSessions
  BY <1>1, FormHasPage, CallsAreSome
<1>3. Sees(c, c) = com[c] /\ writer[c] = None /\ cur[c] = com[c]
  <2>1. writer[c] # c /\ Sees(c, c) = com[c]
    BY <1>1, <1>2, SeesCommitted DEF Writing, Taking
  <2>2. writer[c] = None
    BY <1>1, <2>1 DEF MayWrite
  <2> QED
    BY <2>1, <2>2, <1>2 DEF IndInv, Lines
<1>4. CASE IsActive(c, c) /\ mine' = mine
           /\ Writes(c, "orphan", "ending", c, [cur[c] EXCEPT !.active = FALSE])
  <2> DEFINE v == [cur[c] EXCEPT !.active = FALSE]
  <2>1. cur[c] \in SessionRow
    BY <1>2, <1>3, <1>4, RowsFit DEF IsActive
  <2>2. v \in SessionRow /\ v.active = FALSE
    BY <2>1 DEF SessionRow
  <2> HIDE DEF v
  <2>3. WriteRow(c, c, v) /\ pc' = [pc EXCEPT ![c] = "ending"] /\ sent' = sent
    BY <1>4 DEF Writes, Goto, v
  <2>4. com' = com /\ cur' = [cur EXCEPT ![c] = v] /\ writer' = [writer EXCEPT ![c] = c]
    BY <1>2, <2>3, WriteIsAlone
  <2>5. cur'[c] = v /\ writer'[c] = c
    BY <1>2, <2>4 DEF IndInv, TypeOK
  <2>6. Moves(c) /\ pc'[c] = "ending" /\ pc' \in [Calls -> Steps]
    BY <1>2, <1>4, <2>3 DEF Moves, Steps, SignInSteps
  <2>7. CallFits(c)'
    BY <1>2, <1>4, <2>5, <2>6, TablesAreApart DEF CallFits, SignInSteps, Taking
  <2>8. SessionFits(c)'
    BY <2>2, <2>5, <2>6, RowsAssumption DEF SessionFits
  <2>9. FormFits(c)'
    BY <2>6 DEF FormFits, Unopened
  <2>10. RowFits(c, v)
    BY <1>2, <2>2, TablesAreApart DEF RowFits
  <2> QED
    BY <1>1, <1>2, <1>4, <2>3, <2>6, <2>7, <2>8, <2>9, <2>10, WriteKeeps, TablesAreApart
    DEF Writing, Taking
<1>5. CASE ~IsActive(c, c) /\ Drops(c, "expired")
  BY <1>1, <1>2, <1>3, <1>5, DropKeeps, TablesAreApart DEF IsActive
<1> QED
  BY <1>4, <1>5 DEF EndOrphan

\* The commit of a session that ended.
LEMMA CommitEndKeeps ==
  ASSUME NEW c \in SignIns, IndInv, CommitEnd(c)
  PROVE  IndInv'
<1>1. /\ pc[c] = "ending" /\ Commit(c) /\ pc' = [pc EXCEPT ![c] = "expired"]
      /\ mine' = mine /\ sent' = sent
  BY DEF CommitEnd, Commits, Goto
<1>2. c \in Calls /\ pc \in [Calls -> Steps] /\ c \in Rows /\ c \in AllSessions
  BY CallsAreSome DEF IndInv, TypeOK, Steps
<1>3. writer[c] = c
  BY <1>1, <1>2 DEF IndInv, Lines, CallFits
<1>4. com'[c] = cur[c] /\ ~cur[c].active
  BY <1>1, <1>2, <1>3, CallsAreSome DEF Commit, IndInv, Lines, SessionFits
<1>5. pc'[c] = "expired"
  BY <1>1, <1>2
<1>6. CallFits(c)' /\ FormFits(c)'
  BY <1>4, <1>5, TablesAreApart DEF CallFits, FormFits, Unopened, SignInSteps, Taking
<1> QED
  BY <1>1, <1>2, <1>6, CommitKeeps

\* What a browser answers has a page and the ticket of a session.
LEMMA AnswerHasPage ==
  ASSUME NEW c \in Answers, IndInv, pc[c] \notin {"idle", "refused", "expired", "failed"}
  PROVE  /\ mine[c].page \in Begins /\ mine[c].ticket \in AllSessions /\ c \in Calls
         /\ mine[c] \in Asked /\ pc \in [Calls -> Steps] /\ mine \in [Calls -> Asked]
         /\ CallFits(c)
  BY CallsAreSome DEF IndInv, Lines, CallFits, TypeOK, Steps

\* answer_consent begins.
LEMMA BeginAnswerKeeps ==
  ASSUME NEW c \in Answers, IndInv, BeginAnswer(c)
  PROVE  IndInv'
<1>1. PICK page \in Begins, ticket \in Tickets, way \in {"allow", "deny"} :
        Starts(c, "answer", [Nothing EXCEPT !.page = page, !.ticket = ticket, !.way = way])
  BY DEF BeginAnswer
<1> DEFINE ask == [Nothing EXCEPT !.page = page, !.ticket = ticket, !.way = way]
<1>2. ticket \in AllSessions
  BY DEF Tickets
<1>3. ask \in Asked /\ ask.page = page /\ ask.ticket = ticket /\ ask.way = way
  BY <1>2 DEF Asked, Nothing, AskedScopes
<1>4. Starts(c, "answer", ask) /\ UNCHANGED storage
  BY <1>1 DEF BeginAnswer
<1>5. c \in Calls /\ pc \in [Calls -> Steps] /\ mine \in [Calls -> Asked]
  BY CallsAreSome DEF IndInv, TypeOK, Steps
<1> HIDE DEF ask
<1>6. /\ pc'[c] = "answer" /\ mine'[c].page = page /\ mine'[c].ticket = ticket
      /\ mine'[c].way = way
  BY <1>3, <1>4, <1>5 DEF Starts, Goto, Asked
<1>7. CallFits(c)'
  BY <1>2, <1>6, TablesAreApart DEF CallFits, AnswerSteps, Taking
<1> QED
  BY <1>3, <1>4, <1>5, <1>7, StartsKeep DEF Steps, AnswerSteps, Writing, Taking

\* The answer takes its request.
LEMMA TakeAnsweredKeeps ==
  ASSUME NEW c \in Answers, IndInv, TakeAnswered(c)
  PROVE  IndInv'
<1>1. pc[c] = "answer" /\ Take(c, "answer", "check", "expired")
  BY DEF TakeAnswered, Take
<1> QED
  BY <1>1, AnswerHasPage, TakeKeeps DEF Taking, Writing

\* An answer sees sessions as they are committed: a session is written by the
\* form that opened it.
LEMMA AnswerSeesSessions ==
  ASSUME NEW c \in Answers, IndInv, NEW s \in AllSessions
  PROVE  writer[s] # c /\ Sees(c, s) = com[s]
<1>1. writer[s] # c
  BY CallsAreSome, TablesAreApart DEF IndInv, Lines, SessionFits, CallFits, AnswerSteps
<1> QED
  BY <1>1 DEF Sees

\* check_waiting_consent
LEMMA CheckWaitingKeeps ==
  ASSUME NEW c \in Answers, IndInv, CheckWaiting(c)
  PROVE  IndInv'
<1>1. pc[c] = "check"
  BY DEF CheckWaiting
<1>2. /\ mine[c].page \in Begins /\ mine[c].ticket \in AllSessions /\ c \in Calls
      /\ mine[c] \in Asked /\ pc \in [Calls -> Steps] /\ mine \in [Calls -> Asked]
      /\ CallFits(c)
  BY <1>1, AnswerHasPage
<1>3. CASE WaitsHere(c)
           /\ Reads(c, "check", mine[c].way, [mine[c] EXCEPT !.person = com[mine[c].ticket].person])
  <2> DEFINE ask == [mine[c] EXCEPT !.person = com[mine[c].ticket].person]
  <2>1. com[mine[c].ticket] \in SessionRow
    BY <1>2, <1>3, AnswerSeesSessions, RowsFit DEF WaitsHere, IsActive
  <2>2. com[mine[c].ticket].person \in People
    BY <2>1 DEF SessionRow
  <2>3. /\ ask \in Asked /\ ask.page = mine[c].page /\ ask.ticket = mine[c].ticket
        /\ ask.read = mine[c].read /\ ask.person \in People
    BY <1>2, <2>2 DEF Asked
  <2> HIDE DEF ask
  <2>4. Reads(c, "check", mine[c].way, ask)
    BY <1>3 DEF ask
  <2>5. mine[c].way \in {"allow", "deny"}
    BY <1>1, <1>2 DEF CallFits
  <2>6. pc'[c] = mine[c].way /\ mine'[c] = ask /\ writer' = writer
    BY <1>2, <2>4 DEF Reads, Goto, storage
  <2>7. CallFits(c)'
    BY <1>1, <1>2, <2>3, <2>5, <2>6, TablesAreApart DEF CallFits, AnswerSteps, Taking
  <2> QED
    BY <1>2, <2>3, <2>4, <2>5, <2>7, ReadsKeeps, TablesAreApart DEF Steps, AnswerSteps, Taking
<1>4. CASE Drops(c, "expired")
  BY <1>1, <1>2, <1>4, DropKeeps, TablesAreApart
<1> QED
  BY <1>3, <1>4 DEF CheckWaiting

\* allow_client
LEMMA ReadAllowedKeeps ==
  ASSUME NEW c \in Answers, IndInv, ReadAllowed(c)
  PROVE  IndInv'
<1>1. pc[c] = "allow"
  BY DEF ReadAllowed
<1>2. /\ mine[c].page \in Begins /\ c \in Calls /\ mine[c] \in Asked
      /\ pc \in [Calls -> Steps] /\ mine \in [Calls -> Asked] /\ CallFits(c)
  BY <1>1, AnswerHasPage
<1>3. ASSUME NEW to \in {"add", "give"}, Reads(c, "allow", to, mine[c]) PROVE IndInv'
  <2>1. pc'[c] = to /\ mine'[c] = mine[c] /\ writer' = writer
    BY <1>2, <1>3 DEF Reads, Goto, storage
  <2>2. CallFits(c)'
    BY <1>1, <1>2, <2>1, TablesAreApart DEF CallFits, AnswerSteps, Taking
  <2> QED
    BY <1>2, <1>3, <2>2, ReadsKeeps, TablesAreApart DEF Steps, AnswerSteps, Taking
<1>4. CASE Drops(c, "refused")
  BY <1>1, <1>2, <1>4, DropKeeps
<1> QED
  BY <1>3, <1>4 DEF ReadAllowed

\* add_consent
LEMMA AddConsentKeeps ==
  ASSUME NEW c \in Answers, IndInv, AddConsent(c)
  PROVE  IndInv'
<1>1. PICK v : Writes(c, "add", "give", mine[c].person, v) /\ mine' = mine
  BY DEF AddConsent
<1>2. pc[c] = "add" /\ WriteRow(c, mine[c].person, v) /\ sent' = sent
      /\ pc' = [pc EXCEPT ![c] = "give"]
  BY <1>1 DEF Writes, Goto
<1>3. /\ mine[c].page \in Begins /\ c \in Calls /\ mine[c] \in Asked
      /\ pc \in [Calls -> Steps] /\ mine \in [Calls -> Asked] /\ CallFits(c)
  BY <1>2, AnswerHasPage
<1>4. mine[c].person \in People
  BY <1>2, <1>3 DEF CallFits
<1>5. /\ mine[c].person \in Rows /\ mine[c].person \notin Begins \cup AllSessions
      /\ mine[c].person # "client" /\ mine[c].page # mine[c].person
  BY <1>3, <1>4, CallsAreSome, TablesAreApart
<1>6. writer'[mine[c].page] = writer[mine[c].page]
  BY <1>2, <1>3, <1>5, WriteIsAlone, CallsAreSome DEF IndInv, TypeOK
<1>7. Moves(c) /\ pc'[c] = "give" /\ pc' \in [Calls -> Steps]
  BY <1>1, <1>2, <1>3 DEF Moves, Steps, AnswerSteps
<1>8. CallFits(c)'
  BY <1>1, <1>2, <1>3, <1>6, <1>7, TablesAreApart DEF CallFits, AnswerSteps, Taking
<1>9. RowFits(mine[c].person, v)
  BY <1>5 DEF RowFits
<1> QED
  BY <1>1, <1>2, <1>3, <1>5, <1>7, <1>8, <1>9, WriteKeeps, TablesAreApart DEF Taking

\* The commit of an answer, with what its client is sent.
LEMMA AnswerCommitKeeps ==
  ASSUME NEW c \in Answers, IndInv, pc[c] \in {"give", "deny"}, Commit(c),
         pc' = [pc EXCEPT ![c] = "done"], mine' = mine,
         \E a : sent' = sent \cup {a} /\ a.page = mine[c].page
  PROVE  IndInv'
<1>1. mine[c].page \in Begins /\ mine[c].ticket \in AllSessions /\ c \in Calls /\ pc \in [Calls -> Steps]
  BY AnswerHasPage
<1>2. pc'[c] = "done"
  BY <1>1
<1>3. CallFits(c)'
  BY <1>1, <1>2, TablesAreApart DEF CallFits, AnswerSteps, Taking
<1> QED
  BY <1>1, <1>3, CommitKeeps, TablesAreApart DEF Taking

\* The code of an answer that allows.
LEMMA GiveCodeKeeps ==
  ASSUME NEW c \in Answers, IndInv, GiveCode(c)
  PROVE  IndInv'
  BY AnswerCommitKeeps, SendsOne DEF GiveCode, Goto

\* access_denied
LEMMA DenyClientKeeps ==
  ASSUME NEW c \in Answers, IndInv, DenyClient(c)
  PROVE  IndInv'
  BY AnswerCommitKeeps, SendsOne DEF DenyClient, Goto

\* A call that fails leaves what was committed.
LEMMA FailKeeps ==
  ASSUME NEW c \in Calls, IndInv, Fail(c)
  PROVE  IndInv'
  BY DropKeeps DEF Fail, Ended

\* The lines hold whatever happens beside the calls: to a row nobody writes,
\* once, and committed at once.
LEMMA EnvironmentKeeps ==
  ASSUME IndInv, Environment, NEW x \in Rows, writer[x] = None, UNCHANGED writer,
         DOMAIN com' = Rows, DOMAIN cur' = Rows, com'[x] = cur'[x], RowFits(x, com'[x]),
         \A y \in Rows \ {x} : com'[y] = com[y] /\ cur'[y] = cur[y],
         x \in Begins => com'[x] = None \/ com'[x] = com[x],
         x \in AllSessions => com[x] # None /\ com'[x] # None /\ ~com'[x].active
  PROVE  IndInv'
<1>t. TypeOK
  BY DEF IndInv
<1>1. pc' = pc /\ mine' = mine /\ sent' = sent
  BY DEF Environment
<1>2. TypeOK'
  <2>1. \A y \in Rows : RowFits(y, com'[y]) /\ RowFits(y, cur'[y])
    BY <1>t DEF TypeOK
  <2>2. \A y \in Rows : RowFits(y, com[y])' /\ RowFits(y, cur[y])'
    BY <2>1 DEF RowFits
  <2> QED
    BY <1>1, <1>t, <2>2 DEF TypeOK
<1>3. \A d \in Calls : CallFits(d)'
  BY <1>1 DEF IndInv, Lines, CallFits
<1>4. ASSUME NEW p \in Begins PROVE PageFits(p)'
  BY <1>1, CallsAreSome DEF IndInv, Lines, PageFits
<1>5. ASSUME NEW s \in AllSessions PROVE SessionFits(s)'
  BY <1>1, CallsAreSome DEF IndInv, Lines, SessionFits
<1>6. ASSUME NEW d \in SignIns PROVE FormFits(d)'
  BY <1>1, CallsAreSome DEF IndInv, Lines, FormFits
<1>7. Lines'
  BY <1>3, <1>4, <1>5, <1>6, CallsAreSome DEF IndInv, Lines
<1>8. AnsweredIsGone'
  BY <1>1, CallsAreSome DEF IndInv, AnsweredIsGone, IsGone
<1> QED
  BY <1>1, <1>2, <1>7, <1>8 DEF IndInv, AnsweredOnce

\* A row that is removed.
LEMMA DeleteKeeps ==
  ASSUME IndInv, NEW x \in Begins \cup People, DeleteRows({x}), Environment
  PROVE  IndInv'
<1>1. x \in Rows /\ writer[x] = None /\ UNCHANGED writer
  BY CallsAreSome DEF DeleteRows
<1>2. /\ com' = [y \in Rows |-> IF y \in {x} THEN None ELSE com[y]]
      /\ cur' = [y \in Rows |-> IF y \in {x} THEN None ELSE cur[y]]
  BY DEF DeleteRows
<1>3. DOMAIN com' = Rows /\ DOMAIN cur' = Rows /\ com'[x] = None /\ cur'[x] = None
      /\ \A y \in Rows \ {x} : com'[y] = com[y] /\ cur'[y] = cur[y]
  BY <1>1, <1>2
<1> QED
  BY <1>1, <1>3, EnvironmentKeeps, TablesAreApart DEF RowFits

\* PENDING_LIFETIME has passed.
LEMMA ExpireKeeps ==
  ASSUME NEW p \in Begins, IndInv, Expire(p)
  PROVE  IndInv'
<1>1. UNCHANGED <<storage, pc, mine, sent>>
  BY DEF Expire, Environment
<1>2. TypeOK'
  BY <1>1 DEF IndInv, TypeOK, storage, RowFits
<1>3. Lines'
  BY <1>1 DEF IndInv, Lines, storage, PageFits, SessionFits, FormFits, CallFits
<1> QED
  BY <1>1, <1>2, <1>3 DEF IndInv, storage, AnsweredIsGone, IsGone, AnsweredOnce

\* A session that ends answers no more.
LEMMA EndSessionKeeps ==
  ASSUME NEW s \in AllSessions, IndInv, EndSession(s)
  PROVE  IndInv'
<1>1. /\ com[s] # None /\ writer[s] = None /\ Environment /\ UNCHANGED writer /\ s \in Rows
      /\ com' = [com EXCEPT ![s].active = FALSE] /\ cur' = [cur EXCEPT ![s].active = FALSE]
  BY CallsAreSome DEF EndSession
<1>2. DOMAIN com = Rows /\ DOMAIN cur = Rows /\ com[s] \in SessionRow /\ cur[s] = com[s]
  BY <1>1, RowsFit DEF IndInv, TypeOK, Lines
<1>3. /\ DOMAIN com' = Rows /\ DOMAIN cur' = Rows
      /\ com'[s] = [com[s] EXCEPT !.active = FALSE] /\ cur'[s] = com'[s]
      /\ \A y \in Rows \ {s} : com'[y] = com[y] /\ cur'[y] = cur[y]
  BY <1>1, <1>2
<1>4. com'[s] \in SessionRow /\ ~com'[s].active
  BY <1>2, <1>3 DEF SessionRow
<1>5. com'[s] # None /\ RowFits(s, com'[s])
  BY <1>4, RowsAssumption, TablesAreApart DEF RowFits
<1> QED
  BY <1>1, <1>3, <1>4, <1>5, EnvironmentKeeps, TablesAreApart

\* An administrator changes the client.
LEMMA ChangeClientKeeps ==
  ASSUME IndInv, ChangeClient
  PROVE  IndInv'
<1>1. PICK v \in {None, [com["client"] EXCEPT !.enabled = FALSE],
                  [com["client"] EXCEPT !.requires = TRUE]} :
        com' = [com EXCEPT !["client"] = v] /\ cur' = [cur EXCEPT !["client"] = v]
  BY DEF ChangeClient
<1>2. com["client"] # None /\ Environment /\ UNCHANGED writer /\ writer["client"] = None
  BY DEF ChangeClient, IndInv, Lines
<1>3. com["client"] \in ClientRow
  BY <1>2, CallsAreSome DEF IndInv, TypeOK, RowFits
<1>4. v \in ClientRow \cup {None}
  BY <1>3 DEF ClientRow
<1>5. RowFits("client", v)
  BY <1>4, TablesAreApart DEF RowFits
<1>6. /\ DOMAIN com' = Rows /\ DOMAIN cur' = Rows /\ com'["client"] = v /\ cur'["client"] = v
      /\ \A y \in Rows \ {"client"} : com'[y] = com[y] /\ cur'[y] = cur[y]
  BY <1>1, CallsAreSome DEF IndInv, TypeOK
<1> QED
  BY <1>2, <1>5, <1>6, EnvironmentKeeps, TablesAreApart, CallsAreSome

-----------------------------------------------------------------------------
(* The theorem.                                                            *)

\* At first nobody called, and every row is as it was kept.
LEMMA InitEstablishes == Init => IndInv
<1> SUFFICES ASSUME Init PROVE IndInv
  OBVIOUS
<1>1. PICK client \in Clients :
        StorageInit([x \in Rows |->
          CASE x = "client" -> client
            [] x \in People -> Kept[x]
            [] x \in DOMAIN Sessions -> [person |-> Sessions[x], active |-> TRUE, page |-> None]
            [] OTHER -> None])
  BY DEF Init
<1>2. /\ DOMAIN com = Rows /\ cur = com /\ writer = [x \in Rows |-> None]
      /\ com["client"] = client /\ \A p \in Begins : com[p] = None
      /\ \A s \in SignIns : com[s] = None
      /\ \A s \in DOMAIN Sessions : com[s] = [person |-> Sessions[s], active |-> TRUE, page |-> None]
  <2>1. /\ com = [x \in Rows |->
             CASE x = "client" -> client
               [] x \in People -> Kept[x]
               [] x \in DOMAIN Sessions -> [person |-> Sessions[x], active |-> TRUE, page |-> None]
               [] OTHER -> None]
        /\ cur = com /\ writer = [x \in Rows |-> None]
    BY <1>1 DEF StorageInit
  <2>2. com["client"] = client
    BY <2>1, CallsAreSome, TablesAreApart DEF AllSessions
  <2>3. ASSUME NEW p \in Begins \cup SignIns PROVE com[p] = None
    BY <2>1, CallsAreSome, TablesAreApart, RowsAssumption DEF AllSessions
  <2>4. ASSUME NEW s \in DOMAIN Sessions
        PROVE  com[s] = [person |-> Sessions[s], active |-> TRUE, page |-> None]
    BY <2>1, CallsAreSome, TablesAreApart DEF AllSessions
  <2> QED
    BY <2>1, <2>2, <2>3, <2>4
<1>3. ASSUME NEW s \in DOMAIN Sessions PROVE com[s] \in SessionRow
  <2>1. Sessions[s] \in People
    BY SignInAssumption
  <2>2. com[s] = [person |-> Sessions[s], active |-> TRUE, page |-> None]
    BY <1>2
  <2> QED
    BY <2>1, <2>2 DEF SessionRow
<1>4. client \in ClientRow
  BY RowsAssumption
<1>5. \A x \in Rows : RowFits(x, com[x])
  BY <1>2, <1>3, <1>4, TablesAreApart DEF RowFits, AllSessions
<1>6. /\ pc = [c \in Calls |-> "idle"] /\ mine = [c \in Calls |-> Nothing] /\ sent = {}
  BY DEF Init
<1>7. Nothing \in Asked
  BY DEF Nothing, Asked, AskedScopes
<1>8. TypeOK
  BY <1>2, <1>5, <1>6, <1>7 DEF TypeOK, BeginSteps
<1>9. Lines
  BY <1>2, <1>6, CallsAreSome
  DEF Lines, PageFits, SessionFits, FormFits, CallFits, BeginSteps, SignInSteps, AnswerSteps, Taking
<1> QED
  BY <1>6, <1>8, <1>9 DEF IndInv, AnsweredIsGone, AnsweredOnce

\* Every step keeps the invariant.
LEMMA NextKeeps == IndInv /\ [Next]_vars => IndInv'
<1> SUFFICES ASSUME IndInv, [Next]_vars PROVE IndInv'
  OBVIOUS
<1>1. ASSUME NEW c \in Begins, BeginStep(c) PROVE IndInv'
  BY <1>1, BeginAuthorizationKeeps, FindSessionKeeps, JudgeConsentKeeps, KeepPendingKeeps,
     RefusePendingKeeps, IssueFromSessionKeeps DEF BeginStep
<1>2. ASSUME NEW c \in SignIns, SignInStep(c) PROVE IndInv'
  BY <1>2, ReadPendingKeeps, ProvePasswordKeeps, ProveFactorKeeps, RefuseProofKeeps,
     MarkFirstFactorKeeps, CommitMarkKeeps, ReadTermsKeeps, MarkConsentOwedKeeps, CommitOwedKeeps,
     TakePendingKeeps, IssueCodeKeeps, EndOrphanKeeps, CommitEndKeeps DEF SignInStep
<1>3. ASSUME NEW c \in Answers, AnswerStep(c) PROVE IndInv'
  BY <1>3, BeginAnswerKeeps, TakeAnsweredKeeps, CheckWaitingKeeps, ReadAllowedKeeps,
     AddConsentKeeps, GiveCodeKeeps, DenyClientKeeps DEF AnswerStep
<1>4. ASSUME NEW c \in Calls, Fail(c) PROVE IndInv'
  BY <1>4, FailKeeps
<1>5. ASSUME NEW p \in Begins, Expire(p) \/ Purge(p) PROVE IndInv'
  BY <1>5, ExpireKeeps, DeleteKeeps DEF Purge
<1>6. ASSUME NEW s \in AllSessions, EndSession(s) PROVE IndInv'
  BY <1>6, EndSessionKeeps
<1>7. ASSUME NEW p \in People, Withdraw(p) PROVE IndInv'
  BY <1>7, DeleteKeeps DEF Withdraw
<1>8. CASE ChangeClient
  BY <1>8, ChangeClientKeeps
<1>9. CASE UNCHANGED vars
  <2>1. UNCHANGED <<storage, pc, mine, sent>>
    BY <1>9 DEF vars
  <2>2. TypeOK'
    BY <2>1 DEF IndInv, TypeOK, storage, RowFits
  <2>3. Lines'
    BY <2>1 DEF IndInv, Lines, storage, PageFits, SessionFits, FormFits, CallFits
  <2> QED
    BY <2>1, <2>2, <2>3 DEF IndInv, storage, AnsweredIsGone, IsGone, AnsweredOnce
<1> QED
  BY <1>1, <1>2, <1>3, <1>4, <1>5, <1>6, <1>7, <1>8, <1>9 DEF Next

\* A request that goes at a commit was taken by the call that commits.
LEMMA CommitTakesOwn ==
  ASSUME NEW c \in Calls, IndInv, NEW p \in Begins, writer[p] = c, cur[p] = None
  PROVE  pc[c] \in Taking /\ mine[c].page = p
  BY CallsAreSome DEF IndInv, Lines, PageFits

\* Who sends, sends for the page it names.
LEMMA SentIsThere ==
  ASSUME NEW c, NEW page, NEW kind, NEW session, NEW asked, Sends(c, page, kind, session, asked)
  PROVE  \E a \in sent' : a.page = page
  BY SendsOne

\* A request that is gone after a step was answered to its client, or had
\* expired.
LEMMA GoneStep ==
  ASSUME IndInv, [Next]_vars, NEW p \in Begins, com[p] # None, com'[p] = None
  PROVE  p \in expired \/ \E a \in sent' : a.page = p
<1>r. p \in Rows /\ p \in Calls
  BY CallsAreSome
<1>k. ASSUME NEW c \in Calls, Commit(c)
      PROVE  pc[c] \in Taking /\ mine[c].page = p
  BY <1>k, <1>r, CommitTakesOwn DEF Commit
<1>1. ASSUME NEW c \in Begins, BeginStep(c) PROVE FALSE
  <2>1. c \in Calls
    BY CallsAreSome
  <2>2. com'[p] = com[p] \/ IssueFromSession(c) \/ KeepPendingAuthorization(c)
    BY <1>1 DEF BeginStep, BeginAuthorization, FindSession, JudgeConsent, RefusePending, Reads,
       Drops, Rollback, storage
  <2>3. CASE IssueFromSession(c)
    BY <2>1, <2>3, <1>k DEF IssueFromSession, Taking
  <2>4. CASE KeepPendingAuthorization(c)
    <3> DEFINE v == [scopes |-> mine[c].scopes, proof |-> mine[c].proof, hint |-> mine[c].hint,
                     first |-> None, key |-> None, waitsIn |-> mine[c].ticket]
    <3>1. v \in RequestRow
      BY <2>1 DEF IndInv, TypeOK, Asked, RequestRow
    <3> HIDE DEF v
    <3>2. v # None
      BY <3>1, RowsAssumption
    <3>3. pc[c] = "keep" /\ InsertAndCommit(c, c, v)
      BY <2>4 DEF KeepPendingAuthorization, v
    <3>4. p # c
      BY <3>2, <3>3, <1>r DEF InsertAndCommit
    <3>5. writer[p] = c /\ cur[p] = None
      BY <3>3, <3>4, <1>r DEF InsertAndCommit
    <3> QED
      BY <2>1, <3>3, <3>5, CommitTakesOwn DEF Taking
  <2> QED
    BY <2>2, <2>3, <2>4
<1>2. ASSUME NEW c \in SignIns, SignInStep(c) PROVE \E a \in sent' : a.page = p
  <2>1. c \in Calls /\ c # p
    BY CallsAreSome, TablesAreApart
  <2>2. \/ com'[p] = com[p]
        \/ pc[c] = "prove" /\ \E v : InsertAndCommit(c, c, v)
        \/ pc[c] \in {"marked", "owing", "ending"} /\ Commit(c)
        \/ IssueCode(c)
    BY <1>2 DEF SignInStep, ReadPending, ProvePassword, ProveFactor, RefuseProof, MarkFirstFactor,
       CommitMark, ReadTerms, MarkConsentOwed, CommitOwed, TakePending, Take, EndOrphan, CommitEnd,
       Opens, Reads, Writes, WriteRow, Drops, Rollback, Commits, storage
  <2>3. CASE pc[c] = "prove" /\ \E v : InsertAndCommit(c, c, v)
    <3>1. writer[p] = c /\ cur[p] = None
      BY <2>1, <2>3, <1>r DEF InsertAndCommit
    <3> QED
      BY <2>1, <2>3, <3>1, CommitTakesOwn DEF Taking
  <2>4. CASE pc[c] \in {"marked", "owing", "ending"} /\ Commit(c)
    BY <2>1, <2>4, <1>k DEF Taking
  <2>5. CASE IssueCode(c)
    BY <2>1, <2>5, <1>k, SentIsThere DEF IssueCode
  <2> QED
    BY <2>2, <2>3, <2>4, <2>5
<1>3. ASSUME NEW c \in Answers, AnswerStep(c) PROVE \E a \in sent' : a.page = p
  <2>1. c \in Calls
    BY CallsAreSome
  <2>2. com'[p] = com[p] \/ GiveCode(c) \/ DenyClient(c)
    BY <1>3 DEF AnswerStep, BeginAnswer, TakeAnswered, Take, CheckWaiting, ReadAllowed, AddConsent,
       Reads, Writes, WriteRow, Drops, Rollback, storage
  <2>3. CASE GiveCode(c)
    BY <2>1, <2>3, <1>k, SentIsThere DEF GiveCode
  <2>4. CASE DenyClient(c)
    BY <2>1, <2>4, <1>k, SentIsThere DEF DenyClient
  <2> QED
    BY <2>2, <2>3, <2>4
<1>4. ASSUME NEW c \in Calls, Fail(c) PROVE FALSE
  BY <1>4 DEF Fail, Drops, Rollback
<1>5. ASSUME NEW q \in Begins, Expire(q) \/ Purge(q) PROVE p \in expired
  BY <1>5, <1>r DEF Expire, Purge, DeleteRows, storage
<1>6. ASSUME NEW s \in AllSessions, EndSession(s) PROVE FALSE
  BY <1>6, <1>r, TablesAreApart DEF EndSession, IndInv, TypeOK
<1>7. ASSUME NEW q \in People, Withdraw(q) PROVE FALSE
  BY <1>7, <1>r, TablesAreApart DEF Withdraw, DeleteRows
<1>8. CASE ChangeClient
  BY <1>8, <1>r, TablesAreApart DEF ChangeClient, IndInv, TypeOK
<1>9. CASE UNCHANGED vars
  BY <1>9 DEF vars, storage
<1> QED
  BY <1>1, <1>2, <1>3, <1>4, <1>5, <1>6, <1>7, <1>8, <1>9 DEF Next

\* Whatever is sent to the page of a request, however its steps fall: its client
\* is answered once, the request never goes unanswered unless it expired, and a
\* form that lost it keeps no session (take_pending_authorization,
\* end_orphan_session).
THEOREM RequestIsAnsweredOnce == Spec => OneAnswer
<1>1. IndInv => AnsweredOnce /\ LoserKeepsNoSession
  BY DEF IndInv, Lines, FormFits, LoserKeepsNoSession
<1>2. IndInv /\ [Next]_vars =>
        [\A p \in Begins :
           com[p] # None /\ com'[p] = None => p \in expired \/ \E a \in sent' : a.page = p]_vars
  BY GoneStep
<1> QED
  BY <1>1, <1>2, InitEstablishes, NextKeeps, PTL DEF Spec, OneAnswer, GoneIsAnswered

-----------------------------------------------------------------------------
(* Whose code it is.                                                       *)

\* The session s answers for the person the request p named, and was opened on
\* its page, or is the one its browser came with.
AnswersFor(p, s) ==
  /\ s \in AllSessions /\ com[s] # None
  /\ mine[p].hint # None => com[s].person = mine[p].hint
  /\ \/ s \in SignIns /\ com[s].page = p
     \/ mine[p].ticket = s /\ ~mine[p].proof.fresh

\* v is the request p as a statement read it: it asks what the call that left it
\* asked, and names people who proved their password on its page.
IsRequest(p, v) ==
  /\ pc[p] = "waiting" /\ v \in RequestRow
  /\ v.hint = mine[p].hint /\ v.scopes = mine[p].scopes /\ v.proof = mine[p].proof
  /\ v.first # None => <<p, v.first>> \in proved
  /\ v.waitsIn # None => AnswersFor(p, v.waitsIn)

\* The person of a call has allowed, at some time of it, the scopes.
HasAllowed(c, person, scopes) == mine[c].required => ({person} \X scopes) \subseteq since[c]

BeginInv(c) ==
  LET asks == mine[c] IN
  /\ pc[c] \in {"find", "judge"} => asks.read \in ClientRow /\ (asks.required => asks.read.requires)
  /\ pc[c] \in {"find", "judge", "keep", "grant"} => asks.proof \in Proof
  /\ pc[c] \in {"judge", "grant"} => asks.ticket # None
  /\ pc[c] \in {"judge", "grant", "keep"} /\ asks.ticket # None =>
       /\ com[asks.ticket] # None /\ ~asks.proof.fresh
       /\ asks.hint # None => com[asks.ticket].person = asks.hint
  /\ pc[c] = "grant" => /\ ~asks.proof.consent
                        /\ HasAllowed(c, com[asks.ticket].person, asks.scopes)

\* The steps of a form that has its request, and those after its session opened.
AtPage == SignInSteps \ {"idle", "refused", "expired", "failed"}
AfterOpening == {"terms", "owe", "owing", "consent", "take", "issue", "orphan", "done"}

NamesAnother(c) == mine[mine[c].page].hint \notin {None, mine[c].person}

FormInv(c) ==
  LET page == mine[c].page IN
  /\ pc[c] \in AtPage => IsRequest(page, mine[c].read)
  /\ pc[c] = "mark" => <<page, mine[c].person>> \in proved
  /\ pc[c] \in AfterOpening =>
       com[c] # None /\ com[c].person = mine[c].person /\ com[c].page = page
  /\ pc[c] \in {"owe", "owing"} => ~NamesAnother(c)
  /\ pc[c] \in {"take", "issue"} /\ ~NamesAnother(c) =>
       ~mine[page].proof.consent /\ HasAllowed(c, mine[c].person, mine[page].scopes)

AnswerInv(c) ==
  /\ pc[c] \in Taking => IsRequest(mine[c].page, mine[c].read)
  /\ pc[c] \in {"allow", "add", "give"} =>
       /\ mine[c].read.waitsIn = mine[c].ticket
       /\ com[mine[c].ticket] # None /\ com[mine[c].ticket].person = mine[c].person

\* Who adds a consent holds its row, and widens what is committed.
ConsentInv(p) ==
  writer[p] # None =>
    LET c == writer[p] IN
    /\ c \in Answers /\ pc[c] = "give" /\ mine[c].person = p
    /\ cur[p] = (IF com[p] = None THEN {} ELSE com[p]) \cup mine[c].read.scopes

\* What was allowed since a call began counts what is allowed now, and a client
\* that required consent then requires it while it is there.
CallInv(c) ==
  /\ pc[c] # "idle" => Allowed \subseteq since[c]
  /\ mine[c].required /\ com["client"] # None => com["client"].requires

\* A code, and the session and the call it came from.
CodeInv(a) ==
  /\ a.session \in AllSessions /\ com[a.session] # None /\ a.person = com[a.session].person
  /\ a.hint # None => a.person = a.hint
  /\ a.page # None => \/ a.session \in SignIns /\ com[a.session].page = a.page
                      \/ mine[a.page].ticket = a.session /\ ~a.proof.fresh
  /\ a.page = None => ~a.proof.fresh
  /\ a.required => ({a.person} \X a.scopes) \subseteq since[a.by]
  /\ a.proof.consent => a.by \in Answers

SentInv(a) == a.by \in Calls /\ pc[a.by] # "idle" /\ (a.kind = "code" => CodeInv(a))

RequestsInv ==
  \A p \in Begins : /\ com[p] # None => IsRequest(p, com[p])
                    /\ cur[p] # None => IsRequest(p, cur[p])

\* A session is of the person who proved their password on its page, and who
\* ends it leaves it so.
OpenedInv ==
  /\ \A s \in SignIns : com[s] # None => <<com[s].page, com[s].person>> \in proved
  /\ \A s \in AllSessions : writer[s] # None =>
       com[s] # None /\ cur[s].person = com[s].person /\ cur[s].page = com[s].page

HandlerInv(c) ==
  /\ c \in Begins => BeginInv(c)
  /\ c \in SignIns => FormInv(c)
  /\ c \in Answers => AnswerInv(c)

CodesInv ==
  /\ DOMAIN since = Calls
  /\ RequestsInv
  /\ OpenedInv
  /\ \A c \in Calls : HandlerInv(c) /\ CallInv(c)
  /\ \A p \in People : ConsentInv(p)
  /\ \A a \in sent : SentInv(a)

-----------------------------------------------------------------------------
(* What grows: a session stays whose it was, a request stays as it was     *)
(* asked, and what was proved or allowed stays so.                         *)

SessionsLast ==
  \A s \in AllSessions : com[s] # None =>
    com'[s] # None /\ com'[s].person = com[s].person /\ com'[s].page = com[s].page

Grows ==
  /\ SessionsLast
  /\ \A p \in Begins : pc[p] = "waiting" => pc'[p] = "waiting" /\ mine'[p] = mine[p]
  /\ proved \subseteq proved'
  /\ \A c \in Calls : pc[c] # "idle" => pc'[c] # "idle" /\ since[c] \subseteq since'[c]

\* A session that answers for a request answers for it from then on.
LEMMA AnswersForStays ==
  ASSUME Grows, NEW p \in Begins, pc[p] = "waiting", NEW s, AnswersFor(p, s)
  PROVE  AnswersFor(p, s)'
  BY DEF Grows, SessionsLast, AnswersFor

\* A request that was read stays what was read.
LEMMA RequestStays ==
  ASSUME Grows, NEW p \in Begins, NEW v, IsRequest(p, v)
  PROVE  IsRequest(p, v)'
  BY AnswersForStays DEF Grows, IsRequest

\* What a call has allowed it has allowed from then on.
LEMMA AllowedStays ==
  ASSUME Grows, NEW c \in Calls, pc[c] # "idle", mine'[c] = mine[c], NEW person, NEW scopes,
         HasAllowed(c, person, scopes)
  PROVE  HasAllowed(c, person, scopes)'
  BY DEF Grows, HasAllowed

\* A call that does not move keeps what it has.
LEMMA HandlersStay ==
  ASSUME IndInv, CodesInv, Grows, NEW d \in Calls, pc'[d] = pc[d], mine'[d] = mine[d]
  PROVE  HandlerInv(d)'
<1>1. HandlerInv(d) /\ CallFits(d) /\ mine[d] \in Asked
  BY DEF IndInv, Lines, CodesInv, TypeOK
<1>2. ASSUME d \in Begins PROVE BeginInv(d)'
  <2>1. BeginInv(d)
    BY <1>1, <1>2 DEF HandlerInv
  <2>2. mine[d].ticket \in AllSessions \cup {None}
    BY <1>1 DEF Asked
  <2>3. pc[d] = "grant" =>
          /\ com'[mine[d].ticket].person = com[mine[d].ticket].person
          /\ HasAllowed(d, com[mine[d].ticket].person, mine[d].scopes)
    BY <2>1, <2>2 DEF BeginInv, Grows, SessionsLast
  <2>4. pc[d] = "grant" => HasAllowed(d, com[mine[d].ticket].person, mine[d].scopes)'
    BY <2>3 DEF Grows, HasAllowed
  <2> QED
    BY <2>1, <2>2, <2>4 DEF BeginInv, Grows, SessionsLast
<1>3. ASSUME d \in SignIns PROVE FormInv(d)'
  <2>1. FormInv(d) /\ pc[d] \in SignInSteps
    BY <1>1, <1>3 DEF HandlerInv, CallFits
  <2>2. pc[d] \in AtPage => mine[d].page \in Begins /\ IsRequest(mine[d].page, mine[d].read)
    BY <1>1, <1>3, <2>1 DEF CallFits, FormInv, AtPage
  <2>3. pc[d] \in AtPage => /\ IsRequest(mine[d].page, mine[d].read)'
                            /\ mine'[mine[d].page] = mine[mine[d].page]
    BY <2>2, RequestStays DEF IsRequest, Grows
  <2>4. pc[d] = "mark" => <<mine[d].page, mine[d].person>> \in proved'
    BY <2>1 DEF FormInv, Grows
  <2>5. pc[d] \in AfterOpening =>
          com'[d] # None /\ com'[d].person = mine[d].person /\ com'[d].page = mine[d].page
    BY <2>1, <1>3, CallsAreSome DEF FormInv, Grows, SessionsLast
  <2>6. pc[d] \in {"owe", "owing", "take", "issue"} => (NamesAnother(d)' <=> NamesAnother(d))
    BY <2>3 DEF NamesAnother, AtPage, SignInSteps
  <2>7. pc[d] \in {"take", "issue"} /\ ~NamesAnother(d) =>
          /\ ~mine[mine[d].page].proof.consent
          /\ HasAllowed(d, mine[d].person, mine[mine[d].page].scopes)'
    BY <2>1, <2>3 DEF FormInv, AtPage, SignInSteps, Grows, HasAllowed
  <2> QED
    BY <2>1, <2>3, <2>4, <2>5, <2>6, <2>7 DEF FormInv, AtPage, SignInSteps
<1>4. ASSUME d \in Answers PROVE AnswerInv(d)'
  <2>1. AnswerInv(d) /\ pc[d] \in AnswerSteps
    BY <1>1, <1>4 DEF HandlerInv, CallFits
  <2>2. pc[d] \in Taking => mine[d].page \in Begins /\ mine[d].ticket \in AllSessions
    BY <1>1, <1>4 DEF CallFits, Taking
  <2>3. pc[d] \in Taking => IsRequest(mine[d].page, mine[d].read)'
    BY <2>1, <2>2, RequestStays DEF AnswerInv
  <2> QED
    BY <2>1, <2>2, <2>3 DEF AnswerInv, Grows, SessionsLast, Taking
<1> QED
  BY <1>2, <1>3, <1>4 DEF HandlerInv

\* What was sent stays right.
LEMMA SentStays ==
  ASSUME IndInv, CodesInv, Grows, NEW a \in sent
  PROVE  SentInv(a)'
<1>1. SentInv(a) /\ (a.page # None => a.page \in Begins /\ pc[a.page] = "waiting")
  BY DEF CodesInv, IndInv, AnsweredIsGone, IsGone
<1>2. ASSUME a.kind = "code" PROVE CodeInv(a)'
  <2>1. CodeInv(a)
    BY <1>1, <1>2 DEF SentInv
  <2>2. /\ com'[a.session] # None /\ com'[a.session].person = com[a.session].person
        /\ com'[a.session].page = com[a.session].page
    BY <2>1 DEF CodeInv, Grows, SessionsLast
  <2>3. a.page # None => mine'[a.page] = mine[a.page]
    BY <1>1 DEF Grows
  <2>4. since[a.by] \subseteq since'[a.by]
    BY <1>1 DEF SentInv, Grows
  <2> QED
    BY <2>1, <2>2, <2>3, <2>4 DEF CodeInv
<1> QED
  BY <1>1, <1>2 DEF SentInv, Grows

\* The requests are as they were, when their rows are among those there were.
LEMMA RequestsStay ==
  ASSUME IndInv, CodesInv, Grows,
         \A p \in Begins : com'[p] \in {com[p], cur[p], None} /\ cur'[p] \in {com[p], cur[p], None}
  PROVE  RequestsInv'
<1>1. ASSUME NEW p \in Begins
      PROVE  (com[p] # None => IsRequest(p, com[p]))' /\ (cur[p] # None => IsRequest(p, cur[p]))'
  <2>1. ASSUME NEW v, v \in {com[p], cur[p], None}, v # None PROVE IsRequest(p, v)'
    <3>1. IsRequest(p, v)
      BY <2>1 DEF CodesInv, RequestsInv
    <3> QED
      BY <3>1, RequestStays
  <2> QED
    BY <2>1
<1> QED
  BY <1>1 DEF RequestsInv

-----------------------------------------------------------------------------
(* A step of a call keeps the codes right.                                 *)

\* What a call that moves must show: the rest is as it was.
LEMMA StepKeepsCodes ==
  ASSUME NEW c \in Calls, IndInv, IndInv', CodesInv, Moves(c), RowsStand(c), Grows,
         DOMAIN since' = Calls, RequestsInv', OpenedInv',
         \A p \in People : writer'[p] = c => ConsentInv(p)',
         \A d \in Calls \ {c} : pc[d] # "idle" => Allowed' \subseteq since'[d],
         com'["client"] = com["client"],
         HandlerInv(c)', CallInv(c)',
         \A a \in sent' : a \in sent \/ SentInv(a)'
  PROVE  CodesInv'
<1>1. ASSUME NEW d \in Calls PROVE HandlerInv(d)' /\ CallInv(d)'
  <2>1. CASE d = c
    BY <2>1
  <2>2. CASE d # c
    <3>1. pc'[d] = pc[d] /\ mine'[d] = mine[d]
      BY <2>2 DEF Moves
    <3>2. HandlerInv(d)'
      BY <3>1, HandlersStay
    <3>3. CallInv(d)
      BY DEF CodesInv
    <3>4. CallInv(d)'
      BY <2>2, <3>1, <3>3 DEF CallInv
    <3> QED
      BY <3>2, <3>4
  <2> QED
    BY <2>1, <2>2
<1>2. ASSUME NEW p \in People PROVE ConsentInv(p)'
  <2>1. p \in Rows /\ ConsentInv(p)
    BY CallsAreSome DEF CodesInv
  <2>2. writer'[p] \in Calls \cup {None}
    BY <2>1 DEF IndInv, TypeOK
  <2>3. CASE writer'[p] \in Calls \ {c}
    <3>1. writer[p] = writer'[p] /\ cur'[p] = cur[p] /\ com'[p] = com[p]
      BY <2>1, <2>3 DEF RowsStand
    <3>2. pc'[writer[p]] = pc[writer[p]] /\ mine'[writer[p]] = mine[writer[p]]
      BY <2>3, <3>1 DEF Moves
    <3> QED
      BY <2>1, <3>1, <3>2 DEF ConsentInv
  <2>4. CASE writer'[p] = None
    BY <2>4 DEF ConsentInv
  <2> QED
    BY <2>2, <2>3, <2>4
<1>3. ASSUME NEW a \in sent' PROVE SentInv(a)'
  BY SentStays
<1> QED
  BY <1>1, <1>2, <1>3 DEF CodesInv

\* Who writes a consent gives a code.
LEMMA ConsentWriter ==
  ASSUME NEW c \in Calls, CodesInv, pc[c] # "give", NEW p \in People
  PROVE  writer[p] # c
  BY CallsAreSome DEF CodesInv, ConsentInv

\* Consents as they were allow what they allowed.
LEMMA AllowedSame ==
  ASSUME CodesInv, Grows, \A p \in People : com'[p] = com[p]
  PROVE  /\ Allowed' = Allowed
         /\ \A d \in Calls : pc[d] # "idle" => Allowed' \subseteq since'[d]
<1>1. Allowed' = Allowed
  BY DEF Allowed
<1> QED
  BY <1>1 DEF Grows, CodesInv, CallInv

\* What a step of c grows.
LEMMA StepGrows ==
  ASSUME NEW c \in Calls, IndInv, Moves(c), pc[c] # "waiting", pc'[c] # "idle", SessionsLast,
         proved \subseteq proved',
         \A d \in Calls : pc[d] # "idle" => since[d] \subseteq since'[d]
  PROVE  Grows
  BY CallsAreSome DEF Grows, Moves

\* A statement that reads.
LEMMA ReadsKeepCodes ==
  ASSUME NEW c \in Calls, IndInv, IndInv', CodesInv, NEW from, NEW to, NEW ask,
         Reads(c, from, to, ask), from \notin {"idle", "waiting", "give"}, to # "idle",
         ask.required = mine[c].required,
         Grows => HandlerInv(c)'
  PROVE  CodesInv'
<1>1. /\ pc[c] = from /\ pc' = [pc EXCEPT ![c] = to] /\ mine' = [mine EXCEPT ![c] = ask]
      /\ UNCHANGED <<com, cur, writer, sent, proved, since>>
  BY DEF Reads, Goto, storage
<1>2. DOMAIN pc = Calls /\ DOMAIN mine = Calls
  BY DEF IndInv, TypeOK
<1>3. Moves(c) /\ RowsStand(c) /\ pc'[c] = to /\ mine'[c] = ask
  BY <1>1, <1>2 DEF Moves, RowsStand
<1>4. Grows
  BY <1>1, <1>3, StepGrows DEF SessionsLast
<1>5. RequestsInv'
  BY <1>1, <1>4, RequestsStay
<1>6. OpenedInv'
  BY <1>1 DEF CodesInv, OpenedInv
<1>7. \A p \in People : writer'[p] # c
  BY <1>1, ConsentWriter
<1>8. CallInv(c)'
  BY <1>1, <1>3, <1>4, AllowedSame DEF CodesInv, CallInv
<1> QED
  BY <1>1, <1>3, <1>4, <1>5, <1>6, <1>7, <1>8, AllowedSame, StepKeepsCodes DEF CodesInv

\* A call that begins.
LEMMA StartsKeepCodes ==
  ASSUME NEW c \in Calls, IndInv, IndInv', CodesInv, NEW to, NEW ask \in Asked,
         Starts(c, to, ask), UNCHANGED storage, to # "idle",
         Grows => HandlerInv(c)'
  PROVE  CodesInv'
<1>1. /\ pc[c] = "idle" /\ pc' = [pc EXCEPT ![c] = to]
      /\ mine' = [mine EXCEPT ![c] = [ask EXCEPT !.required = Requires]]
      /\ since' = [since EXCEPT ![c] = Allowed]
      /\ UNCHANGED <<com, cur, writer, sent, proved>>
  BY DEF Starts, Goto, storage
<1>2. DOMAIN pc = Calls /\ DOMAIN mine = Calls /\ DOMAIN since = Calls
  BY DEF IndInv, TypeOK, CodesInv
<1>3. /\ Moves(c) /\ RowsStand(c) /\ pc'[c] = to /\ mine'[c].required = Requires
      /\ since'[c] = Allowed /\ \A d \in Calls \ {c} : since'[d] = since[d]
  BY <1>1, <1>2 DEF Moves, RowsStand, Asked
<1>4. Grows
  BY <1>1, <1>3, StepGrows DEF SessionsLast
<1>5. RequestsInv'
  BY <1>1, <1>4, RequestsStay
<1>6. OpenedInv'
  BY <1>1 DEF CodesInv, OpenedInv
<1>7. \A p \in People : writer'[p] # c
  BY <1>1, ConsentWriter
<1>8. CallInv(c)'
  BY <1>1, <1>3, <1>4, AllowedSame DEF CallInv, Requires
<1> QED
  BY <1>1, <1>2, <1>3, <1>4, <1>5, <1>6, <1>7, <1>8, AllowedSame, StepKeepsCodes

\* A unit of work that is dropped.
LEMMA DropKeepsCodes ==
  ASSUME NEW c \in Calls, IndInv, IndInv', CodesInv, NEW to \in {"refused", "expired", "failed"},
         Drops(c, to), pc[c] \notin {"idle", "waiting"}
  PROVE  CodesInv'
<1>1. /\ pc' = [pc EXCEPT ![c] = to] /\ mine' = [mine EXCEPT ![c] = Nothing]
      /\ com' = com /\ cur' = [x \in Rows |-> IF writer[x] = c THEN com[x] ELSE cur[x]]
      /\ writer' = [x \in Rows |-> IF writer[x] = c THEN None ELSE writer[x]]
      /\ UNCHANGED <<sent, proved, since>>
  BY DEF Drops, Goto, Rollback, Released
<1>2. DOMAIN pc = Calls /\ DOMAIN mine = Calls /\ writer \in [Rows -> Calls \cup {None}]
  BY DEF IndInv, TypeOK
<1>3. Moves(c) /\ RowsStand(c) /\ pc'[c] = to /\ mine'[c].required = FALSE
  BY <1>1, <1>2, CallsAreSome DEF Moves, RowsStand, Nothing
<1>4. Grows
  BY <1>1, <1>3, StepGrows DEF SessionsLast
<1>5. RequestsInv'
  BY <1>1, <1>4, RequestsStay, CallsAreSome
<1>6. OpenedInv'
  BY <1>1, CallsAreSome DEF CodesInv, OpenedInv
<1>7. \A p \in People : writer'[p] # c
  BY <1>1, CallsAreSome
<1>8. CallInv(c)'
  BY <1>1, <1>3, <1>4, AllowedSame DEF CodesInv, CallInv
<1>9. HandlerInv(c)'
  BY <1>3 DEF HandlerInv, BeginInv, FormInv, AnswerInv, AtPage, AfterOpening, Taking
<1> QED
  BY <1>1, <1>3, <1>4, <1>5, <1>6, <1>7, <1>8, <1>9, AllowedSame, StepKeepsCodes DEF CodesInv

\* A session that is committed again is whose it was.
LEMMA CommitGrows ==
  ASSUME NEW c \in Calls, IndInv, CodesInv, Commit(c), Moves(c),
         pc[c] \notin {"idle", "waiting"}, pc'[c] # "idle", proved' = proved,
         \A d \in Calls : pc[d] # "idle" => since[d] \subseteq since'[d]
  PROVE  Grows /\ RowsStand(c) /\ RequestsInv' /\ OpenedInv' /\ \A p \in People : writer'[p] # c
<1>1. /\ com' = [x \in Rows |-> IF writer[x] = c THEN cur[x] ELSE com[x]] /\ cur' = cur
      /\ writer' = [x \in Rows |-> IF writer[x] = c THEN None ELSE writer[x]]
  BY DEF Commit, Released
<1>2. SessionsLast
  <2> SUFFICES ASSUME NEW s \in AllSessions, com[s] # None
               PROVE com'[s] # None /\ com'[s].person = com[s].person /\ com'[s].page = com[s].page
    BY DEF SessionsLast
  <2>1. s \in Rows
    BY CallsAreSome
  <2>2. writer[s] # None => cur[s] # None /\ cur[s].person = com[s].person /\ cur[s].page = com[s].page
    BY DEF IndInv, Lines, SessionFits, CodesInv, OpenedInv
  <2> QED
    BY <1>1, <2>1, <2>2, CallsAreSome
<1>3. Grows
  BY <1>2, StepGrows
<1>4. RowsStand(c)
  BY <1>1, CallsAreSome DEF RowsStand, IndInv, TypeOK
<1>5. RequestsInv'
  BY <1>1, <1>3, RequestsStay, CallsAreSome
<1>6. OpenedInv'
  <2>1. ASSUME NEW s \in SignIns, com'[s] # None PROVE <<com'[s].page, com'[s].person>> \in proved'
    <3>1. s \in Rows /\ s \in AllSessions
      BY CallsAreSome
    <3>2. com[s] # None
      BY <1>1, <2>1, <3>1, CallsAreSome DEF CodesInv, OpenedInv
    <3>3. com'[s].person = com[s].person /\ com'[s].page = com[s].page
      BY <1>2, <3>1, <3>2 DEF SessionsLast
    <3> QED
      BY <3>2, <3>3 DEF CodesInv, OpenedInv
  <2>2. ASSUME NEW s \in AllSessions, writer'[s] # None
        PROVE  com'[s] # None /\ cur'[s].person = com'[s].person /\ cur'[s].page = com'[s].page
    BY <1>1, <2>2, CallsAreSome DEF CodesInv, OpenedInv
  <2> QED
    BY <2>1, <2>2 DEF OpenedInv
<1>7. \A p \in People : writer'[p] # c
  BY <1>1, CallsAreSome
<1> QED
  BY <1>3, <1>4, <1>5, <1>6, <1>7

\* A COMMIT of what is no consent.
LEMMA CommitKeepsCodes ==
  ASSUME NEW c \in Calls, IndInv, IndInv', CodesInv, Commit(c), NEW to,
         pc' = [pc EXCEPT ![c] = to], mine' = mine, UNCHANGED <<proved, since>>,
         pc[c] \notin {"idle", "waiting", "give"}, to # "idle",
         Grows => HandlerInv(c)',
         \A a \in sent' : a \in sent \/ (Grows => SentInv(a)')
  PROVE  CodesInv'
<1>1. DOMAIN pc = Calls
  BY DEF IndInv, TypeOK
<1>2. Moves(c) /\ pc'[c] = to
  BY <1>1 DEF Moves
<1>3. Grows /\ RowsStand(c) /\ RequestsInv' /\ OpenedInv' /\ \A p \in People : writer'[p] # c
  BY <1>2, CommitGrows
<1>4. \A p \in People \cup {"client"} : com'[p] = com[p]
  BY ConsentWriter, CallsAreSome DEF Commit, IndInv, Lines
<1>5. CallInv(c)'
  BY <1>3, <1>4, AllowedSame DEF CodesInv, CallInv
<1> QED
  BY <1>2, <1>3, <1>4, <1>5, AllowedSame, StepKeepsCodes DEF CodesInv

\* A statement that writes a row.
LEMMA WriteKeepsCodes ==
  ASSUME NEW c \in Calls, IndInv, IndInv', CodesInv, NEW x \in Rows, NEW v, WriteRow(c, x, v),
         NEW to, pc' = [pc EXCEPT ![c] = to], Moves(c), mine'[c].required = mine[c].required,
         UNCHANGED <<sent, proved, since>>,
         pc[c] \notin {"idle", "waiting", "give"}, to # "idle",
         x \in Begins => v = None \/ (Grows => IsRequest(x, v)'),
         x \in AllSessions =>
           com[x] # None /\ v.person = com[x].person /\ v.page = com[x].page,
         x \in People => ConsentInv(x)',
         Grows => HandlerInv(c)'
  PROVE  CodesInv'
<1>1. /\ RowsStand(c) /\ com' = com
      /\ cur' = [cur EXCEPT ![x] = v] /\ writer' = [writer EXCEPT ![x] = c]
  BY WriteIsAlone
<1>2. DOMAIN pc = Calls /\ DOMAIN cur = Rows /\ DOMAIN writer = Rows
  BY DEF IndInv, TypeOK
<1>3. pc'[c] = to
  BY <1>2
<1>4. Grows
  BY <1>1, <1>3, StepGrows DEF SessionsLast
<1>5. RequestsInv'
  <2>1. ASSUME NEW p \in Begins
        PROVE  (com[p] # None => IsRequest(p, com[p]))' /\ (cur[p] # None => IsRequest(p, cur[p]))'
    <3>1. ASSUME NEW w, w \in {com[p], cur[p]}, w # None PROVE IsRequest(p, w)'
      BY <3>1, <1>4, RequestStays DEF CodesInv, RequestsInv
    <3>2. p = x => v = None \/ IsRequest(p, v)'
      BY <1>4
    <3>3. com'[p] = com[p] /\ cur'[p] = IF p = x THEN v ELSE cur[p]
      BY <1>1, <1>2, CallsAreSome
    <3> QED
      BY <3>1, <3>2, <3>3
  <2> QED
    BY <2>1 DEF RequestsInv
<1>6. OpenedInv'
  BY <1>1, <1>2, CallsAreSome DEF CodesInv, OpenedInv
<1>7. \A p \in People : writer'[p] = c => ConsentInv(p)'
  BY <1>1, <1>2, ConsentWriter, CallsAreSome
<1>8. CallInv(c)'
  BY <1>1, <1>3, <1>4, AllowedSame DEF CodesInv, CallInv
<1> QED
  BY <1>1, <1>3, <1>4, <1>5, <1>6, <1>7, <1>8, AllowedSame, StepKeepsCodes DEF CodesInv

\* A row that is inserted, a request or a session that was not there.
LEMMA InsertKeepsCodes ==
  ASSUME NEW c \in Calls, IndInv, IndInv', CodesInv, c \in Begins \cup SignIns, NEW v,
         InsertAndCommit(c, c, v), NEW to, pc' = [pc EXCEPT ![c] = to], Moves(c),
         mine'[c].required = mine[c].required, sent' = sent, since' = since,
         proved \subseteq proved', com[c] = None,
         pc[c] \notin Writing \cup {"idle", "waiting"}, to # "idle",
         c \in Begins => (Grows => IsRequest(c, v)'),
         c \in SignIns => <<v.page, v.person>> \in proved',
         Grows => HandlerInv(c)'
  PROVE  CodesInv'
<1>r. c \in Rows /\ DOMAIN pc = Calls /\ DOMAIN cur = Rows /\ writer \in [Rows -> Calls \cup {None}]
  BY CallsAreSome DEF IndInv, TypeOK
<1>w. \A x \in Rows : writer[x] # c
  <2>1. \A p \in Begins : writer[p] # c
    BY SeesCommitted
  <2>2. \A s \in AllSessions : writer[s] # c
    BY SeesCommitted
  <2>3. \A p \in People : writer[p] # c
    BY ConsentWriter DEF Writing, Taking
  <2>4. writer["client"] # c
    BY CallsAreSome DEF IndInv, Lines
  <2> QED
    BY <2>1, <2>2, <2>3, <2>4, RowsAssumption
<1>a. writer[c] = None
  BY <1>w, CallsAreSome DEF IndInv, Lines, PageFits, SessionFits, Writing
<1>1. /\ writer' = writer /\ cur' = [cur EXCEPT ![c] = v]
      /\ \A x \in Rows : com'[x] = IF x = c THEN v ELSE com[x]
      /\ \A x \in Rows : cur'[x] = IF x = c THEN v ELSE cur[x]
  BY <1>r, <1>w DEF InsertAndCommit, Released
<1>3. pc'[c] = to /\ RowsStand(c)
  BY <1>r, <1>1, <1>a, CallsAreSome DEF RowsStand
<1>4. Grows
  <2>1. SessionsLast
    BY <1>1, CallsAreSome DEF SessionsLast
  <2> QED
    BY <1>3, <2>1, StepGrows
<1>5. RequestsInv'
  <2>1. ASSUME NEW p \in Begins
        PROVE  (com[p] # None => IsRequest(p, com[p]))' /\ (cur[p] # None => IsRequest(p, cur[p]))'
    <3>1. ASSUME NEW w, w \in {com[p], cur[p]}, w # None PROVE IsRequest(p, w)'
      BY <3>1, <1>4, RequestStays DEF CodesInv, RequestsInv
    <3>2. p = c => IsRequest(p, v)'
      BY <1>4
    <3>3. /\ com'[p] = IF p = c THEN v ELSE com[p]
          /\ cur'[p] = IF p = c THEN v ELSE cur[p]
      BY <1>1, CallsAreSome
    <3> QED
      BY <3>1, <3>2, <3>3
  <2> QED
    BY <2>1 DEF RequestsInv
<1>6. OpenedInv'
  BY <1>1, <1>a, CallsAreSome DEF CodesInv, OpenedInv
<1>7. \A p \in People : writer'[p] # c
  BY <1>1, <1>w, CallsAreSome
<1>8. \A p \in People \cup {"client"} : com'[p] = com[p]
  BY <1>1, CallsAreSome, TablesAreApart
<1>9. CallInv(c)'
  BY <1>3, <1>4, <1>8, AllowedSame DEF CodesInv, CallInv
<1> QED
  BY <1>3, <1>4, <1>5, <1>6, <1>7, <1>8, <1>9, AllowedSame, StepKeepsCodes DEF CodesInv

-----------------------------------------------------------------------------
(* begin_authorization.                                                    *)

\* trust_request
LEMMA BeginAuthorizationCodes ==
  ASSUME NEW c \in Begins, IndInv, IndInv', CodesInv, BeginAuthorization(c)
  PROVE  CodesInv'
<1>1. PICK a \in Asks[c], ticket \in Tickets \cup {None} :
        Starts(c, IF Serves(com["client"]) THEN "find" ELSE "refused",
               [Nothing EXCEPT !.scopes = a.scopes, !.proof = a.proof, !.hint = a.hint,
                               !.ticket = ticket, !.read = com["client"]])
  BY DEF BeginAuthorization
<1> DEFINE to == IF Serves(com["client"]) THEN "find" ELSE "refused"
           ask == [Nothing EXCEPT !.scopes = a.scopes, !.proof = a.proof, !.hint = a.hint,
                                  !.ticket = ticket, !.read = com["client"]]
<1>2. a.scopes \in AskedScopes
  BY DEF AskedScopes
<1>3. a.proof \in Proof /\ a.hint \in People \cup {None}
  BY SignInAssumption DEF Proof
<1>4. ticket \in AllSessions \cup {None}
  BY DEF Tickets
<1>5. com["client"] \in ClientRow \cup {None}
  BY CallsAreSome DEF IndInv, TypeOK, RowFits
<1>6. ask \in Asked /\ ask.proof = a.proof /\ ask.read = com["client"]
  BY <1>2, <1>3, <1>4, <1>5 DEF Asked, Nothing, AskedScopes
<1>7. to \in {"find", "refused"} /\ (to = "find" => com["client"] \in ClientRow)
  BY <1>5 DEF Serves
<1>8. Starts(c, to, ask) /\ UNCHANGED storage
  BY <1>1 DEF BeginAuthorization
<1>9. c \in Calls /\ DOMAIN pc = Calls /\ DOMAIN mine = Calls
  BY CallsAreSome DEF IndInv, TypeOK
<1> HIDE DEF to, ask
<1>10. /\ pc'[c] = to /\ mine'[c].proof = a.proof /\ mine'[c].read = com["client"]
       /\ mine'[c].required = Requires
  BY <1>6, <1>8, <1>9 DEF Starts, Goto, Asked
<1>11. BeginInv(c)'
  BY <1>3, <1>7, <1>10 DEF BeginInv, Requires
<1>12. HandlerInv(c)'
  BY <1>11, TablesAreApart DEF HandlerInv
<1> QED
  BY <1>6, <1>7, <1>8, <1>9, <1>12, StartsKeepCodes

\* What a call of begin_authorization has.
LEMMA BeginHas ==
  ASSUME NEW c \in Begins, IndInv, CodesInv
  PROVE  /\ c \in Calls /\ mine[c] \in Asked /\ BeginInv(c)
         /\ DOMAIN pc = Calls /\ DOMAIN mine = Calls /\ mine[c].ticket \in AllSessions \cup {None}
<1>1. c \in Calls /\ mine[c] \in Asked /\ DOMAIN pc = Calls /\ DOMAIN mine = Calls
  BY CallsAreSome DEF IndInv, TypeOK
<1>2. BeginInv(c)
  BY <1>1 DEF CodesInv, HandlerInv
<1> QED
  BY <1>1, <1>2 DEF Asked

\* find_answering_session
LEMMA FindSessionCodes ==
  ASSUME NEW c \in Begins, IndInv, IndInv', CodesInv, FindSession(c)
  PROVE  CodesInv'
<1> DEFINE answering == IF SessionAnswers(c) THEN mine[c].ticket ELSE None
           to == IF answering # None THEN "judge"
                 ELSE IF mine[c].proof.silent THEN "told" ELSE "keep"
           ask == [mine[c] EXCEPT !.ticket = answering]
<1>1. Reads(c, "find", to, ask) /\ pc[c] = "find"
  BY DEF FindSession, Reads
<1>2. /\ c \in Calls /\ mine[c] \in Asked /\ BeginInv(c)
      /\ DOMAIN pc = Calls /\ DOMAIN mine = Calls /\ mine[c].ticket \in AllSessions \cup {None}
  BY BeginHas
<1>3. answering # None =>
        /\ answering = mine[c].ticket /\ com[answering] # None /\ ~mine[c].proof.fresh
        /\ mine[c].hint # None => com[answering].person = mine[c].hint
  BY <1>1, <1>2, SeesCommitted DEF SessionAnswers, IsActive, Writing, Taking
<1>4. /\ ask.ticket = answering /\ ask.proof = mine[c].proof /\ ask.hint = mine[c].hint
      /\ ask.read = mine[c].read /\ ask.required = mine[c].required
  BY <1>2 DEF Asked
<1>5. to \in {"judge", "told", "keep"} /\ (to = "judge" => answering # None)
  OBVIOUS
<1>6. pc'[c] = to /\ mine'[c] = ask /\ com' = com
  BY <1>1, <1>2 DEF Reads, Goto, storage
<1> HIDE DEF answering, to, ask
<1>7. BeginInv(c)'
  BY <1>1, <1>2, <1>3, <1>4, <1>5, <1>6 DEF BeginInv
<1>8. HandlerInv(c)'
  BY <1>7, TablesAreApart DEF HandlerInv
<1> QED
  BY <1>1, <1>2, <1>4, <1>5, <1>8, ReadsKeepCodes

\* is_consent_owed_by: what is not owed was allowed at that time.
LEMMA JudgeConsentCodes ==
  ASSUME NEW c \in Begins, IndInv, IndInv', CodesInv, JudgeConsent(c)
  PROVE  CodesInv'
<1> DEFINE owner == com[mine[c].ticket].person
           owed == ConsentOwed(mine[c].read.requires, com[owner], mine[c].proof.consent,
                               mine[c].scopes)
<1>1. /\ c \in Calls /\ mine[c] \in Asked /\ BeginInv(c)
      /\ DOMAIN pc = Calls /\ DOMAIN mine = Calls /\ mine[c].ticket \in AllSessions \cup {None}
  BY BeginHas
<1>2. PICK to \in {"grant", "told", "keep"} :
        Reads(c, "judge", to, mine[c]) /\ (to = "grant" => ~owed)
  BY DEF JudgeConsent
<1>3. pc[c] = "judge" /\ pc'[c] = to /\ mine'[c] = mine[c] /\ com' = com /\ since' = since
  BY <1>1, <1>2 DEF Reads, Goto, storage
<1>4. com[mine[c].ticket] \in SessionRow /\ owner \in People
  BY <1>1, <1>3, RowsFit DEF BeginInv, SessionRow
<1>5. to = "grant" => ~mine[c].proof.consent /\ HasAllowed(c, owner, mine[c].scopes)
  <2> SUFFICES ASSUME to = "grant"
               PROVE  ~mine[c].proof.consent /\ HasAllowed(c, owner, mine[c].scopes)
    OBVIOUS
  <2>1. /\ ~mine[c].proof.consent
        /\ mine[c].read.requires => com[owner] # None /\ mine[c].scopes \subseteq com[owner]
    BY <1>2 DEF ConsentOwed
  <2>2. mine[c].required => mine[c].read.requires
    BY <1>1, <1>3 DEF BeginInv
  <2>3. com[owner] # None /\ mine[c].scopes \subseteq com[owner] =>
          ({owner} \X mine[c].scopes) \subseteq Allowed
    BY <1>4 DEF Allowed
  <2>4. Allowed \subseteq since[c]
    BY <1>1, <1>3 DEF CodesInv, CallInv
  <2> QED
    BY <2>1, <2>2, <2>3, <2>4 DEF HasAllowed
<1>6. BeginInv(c)'
  <2>1. to = "grant" => HasAllowed(c, com[mine[c].ticket].person, mine[c].scopes)'
    BY <1>3, <1>5 DEF HasAllowed
  <2> QED
    BY <1>1, <1>3, <1>5, <2>1 DEF BeginInv
<1>7. HandlerInv(c)'
  BY <1>6, TablesAreApart DEF HandlerInv
<1> QED
  BY <1>1, <1>2, <1>7, ReadsKeepCodes

\* leave_request_waiting
LEMMA KeepPendingCodes ==
  ASSUME NEW c \in Begins, IndInv, IndInv', CodesInv, KeepPendingAuthorization(c)
  PROVE  CodesInv'
<1>0. PICK v : v = [scopes |-> mine[c].scopes, proof |-> mine[c].proof, hint |-> mine[c].hint,
                    first |-> None, key |-> None, waitsIn |-> mine[c].ticket]
  OBVIOUS
<1>1. /\ c \in Calls /\ mine[c] \in Asked /\ BeginInv(c)
      /\ DOMAIN pc = Calls /\ DOMAIN mine = Calls /\ mine[c].ticket \in AllSessions \cup {None}
  BY BeginHas
<1>2. /\ pc[c] = "keep" /\ InsertAndCommit(c, c, v) /\ pc' = [pc EXCEPT ![c] = "waiting"]
      /\ mine' = mine /\ sent' = sent /\ proved' = proved /\ since' = since
  BY <1>0 DEF KeepPendingAuthorization, Goto
<1>3. v \in RequestRow
  BY <1>0, <1>1 DEF RequestRow, Asked
<1>4. Moves(c) /\ pc'[c] = "waiting"
  BY <1>1, <1>2 DEF Moves
<1>5. com[c] = None
  BY <1>2 DEF IndInv, Lines, PageFits
<1>6. /\ v.hint = mine[c].hint /\ v.scopes = mine[c].scopes /\ v.proof = mine[c].proof
      /\ v.first = None /\ v.waitsIn = mine[c].ticket
  BY <1>0
<1>7. ASSUME Grows PROVE IsRequest(c, v)'
  <2>1. mine[c].ticket # None => AnswersFor(c, mine[c].ticket)'
    BY <1>1, <1>2, <1>7 DEF BeginInv, AnswersFor, Grows, SessionsLast
  <2> QED
    BY <1>2, <1>3, <1>4, <1>6, <2>1 DEF IsRequest
<1>8. HandlerInv(c)'
  BY <1>4, TablesAreApart DEF HandlerInv, BeginInv
<1> QED
  BY <1>1, <1>2, <1>4, <1>5, <1>7, <1>8, InsertKeepsCodes, TablesAreApart DEF Writing, Taking

\* What a call sends.
LEMMA SendsWhat ==
  ASSUME NEW c, NEW page, NEW kind, NEW session, NEW asked, Sends(c, page, kind, session, asked),
         NEW a \in sent', a \notin sent
  PROVE  /\ a.by = c /\ a.page = page /\ a.kind = kind /\ a.session = session
         /\ a.person = IF session = None THEN None ELSE Sees(c, session).person
         /\ a.scopes = asked.scopes /\ a.hint = asked.hint /\ a.proof = asked.proof
         /\ a.required = mine[c].required
<1> DEFINE b == [by |-> c, page |-> page, kind |-> kind, session |-> session,
                 person |-> IF session = None THEN None ELSE Sees(c, session).person,
                 scopes |-> asked.scopes, hint |-> asked.hint, proof |-> asked.proof,
                 required |-> mine[c].required]
<1>1. a = b
  BY DEF Sends
<1>2. /\ b.by = c /\ b.page = page /\ b.kind = kind /\ b.session = session
      /\ b.person = IF session = None THEN None ELSE Sees(c, session).person
      /\ b.scopes = asked.scopes /\ b.hint = asked.hint /\ b.proof = asked.proof
      /\ b.required = mine[c].required
  OBVIOUS
<1> QED
  BY <1>1, <1>2

\* The session of the browser gives the code.
LEMMA IssueFromSessionCodes ==
  ASSUME NEW c \in Begins, IndInv, IndInv', CodesInv, IssueFromSession(c)
  PROVE  CodesInv'
<1>1. /\ c \in Calls /\ mine[c] \in Asked /\ BeginInv(c)
      /\ DOMAIN pc = Calls /\ DOMAIN mine = Calls /\ mine[c].ticket \in AllSessions \cup {None}
  BY BeginHas
<1>2. /\ pc[c] = "grant" /\ Commit(c) /\ pc' = [pc EXCEPT ![c] = "told"] /\ mine' = mine
      /\ Sends(c, None, "code", mine[c].ticket, mine[c]) /\ proved' = proved /\ since' = since
  BY DEF IssueFromSession, Goto
<1>3. pc'[c] = "told"
  BY <1>1, <1>2
<1>4. HandlerInv(c)'
  BY <1>3, TablesAreApart DEF HandlerInv, BeginInv
<1>5. ASSUME NEW a \in sent', a \notin sent, Grows PROVE SentInv(a)'
  <2>1. /\ a.by = c /\ a.page = None /\ a.session = mine[c].ticket
        /\ a.person = IF mine[c].ticket = None THEN None ELSE Sees(c, mine[c].ticket).person
        /\ a.scopes = mine[c].scopes /\ a.hint = mine[c].hint /\ a.proof = mine[c].proof
        /\ a.required = mine[c].required
    BY <1>2, <1>5, SendsWhat
  <2>2. mine[c].ticket \in AllSessions /\ mine[c].ticket # None /\ com[mine[c].ticket] # None
    BY <1>1, <1>2 DEF BeginInv
  <2>3. a.person = com[mine[c].ticket].person
    BY <1>1, <1>2, <2>1, <2>2, SeesCommitted DEF Writing, Taking
  <2>4. com'[mine[c].ticket] # None /\ a.person = com'[mine[c].ticket].person
    BY <1>5, <2>2, <2>3 DEF Grows, SessionsLast
  <2>5. a.required => ({a.person} \X a.scopes) \subseteq since[c]
    BY <1>1, <1>2, <2>1, <2>3 DEF BeginInv, HasAllowed
  <2>6. CodeInv(a)'
    BY <1>1, <1>2, <2>1, <2>2, <2>3, <2>4, <2>5 DEF BeginInv, CodeInv
  <2> QED
    BY <1>1, <1>3, <2>1, <2>6 DEF SentInv
<1> QED
  BY <1>1, <1>2, <1>4, <1>5, CommitKeepsCodes

-----------------------------------------------------------------------------
(* finish_sign_in.                                                         *)

\* What a form has.
LEMMA FormHas ==
  ASSUME NEW c \in SignIns, IndInv, CodesInv
  PROVE  /\ c \in Calls /\ mine[c] \in Asked /\ FormInv(c) /\ pc[c] \in SignInSteps
         /\ DOMAIN pc = Calls /\ DOMAIN mine = Calls
         /\ pc[c] \in AtPage => /\ mine[c].page \in Begins /\ IsRequest(mine[c].page, mine[c].read)
                                /\ mine[c].page # c
<1>1. c \in Calls /\ mine[c] \in Asked /\ DOMAIN pc = Calls /\ DOMAIN mine = Calls
  BY CallsAreSome DEF IndInv, TypeOK
<1>2. FormInv(c) /\ CallFits(c)
  BY <1>1 DEF CodesInv, HandlerInv, IndInv, Lines
<1> QED
  BY <1>1, <1>2, TablesAreApart DEF CallFits, FormInv, AtPage

\* A form that moves and keeps its request has it still.
LEMMA FormMoves ==
  ASSUME NEW c \in SignIns, IndInv, CodesInv, Grows, pc[c] \in AtPage, Moves(c),
         mine'[c].page = mine[c].page, mine'[c].read = mine[c].read
  PROVE  /\ IsRequest(mine[c].page, mine[c].read)' /\ mine'[mine[c].page] = mine[mine[c].page]
<1>1. mine[c].page \in Begins /\ IsRequest(mine[c].page, mine[c].read) /\ mine[c].page # c
  BY FormHas
<1> QED
  BY <1>1, RequestStays, CallsAreSome DEF Moves

\* The request of a form is read.
LEMMA ReadPendingCodes ==
  ASSUME NEW c \in SignIns, IndInv, IndInv', CodesInv, ReadPending(c)
  PROVE  CodesInv'
<1>1. /\ c \in Calls /\ mine[c] \in Asked /\ DOMAIN pc = Calls /\ DOMAIN mine = Calls
  BY FormHas
<1>2. PICK page \in Begins, same \in BOOLEAN, way \in {"password", "code", "key"} :
        IF same /\ IsWaiting(c, page)
        THEN Starts(c, "prove", [Nothing EXCEPT !.page = page, !.way = way, !.read = com[page]])
        ELSE Starts(c, "expired", Nothing)
  BY DEF ReadPending
<1>3. CASE same /\ IsWaiting(c, page)
  <2> DEFINE ask == [Nothing EXCEPT !.page = page, !.way = way, !.read = com[page]]
  <2>1. com[page] \in RequestRow /\ com[page] # None
    BY <1>1, <1>3, SeesCommitted, RowsFit DEF IsWaiting, ReadPending, Writing, Taking
  <2>2. ask \in Asked /\ ask.page = page /\ ask.read = com[page]
    BY <2>1 DEF Asked, Nothing, AskedScopes
  <2>3. Starts(c, "prove", ask) /\ UNCHANGED storage
    BY <1>2, <1>3 DEF ReadPending
  <2> HIDE DEF ask
  <2>4. pc'[c] = "prove" /\ mine'[c].page = page /\ mine'[c].read = com[page]
    BY <1>1, <2>2, <2>3 DEF Starts, Goto, Asked
  <2>5. IsRequest(page, com[page])
    BY <2>1 DEF CodesInv, RequestsInv
  <2>6. ASSUME Grows PROVE FormInv(c)'
    <3>1. IsRequest(mine[c].page, mine[c].read)'
      BY <2>4, <2>5, <2>6, RequestStays
    <3> QED
      BY <2>4, <3>1 DEF FormInv, AfterOpening
  <2>7. Grows => HandlerInv(c)'
    BY <2>6, TablesAreApart DEF HandlerInv
  <2> QED
    BY <1>1, <2>2, <2>3, <2>7, StartsKeepCodes
<1>4. CASE ~(same /\ IsWaiting(c, page))
  <2>1. Starts(c, "expired", Nothing) /\ UNCHANGED storage
    BY <1>2, <1>4 DEF ReadPending
  <2>2. Nothing \in Asked
    BY DEF Nothing, Asked, AskedScopes
  <2>3. pc'[c] = "expired"
    BY <1>1, <2>1 DEF Starts, Goto
  <2>4. HandlerInv(c)'
    BY <2>3, TablesAreApart DEF HandlerInv, FormInv, AtPage, AfterOpening
  <2> QED
    BY <1>1, <2>1, <2>2, <2>4, StartsKeepCodes
<1> QED
  BY <1>3, <1>4

\* open_session, for who proved their password on the page.
LEMMA OpensCodes ==
  ASSUME NEW c \in SignIns, IndInv, IndInv', CodesInv, NEW p \in People, pc[c] = "prove",
         Opens(c, p), sent' = sent, since' = since, proved \subseteq proved',
         <<mine[c].page, p>> \in proved'
  PROVE  CodesInv'
<1>1. /\ c \in Calls /\ mine[c] \in Asked /\ DOMAIN pc = Calls /\ DOMAIN mine = Calls
      /\ c \in Rows
  BY FormHas, CallsAreSome
<1>2. PICK v : v = [person |-> p, active |-> TRUE, page |-> mine[c].page]
  OBVIOUS
<1>3. /\ InsertAndCommit(c, c, v) /\ pc' = [pc EXCEPT ![c] = "terms"]
      /\ mine' = [mine EXCEPT ![c].person = p]
  BY <1>2 DEF Opens, Goto
<1>4. v.person = p /\ v.page = mine[c].page /\ v # None
  <2>1. mine[c].page \in Begins \cup {None}
    BY <1>1 DEF Asked
  <2>2. v \in SessionRow
    BY <1>2, <2>1 DEF SessionRow
  <2> QED
    BY <1>2, <2>2, RowsAssumption
<1>5. com[c] = None
  BY DEF IndInv, Lines, FormFits, Unopened
<1>6. /\ Moves(c) /\ pc'[c] = "terms" /\ mine'[c].person = p /\ mine'[c].page = mine[c].page
      /\ mine'[c].read = mine[c].read /\ mine'[c].required = mine[c].required
  BY <1>1, <1>3 DEF Moves, Asked
<1>7. com'[c] = v
  BY <1>1, <1>3 DEF InsertAndCommit
<1>8. ASSUME Grows PROVE FormInv(c)'
  <2>1. IsRequest(mine[c].page, mine[c].read)'
    BY <1>6, <1>8, FormMoves DEF AtPage, SignInSteps
  <2> QED
    BY <1>4, <1>6, <1>7, <2>1 DEF FormInv
<1>9. Grows => HandlerInv(c)'
  BY <1>8, TablesAreApart DEF HandlerInv
<1> QED
  BY <1>1, <1>3, <1>4, <1>5, <1>6, <1>9, InsertKeepsCodes, TablesAreApart DEF Writing, Taking

\* sign_in_with_password
LEMMA ProvePasswordCodes ==
  ASSUME NEW c \in SignIns, IndInv, IndInv', CodesInv, ProvePassword(c)
  PROVE  CodesInv'
<1>1. PICK p \in People :
        /\ pc[c] = "prove" /\ sent' = sent /\ since' = since
        /\ proved' = proved \cup {<<mine[c].page, p>>}
        /\ \/ Opens(c, p)
           \/ Goto(c, "mark") /\ mine' = [mine EXCEPT ![c].person = p] /\ UNCHANGED storage
  BY DEF ProvePassword
<1>2. CASE Opens(c, p)
  BY <1>1, <1>2, OpensCodes
<1>3. CASE Goto(c, "mark") /\ mine' = [mine EXCEPT ![c].person = p] /\ UNCHANGED storage
  <2>1. /\ c \in Calls /\ mine[c] \in Asked /\ DOMAIN pc = Calls /\ DOMAIN mine = Calls
    BY FormHas
  <2>2. /\ Moves(c) /\ pc'[c] = "mark" /\ mine'[c].person = p /\ mine'[c].page = mine[c].page
        /\ mine'[c].read = mine[c].read /\ mine'[c].required = mine[c].required
        /\ com' = com /\ cur' = cur /\ writer' = writer
    BY <1>3, <2>1 DEF Moves, Goto, Asked, storage
  <2>3. Grows
    BY <1>1, <2>1, <2>2, StepGrows DEF SessionsLast
  <2>4. IsRequest(mine[c].page, mine[c].read)'
    BY <1>1, <2>2, <2>3, FormMoves DEF AtPage, SignInSteps
  <2>5. FormInv(c)'
    BY <1>1, <2>2, <2>4 DEF FormInv, AfterOpening
  <2>6. HandlerInv(c)'
    BY <2>5, TablesAreApart DEF HandlerInv
  <2>7. RequestsInv'
    BY <2>2, <2>3, RequestsStay
  <2>8. OpenedInv'
    BY <1>1, <2>2 DEF CodesInv, OpenedInv
  <2>9. \A q \in People : writer'[q] # c
    BY <1>1, <2>1, <2>2, ConsentWriter
  <2>10. CallInv(c)'
    BY <1>1, <2>1, <2>2, <2>3, AllowedSame DEF CodesInv, CallInv
  <2>11. RowsStand(c)
    BY <2>2 DEF RowsStand
  <2> QED
    BY <1>1, <2>1, <2>2, <2>3, <2>6, <2>7, <2>8, <2>9, <2>10, <2>11, AllowedSame, StepKeepsCodes
    DEF CodesInv
<1> QED
  BY <1>1, <1>2, <1>3

\* finish_sign_in_with_code and finish_sign_in_with_key
LEMMA ProveFactorCodes ==
  ASSUME NEW c \in SignIns, IndInv, IndInv', CodesInv, ProveFactor(c)
  PROVE  CodesInv'
<1>1. /\ pc[c] = "prove" /\ mine[c].read.first # None /\ Opens(c, mine[c].read.first)
      /\ UNCHANGED <<sent, proved, since>>
  BY DEF ProveFactor
<1>2. IsRequest(mine[c].page, mine[c].read)
  BY <1>1, FormHas DEF AtPage, SignInSteps
<1>3. mine[c].read.first \in People /\ <<mine[c].page, mine[c].read.first>> \in proved
  BY <1>1, <1>2 DEF IsRequest, RequestRow
<1> QED
  BY <1>1, <1>3, OpensCodes

\* mark_first_factor, of who proved their password on the page.
LEMMA MarkFirstFactorCodes ==
  ASSUME NEW c \in SignIns, IndInv, IndInv', CodesInv, MarkFirstFactor(c)
  PROVE  CodesInv'
<1>1. pc[c] = "mark"
  BY DEF MarkFirstFactor
<1>2. /\ c \in Calls /\ mine[c] \in Asked /\ FormInv(c) /\ DOMAIN pc = Calls
      /\ mine[c].page \in Begins /\ mine[c].page \in Rows
  BY <1>1, FormHas, CallsAreSome DEF AtPage, SignInSteps
<1>3. mine[c].person \in People
  BY <1>1, <1>2 DEF IndInv, Lines, CallFits
<1>4. PICK v : v = [cur[mine[c].page] EXCEPT
                      !.first = mine[c].person,
                      !.key = IF "key" \in Holds[mine[c].person] THEN mine[c].person ELSE None]
  OBVIOUS
<1>5. CASE IsWaiting(c, mine[c].page) /\ Writes(c, "mark", "marked", mine[c].page, v) /\ mine' = mine
  <2>1. /\ WriteRow(c, mine[c].page, v) /\ MayWrite(c, mine[c].page)
        /\ pc' = [pc EXCEPT ![c] = "marked"] /\ UNCHANGED <<sent, proved, since>>
    BY <1>5 DEF Writes, WriteRow, Goto
  <2>2. cur[mine[c].page] \in RequestRow /\ cur[mine[c].page] # None
    BY <1>1, <1>2, <1>5, <2>1, WaitingRow DEF Writing, Taking
  <2>3. IsRequest(mine[c].page, cur[mine[c].page])
    BY <1>2, <2>2 DEF CodesInv, RequestsInv
  <2>4. /\ v \in RequestRow /\ v.first = mine[c].person /\ v.hint = cur[mine[c].page].hint
        /\ v.scopes = cur[mine[c].page].scopes /\ v.proof = cur[mine[c].page].proof
        /\ v.waitsIn = cur[mine[c].page].waitsIn
    BY <1>3, <1>4, <2>2 DEF RequestRow
  <2>5. IsRequest(mine[c].page, v)
    BY <1>1, <1>2, <2>3, <2>4 DEF IsRequest, FormInv
  <2>6. Moves(c) /\ pc'[c] = "marked"
    BY <1>2, <1>5, <2>1 DEF Moves
  <2>7. ASSUME Grows PROVE FormInv(c)'
    <3>1. IsRequest(mine[c].page, mine[c].read)'
      BY <1>1, <1>5, <2>6, <2>7, FormMoves DEF AtPage, SignInSteps
    <3> QED
      BY <1>5, <2>6, <3>1 DEF FormInv, AfterOpening
  <2>8. Grows => HandlerInv(c)'
    BY <2>7, TablesAreApart DEF HandlerInv
  <2>9. ASSUME NEW q \in Begins, q = mine[c].page, Grows PROVE IsRequest(q, v)'
    BY <2>5, <2>9, RequestStays
  <2>10. PICK q \in Begins : q = mine[c].page
    BY <1>2
  <2> QED
    BY <1>1, <1>2, <1>5, <2>1, <2>6, <2>8, <2>9, <2>10, WriteKeepsCodes, TablesAreApart
<1>6. CASE Drops(c, "expired")
  BY <1>1, <1>2, <1>6, DropKeepsCodes
<1> QED
  BY <1>4, <1>5, <1>6 DEF MarkFirstFactor

\* A form that commits and goes on.
LEMMA FormCommitCodes ==
  ASSUME NEW c \in SignIns, IndInv, IndInv', CodesInv, Commit(c),
         NEW to \in {"asked", "consent", "done"}, pc' = [pc EXCEPT ![c] = to], mine' = mine,
         UNCHANGED <<proved, since>>, pc[c] \in AtPage,
         to # "asked" => pc[c] \in AfterOpening,
         \A a \in sent' : a \in sent \/ (Grows => SentInv(a)')
  PROVE  CodesInv'
<1>1. c \in Calls /\ DOMAIN pc = Calls /\ FormInv(c)
  BY FormHas
<1>2. Moves(c) /\ pc'[c] = to
  BY <1>1 DEF Moves
<1>3. ASSUME Grows PROVE FormInv(c)'
  <2>1. IsRequest(mine[c].page, mine[c].read)'
    BY <1>2, <1>3, FormMoves
  <2>2. to # "asked" =>
          com'[c] # None /\ com'[c].person = mine[c].person /\ com'[c].page = mine[c].page
    BY <1>1, <1>3, CallsAreSome DEF FormInv, Grows, SessionsLast
  <2> QED
    BY <1>2, <2>1, <2>2 DEF FormInv, AfterOpening
<1>4. Grows => HandlerInv(c)'
  BY <1>3, TablesAreApart DEF HandlerInv
<1> QED
  BY <1>1, <1>4, CommitKeepsCodes DEF AtPage, SignInSteps

\* The commit of a first factor, or of a consent that is owed.
LEMMA CommitMarkCodes ==
  ASSUME NEW c \in SignIns, IndInv, IndInv', CodesInv, CommitMark(c) \/ CommitOwed(c)
  PROVE  CodesInv'
  BY FormCommitCodes DEF CommitMark, CommitOwed, Commits, Goto, AtPage, SignInSteps, AfterOpening

\* is_consent_owed_after_sign_in: what is not owed was allowed at that time.
LEMMA ReadTermsCodes ==
  ASSUME NEW c \in SignIns, IndInv, IndInv', CodesInv, ReadTerms(c)
  PROVE  CodesInv'
<1>1. PICK to \in {"owe", "take"} :
        /\ Reads(c, "terms", to, mine[c])
        /\ to = "owe" <=> ~HintedAtAnother(c, mine[c].read) /\ OwedAfterSignIn(c)
  BY DEF ReadTerms
<1>2. /\ c \in Calls /\ mine[c] \in Asked /\ FormInv(c) /\ DOMAIN pc = Calls /\ DOMAIN mine = Calls
      /\ pc[c] = "terms" /\ mine[c].page \in Begins /\ IsRequest(mine[c].page, mine[c].read)
  BY <1>1, FormHas DEF Reads, AtPage, SignInSteps
<1>3. /\ pc'[c] = to /\ mine'[c] = mine[c] /\ com' = com /\ since' = since /\ Moves(c)
  BY <1>1, <1>2 DEF Reads, Goto, storage, Moves
<1>4. mine[c].person \in People
  <2>1. com[c] \in SessionRow /\ com[c].person = mine[c].person
    BY <1>2, RowsFit, CallsAreSome DEF FormInv, AfterOpening
  <2> QED
    BY <2>1 DEF SessionRow
<1>5. NamesAnother(c) <=> HintedAtAnother(c, mine[c].read)
  BY <1>2 DEF NamesAnother, HintedAtAnother, IsRequest
<1>6. ASSUME to = "take", ~NamesAnother(c)
      PROVE  /\ ~mine[mine[c].page].proof.consent
             /\ HasAllowed(c, mine[c].person, mine[mine[c].page].scopes)
  <2>1. ~OwedAfterSignIn(c)
    BY <1>1, <1>5, <1>6
  <2>2. /\ ~mine[c].read.proof.consent /\ com["client"] # None
        /\ com["client"].requires =>
             com[mine[c].person] # None /\ mine[c].read.scopes \subseteq com[mine[c].person]
    BY <2>1 DEF OwedAfterSignIn, ConsentOwed
  <2>3. mine[c].required => com["client"].requires
    BY <1>2, <2>2 DEF CodesInv, CallInv
  <2>4. com[mine[c].person] # None /\ mine[c].read.scopes \subseteq com[mine[c].person] =>
          ({mine[c].person} \X mine[c].read.scopes) \subseteq Allowed
    BY <1>4 DEF Allowed
  <2>5. Allowed \subseteq since[c]
    BY <1>2 DEF CodesInv, CallInv
  <2>6. mine[c].read.scopes = mine[mine[c].page].scopes /\ mine[c].read.proof = mine[mine[c].page].proof
    BY <1>2 DEF IsRequest
  <2> QED
    BY <2>2, <2>3, <2>4, <2>5, <2>6 DEF HasAllowed
<1>7. ASSUME Grows PROVE FormInv(c)'
  <2>1. IsRequest(mine[c].page, mine[c].read)' /\ mine'[mine[c].page] = mine[mine[c].page]
    BY <1>2, <1>3, <1>7, FormMoves DEF AtPage, SignInSteps
  <2>2. com[c] # None /\ com[c].person = mine[c].person /\ com[c].page = mine[c].page
    BY <1>2 DEF FormInv, AfterOpening
  <2>3. NamesAnother(c)' <=> NamesAnother(c)
    BY <1>3, <2>1 DEF NamesAnother
  <2>4. to = "take" /\ ~NamesAnother(c) =>
          /\ ~mine[mine[c].page].proof.consent
          /\ HasAllowed(c, mine[c].person, mine[mine[c].page].scopes)'
    BY <1>3, <1>6, <2>1 DEF HasAllowed
  <2> QED
    BY <1>1, <1>3, <1>5, <2>1, <2>2, <2>3, <2>4 DEF FormInv
<1>8. Grows => HandlerInv(c)'
  BY <1>7, TablesAreApart DEF HandlerInv
<1> QED
  BY <1>1, <1>2, <1>8, ReadsKeepCodes

\* A form that lost its request.
LEMMA OrphanCodes ==
  ASSUME NEW c \in SignIns, IndInv, IndInv', CodesInv, NEW from \in {"owe", "take"},
         Reads(c, from, "orphan", mine[c])
  PROVE  CodesInv'
<1>1. /\ c \in Calls /\ mine[c] \in Asked /\ FormInv(c) /\ DOMAIN pc = Calls /\ DOMAIN mine = Calls
      /\ pc[c] = from
  BY FormHas DEF Reads
<1>2. pc'[c] = "orphan" /\ mine'[c] = mine[c] /\ com' = com /\ Moves(c)
  BY <1>1 DEF Reads, Goto, storage, Moves
<1>3. ASSUME Grows PROVE FormInv(c)'
  <2>1. IsRequest(mine[c].page, mine[c].read)'
    BY <1>1, <1>2, <1>3, FormMoves DEF AtPage, SignInSteps
  <2> QED
    BY <1>1, <1>2, <2>1 DEF FormInv, AfterOpening
<1>4. Grows => HandlerInv(c)'
  BY <1>3, TablesAreApart DEF HandlerInv
<1> QED
  BY <1>1, <1>4, ReadsKeepCodes

\* mark_consent_owed: the request waits in the session that was opened for it.
LEMMA MarkConsentOwedCodes ==
  ASSUME NEW c \in SignIns, IndInv, IndInv', CodesInv, MarkConsentOwed(c)
  PROVE  CodesInv'
<1>1. pc[c] = "owe"
  BY DEF MarkConsentOwed
<1>2. /\ c \in Calls /\ mine[c] \in Asked /\ FormInv(c) /\ DOMAIN pc = Calls
      /\ mine[c].page \in Begins /\ mine[c].page \in Rows
  BY <1>1, FormHas, CallsAreSome DEF AtPage, SignInSteps
<1>3. PICK v : v = [cur[mine[c].page] EXCEPT !.waitsIn = c]
  OBVIOUS
<1>4. CASE IsWaiting(c, mine[c].page) /\ Writes(c, "owe", "owing", mine[c].page, v) /\ mine' = mine
  <2>1. /\ WriteRow(c, mine[c].page, v) /\ MayWrite(c, mine[c].page)
        /\ pc' = [pc EXCEPT ![c] = "owing"] /\ UNCHANGED <<com, sent, proved, since>>
    BY <1>4 DEF Writes, WriteRow, Goto
  <2>2. cur[mine[c].page] \in RequestRow /\ cur[mine[c].page] # None
    BY <1>1, <1>2, <1>4, <2>1, WaitingRow DEF Writing, Taking
  <2>3. IsRequest(mine[c].page, cur[mine[c].page])
    BY <1>2, <2>2 DEF CodesInv, RequestsInv
  <2>4. /\ v \in RequestRow /\ v.waitsIn = c /\ v.hint = cur[mine[c].page].hint
        /\ v.scopes = cur[mine[c].page].scopes /\ v.proof = cur[mine[c].page].proof
        /\ v.first = cur[mine[c].page].first
    BY <1>3, <2>2, CallsAreSome DEF RequestRow
  <2>5. AnswersFor(mine[c].page, c)
    BY <1>1, <1>2, CallsAreSome DEF AnswersFor, FormInv, NamesAnother, AfterOpening
  <2>6. IsRequest(mine[c].page, v)
    BY <2>3, <2>4, <2>5 DEF IsRequest
  <2>7. Moves(c) /\ pc'[c] = "owing"
    BY <1>2, <1>4, <2>1 DEF Moves
  <2>8. ASSUME Grows PROVE FormInv(c)'
    <3>1. IsRequest(mine[c].page, mine[c].read)' /\ mine'[mine[c].page] = mine[mine[c].page]
      BY <1>1, <1>4, <2>7, <2>8, FormMoves DEF AtPage, SignInSteps
    <3>2. com[c] # None /\ com[c].person = mine[c].person /\ com[c].page = mine[c].page
          /\ ~NamesAnother(c)
      BY <1>1, <1>2 DEF FormInv, AfterOpening
    <3>3. ~NamesAnother(c)'
      BY <1>4, <3>2 DEF NamesAnother
    <3> QED
      BY <1>4, <2>1, <2>7, <3>1, <3>2, <3>3 DEF FormInv
  <2>9. Grows => HandlerInv(c)'
    BY <2>8, TablesAreApart DEF HandlerInv
  <2>10. ASSUME NEW q \in Begins, q = mine[c].page, Grows PROVE IsRequest(q, v)'
    BY <2>6, <2>10, RequestStays
  <2>11. PICK q \in Begins : q = mine[c].page
    BY <1>2
  <2> QED
    BY <1>1, <1>2, <1>4, <2>1, <2>7, <2>9, <2>10, <2>11, WriteKeepsCodes, TablesAreApart
<1>5. CASE Reads(c, "owe", "orphan", mine[c])
  BY <1>5, OrphanCodes
<1> QED
  BY <1>3, <1>4, <1>5 DEF MarkConsentOwed

\* take_pending_authorization: what is read is the request that is removed.
LEMMA TakeReads ==
  ASSUME NEW c \in Calls, IndInv, CodesInv, mine[c].page \in Begins, NEW from, NEW to,
         from \notin Writing, IsWaiting(c, mine[c].page), Writes(c, from, to, mine[c].page, None),
         mine' = [mine EXCEPT ![c].read = cur[mine[c].page]]
  PROVE  /\ IsRequest(mine[c].page, cur[mine[c].page]) /\ Moves(c) /\ pc'[c] = to
         /\ mine'[c].read = cur[mine[c].page] /\ mine'[c].page = mine[c].page
         /\ mine'[c].person = mine[c].person /\ mine'[c].ticket = mine[c].ticket
         /\ mine'[c].required = mine[c].required
<1>1. mine[c] \in Asked /\ DOMAIN pc = Calls /\ DOMAIN mine = Calls
  BY DEF IndInv, TypeOK
<1>2. pc[c] = from /\ MayWrite(c, mine[c].page) /\ pc' = [pc EXCEPT ![c] = to]
  BY DEF Writes, WriteRow, Goto
<1>3. cur[mine[c].page] # None
  BY <1>2, WaitingRow
<1>4. IsRequest(mine[c].page, cur[mine[c].page])
  BY <1>3 DEF CodesInv, RequestsInv
<1> QED
  BY <1>1, <1>2, <1>4 DEF Moves, Asked

\* The form takes its request.
LEMMA TakePendingCodes ==
  ASSUME NEW c \in SignIns, IndInv, IndInv', CodesInv, TakePending(c)
  PROVE  CodesInv'
<1>1. pc[c] = "take"
  BY DEF TakePending, Take
<1>2. /\ c \in Calls /\ mine[c] \in Asked /\ FormInv(c) /\ DOMAIN pc = Calls
      /\ mine[c].page \in Begins /\ mine[c].page \in Rows /\ mine[c].page # c
  BY <1>1, FormHas, CallsAreSome DEF AtPage, SignInSteps
<1>3. CASE /\ IsWaiting(c, mine[c].page) /\ Writes(c, "take", "issue", mine[c].page, None)
           /\ mine' = [mine EXCEPT ![c].read = cur[mine[c].page]]
  <2>1. /\ WriteRow(c, mine[c].page, None) /\ pc' = [pc EXCEPT ![c] = "issue"]
        /\ UNCHANGED <<com, sent, proved, since>>
    BY <1>3 DEF Writes, WriteRow, Goto
  <2>2. /\ IsRequest(mine[c].page, cur[mine[c].page]) /\ Moves(c) /\ pc'[c] = "issue"
        /\ mine'[c].read = cur[mine[c].page] /\ mine'[c].page = mine[c].page
        /\ mine'[c].person = mine[c].person /\ mine'[c].required = mine[c].required
    BY <1>2, <1>3, TakeReads DEF Writing, Taking
  <2>3. ASSUME Grows PROVE FormInv(c)'
    <3>1. mine'[mine[c].page] = mine[mine[c].page]
      BY <1>2, <2>2, CallsAreSome DEF Moves
    <3>2. IsRequest(mine[c].page, mine[c].read)'
      BY <1>2, <2>2, <2>3, RequestStays
    <3>3. NamesAnother(c)' <=> NamesAnother(c)
      BY <2>2, <3>1 DEF NamesAnother
    <3>4. /\ com[c] # None /\ com[c].person = mine[c].person /\ com[c].page = mine[c].page
          /\ ~NamesAnother(c) => /\ ~mine[mine[c].page].proof.consent
                                 /\ HasAllowed(c, mine[c].person, mine[mine[c].page].scopes)
      BY <1>1, <1>2 DEF FormInv, AfterOpening
    <3>5. ~NamesAnother(c) => HasAllowed(c, mine[c].person, mine[mine[c].page].scopes)'
      BY <2>1, <2>2, <3>1, <3>4 DEF HasAllowed
    <3> QED
      BY <2>1, <2>2, <3>1, <3>2, <3>3, <3>4, <3>5 DEF FormInv
  <2>4. Grows => HandlerInv(c)'
    BY <2>3, TablesAreApart DEF HandlerInv
  <2> QED
    BY <1>1, <1>2, <2>1, <2>2, <2>4, WriteKeepsCodes, TablesAreApart
<1>4. CASE Reads(c, "take", "orphan", mine[c])
  BY <1>4, OrphanCodes
<1> QED
  BY <1>3, <1>4 DEF TakePending, Take

\* The code of a form is for who opened its session.
LEMMA IssueCodeCodes ==
  ASSUME NEW c \in SignIns, IndInv, IndInv', CodesInv, IssueCode(c)
  PROVE  CodesInv'
<1>1. /\ pc[c] = "issue" /\ Commit(c) /\ pc' = [pc EXCEPT ![c] = "done"] /\ mine' = mine
      /\ UNCHANGED <<proved, since>>
      /\ Sends(c, mine[c].page, IF HintedAtAnother(c, mine[c].read) THEN "login_required" ELSE "code",
               c, mine[c].read)
  BY DEF IssueCode, Goto
<1>2. /\ c \in Calls /\ mine[c] \in Asked /\ FormInv(c) /\ DOMAIN pc = Calls
      /\ mine[c].page \in Begins /\ IsRequest(mine[c].page, mine[c].read) /\ c \in AllSessions
  BY <1>1, FormHas, CallsAreSome DEF AtPage, SignInSteps
<1>3. ASSUME NEW a \in sent', a \notin sent, Grows PROVE SentInv(a)'
  <2>1. /\ a.by = c /\ a.page = mine[c].page /\ a.session = c
        /\ a.kind = IF HintedAtAnother(c, mine[c].read) THEN "login_required" ELSE "code"
        /\ a.person = IF c = None THEN None ELSE Sees(c, c).person
        /\ a.scopes = mine[c].read.scopes /\ a.hint = mine[c].read.hint
        /\ a.proof = mine[c].read.proof /\ a.required = mine[c].required
    BY <1>1, <1>3, SendsWhat
  <2>2. com[c] # None /\ com[c].person = mine[c].person /\ com[c].page = mine[c].page
    BY <1>1, <1>2 DEF FormInv, AfterOpening
  <2>3. writer[c] # c
    BY <1>1, <1>2, CallsAreSome DEF IndInv, Lines, SessionFits
  <2>4. a.person = mine[c].person
    BY <1>2, <2>1, <2>2, <2>3, CallsAreSome DEF Sees
  <2>5. com'[c] # None /\ com'[c].person = mine[c].person /\ com'[c].page = mine[c].page
    BY <1>2, <1>3, <2>2 DEF Grows, SessionsLast
  <2>6. ASSUME a.kind = "code" PROVE CodeInv(a)'
    <3>1. ~HintedAtAnother(c, mine[c].read)
      BY <2>1, <2>6
    <3>2. ~NamesAnother(c)
      BY <1>2, <3>1 DEF NamesAnother, HintedAtAnother, IsRequest
    <3>3. /\ ~mine[mine[c].page].proof.consent
          /\ HasAllowed(c, mine[c].person, mine[mine[c].page].scopes)
      BY <1>1, <1>2, <3>2 DEF FormInv
    <3>4. ~a.proof.consent /\ (a.required => ({a.person} \X a.scopes) \subseteq since'[a.by])
      BY <1>1, <1>2, <2>1, <2>4, <3>3 DEF HasAllowed, IsRequest
    <3>5. a.hint # None => a.person = a.hint
      BY <2>1, <2>4, <3>1 DEF HintedAtAnother
    <3>6. a.page # None
      BY <1>2, <2>1, CallsAreSome
    <3> QED
      BY <1>2, <2>1, <2>4, <2>5, <3>4, <3>5, <3>6 DEF CodeInv
  <2>7. pc'[c] = "done"
    BY <1>1, <1>2
  <2> QED
    BY <1>2, <2>1, <2>6, <2>7 DEF SentInv
<1> QED
  BY <1>1, <1>3, FormCommitCodes DEF AtPage, SignInSteps, AfterOpening

\* end_orphan_session: the session that ends is whose it was.
LEMMA EndOrphanCodes ==
  ASSUME NEW c \in SignIns, IndInv, IndInv', CodesInv, EndOrphan(c)
  PROVE  CodesInv'
<1>1. pc[c] = "orphan" /\ MayWrite(c, c)
  BY DEF EndOrphan
<1>2. /\ c \in Calls /\ mine[c] \in Asked /\ FormInv(c) /\ DOMAIN pc = Calls
      /\ c \in AllSessions /\ c \in Rows
  BY <1>1, FormHas, CallsAreSome
<1>3. com[c] # None /\ com[c] \in SessionRow /\ cur[c] = com[c]
  <2>1. com[c] # None
    BY <1>1, <1>2 DEF FormInv, AfterOpening
  <2>2. writer[c] # c
    BY <1>1, <1>2, SeesCommitted DEF Writing, Taking
  <2>3. writer[c] = None
    BY <1>1, <2>2 DEF MayWrite
  <2> QED
    BY <1>2, <2>1, <2>3, RowsFit DEF IndInv, Lines
<1>4. PICK v : v = [cur[c] EXCEPT !.active = FALSE]
  OBVIOUS
<1>5. CASE Writes(c, "orphan", "ending", c, v) /\ mine' = mine
  <2>1. /\ WriteRow(c, c, v) /\ pc' = [pc EXCEPT ![c] = "ending"] /\ UNCHANGED <<sent, proved, since>>
    BY <1>5 DEF Writes, Goto
  <2>2. v.person = com[c].person /\ v.page = com[c].page
    BY <1>3, <1>4 DEF SessionRow
  <2>3. Moves(c) /\ pc'[c] = "ending"
    BY <1>2, <1>5, <2>1 DEF Moves
  <2>4. ASSUME Grows PROVE FormInv(c)'
    <3>1. IsRequest(mine[c].page, mine[c].read)'
      BY <1>1, <1>5, <2>3, <2>4, FormMoves DEF AtPage, SignInSteps
    <3> QED
      BY <1>5, <2>3, <3>1 DEF FormInv, AfterOpening
  <2>5. Grows => HandlerInv(c)'
    BY <2>4, TablesAreApart DEF HandlerInv
  <2> QED
    BY <1>1, <1>2, <1>3, <1>5, <2>1, <2>2, <2>3, <2>5, WriteKeepsCodes, TablesAreApart
<1>6. CASE Drops(c, "expired")
  BY <1>1, <1>2, <1>6, DropKeepsCodes
<1> QED
  BY <1>4, <1>5, <1>6 DEF EndOrphan

\* The commit of a session that ended.
LEMMA CommitEndCodes ==
  ASSUME NEW c \in SignIns, IndInv, IndInv', CodesInv, CommitEnd(c)
  PROVE  CodesInv'
<1>1. /\ pc[c] = "ending" /\ Commit(c) /\ pc' = [pc EXCEPT ![c] = "expired"]
      /\ mine' = mine /\ UNCHANGED <<sent, proved, since>>
  BY DEF CommitEnd, Commits, Goto
<1>2. c \in Calls /\ DOMAIN pc = Calls
  BY FormHas
<1>3. pc'[c] = "expired"
  BY <1>1, <1>2
<1>4. HandlerInv(c)'
  BY <1>3, TablesAreApart DEF HandlerInv, FormInv, AtPage, AfterOpening
<1> QED
  BY <1>1, <1>2, <1>4, CommitKeepsCodes

-----------------------------------------------------------------------------
(* answer_consent.                                                         *)

\* What an answer has.
LEMMA AnswerHas ==
  ASSUME NEW c \in Answers, IndInv, CodesInv
  PROVE  /\ c \in Calls /\ mine[c] \in Asked /\ AnswerInv(c) /\ CallFits(c)
         /\ DOMAIN pc = Calls /\ DOMAIN mine = Calls
  BY CallsAreSome DEF IndInv, TypeOK, Lines, CodesInv, HandlerInv

\* answer_consent begins.
LEMMA BeginAnswerCodes ==
  ASSUME NEW c \in Answers, IndInv, IndInv', CodesInv, BeginAnswer(c)
  PROVE  CodesInv'
<1>1. PICK page \in Begins, ticket \in Tickets, way \in {"allow", "deny"} :
        Starts(c, "answer", [Nothing EXCEPT !.page = page, !.ticket = ticket, !.way = way])
  BY DEF BeginAnswer
<1> DEFINE ask == [Nothing EXCEPT !.page = page, !.ticket = ticket, !.way = way]
<1>2. ask \in Asked
  BY DEF Asked, Nothing, AskedScopes, Tickets
<1>3. Starts(c, "answer", ask) /\ UNCHANGED storage
  BY <1>1 DEF BeginAnswer
<1> HIDE DEF ask
<1>4. c \in Calls /\ pc'[c] = "answer"
  BY <1>3, AnswerHas DEF Starts, Goto
<1>5. HandlerInv(c)'
  BY <1>4, TablesAreApart DEF HandlerInv, AnswerInv, Taking
<1> QED
  BY <1>2, <1>3, <1>4, <1>5, StartsKeepCodes

\* The answer takes its request.
LEMMA TakeAnsweredCodes ==
  ASSUME NEW c \in Answers, IndInv, IndInv', CodesInv, TakeAnswered(c)
  PROVE  CodesInv'
<1>1. pc[c] = "answer"
  BY DEF TakeAnswered, Take
<1>2. /\ c \in Calls /\ mine[c] \in Asked /\ DOMAIN pc = Calls /\ DOMAIN mine = Calls
      /\ mine[c].page \in Begins /\ mine[c].page \in Rows
  BY <1>1, AnswerHas, AnswerHasPage, CallsAreSome
<1>3. CASE /\ IsWaiting(c, mine[c].page) /\ Writes(c, "answer", "check", mine[c].page, None)
           /\ mine' = [mine EXCEPT ![c].read = cur[mine[c].page]]
  <2>1. /\ WriteRow(c, mine[c].page, None) /\ pc' = [pc EXCEPT ![c] = "check"]
        /\ UNCHANGED <<sent, proved, since>>
    BY <1>3 DEF Writes, Goto
  <2>2. /\ IsRequest(mine[c].page, cur[mine[c].page]) /\ Moves(c) /\ pc'[c] = "check"
        /\ mine'[c].read = cur[mine[c].page] /\ mine'[c].page = mine[c].page
        /\ mine'[c].required = mine[c].required
    <3>1. cur[mine[c].page] # None
      BY <1>1, <1>2, <1>3, <2>1, WaitingRow DEF WriteRow, Writing, Taking
    <3>2. IsRequest(mine[c].page, cur[mine[c].page])
      BY <1>2, <3>1 DEF CodesInv, RequestsInv
    <3> QED
      BY <1>2, <1>3, <2>1, <3>2 DEF Moves, Asked
  <2>3. ASSUME Grows PROVE AnswerInv(c)'
    <3>1. IsRequest(mine[c].page, mine[c].read)'
      BY <1>2, <2>2, <2>3, RequestStays
    <3> QED
      BY <2>2, <3>1 DEF AnswerInv
  <2>4. Grows => HandlerInv(c)'
    BY <2>3, TablesAreApart DEF HandlerInv
  <2> QED
    BY <1>1, <1>2, <2>1, <2>2, <2>4, WriteKeepsCodes, TablesAreApart
<1>4. CASE Reads(c, "answer", "expired", mine[c])
  <2>1. pc'[c] = "expired"
    BY <1>2, <1>4 DEF Reads, Goto
  <2>2. HandlerInv(c)'
    BY <2>1, TablesAreApart DEF HandlerInv, AnswerInv, Taking
  <2> QED
    BY <1>2, <1>4, <2>2, ReadsKeepCodes
<1> QED
  BY <1>3, <1>4 DEF TakeAnswered, Take

\* An answer that reads keeps the request it took.
LEMMA AnswerReads ==
  ASSUME NEW c \in Answers, IndInv, CodesInv, Grows, pc[c] \in Taking,
         mine'[c].page = mine[c].page, mine'[c].read = mine[c].read
  PROVE  IsRequest(mine[c].page, mine[c].read)'
<1>1. mine[c].page \in Begins /\ IsRequest(mine[c].page, mine[c].read)
  BY AnswerHas DEF AnswerInv, CallFits, Taking
<1> QED
  BY <1>1, RequestStays

\* check_waiting_consent: in the session the request waits in.
LEMMA CheckWaitingCodes ==
  ASSUME NEW c \in Answers, IndInv, IndInv', CodesInv, CheckWaiting(c)
  PROVE  CodesInv'
<1>1. pc[c] = "check"
  BY DEF CheckWaiting
<1>2. /\ c \in Calls /\ mine[c] \in Asked /\ DOMAIN pc = Calls /\ DOMAIN mine = Calls
      /\ mine[c].ticket \in AllSessions /\ mine[c].way \in {"allow", "deny"}
  BY <1>1, AnswerHas DEF CallFits
<1>3. CASE WaitsHere(c)
           /\ Reads(c, "check", mine[c].way, [mine[c] EXCEPT !.person = com[mine[c].ticket].person])
  <2>1. PICK ask : ask = [mine[c] EXCEPT !.person = com[mine[c].ticket].person]
    OBVIOUS
  <2>2. com[mine[c].ticket] # None /\ mine[c].read.waitsIn = mine[c].ticket
    BY <1>2, <1>3, AnswerSeesSessions DEF WaitsHere, IsActive
  <2>3. /\ ask.page = mine[c].page /\ ask.ticket = mine[c].ticket /\ ask.read = mine[c].read
        /\ ask.person = com[mine[c].ticket].person /\ ask.required = mine[c].required
    BY <1>2, <2>1 DEF Asked
  <2>4. Reads(c, "check", mine[c].way, ask)
    BY <1>3, <2>1
  <2>5. pc'[c] = mine[c].way /\ mine'[c] = ask /\ com' = com
    BY <1>2, <2>4 DEF Reads, Goto, storage
  <2>6. ASSUME Grows PROVE AnswerInv(c)'
    <3>1. IsRequest(mine[c].page, mine[c].read)'
      BY <1>1, <2>3, <2>5, <2>6, AnswerReads DEF Taking
    <3> QED
      BY <2>2, <2>3, <2>5, <3>1 DEF AnswerInv
  <2>7. Grows => HandlerInv(c)'
    BY <2>6, TablesAreApart DEF HandlerInv
  <2> QED
    BY <1>2, <2>3, <2>4, <2>7, ReadsKeepCodes
<1>4. CASE Drops(c, "expired")
  BY <1>1, <1>2, <1>4, DropKeepsCodes
<1> QED
  BY <1>3, <1>4 DEF CheckWaiting

\* allow_client
LEMMA ReadAllowedCodes ==
  ASSUME NEW c \in Answers, IndInv, IndInv', CodesInv, ReadAllowed(c)
  PROVE  CodesInv'
<1>1. pc[c] = "allow"
  BY DEF ReadAllowed
<1>2. /\ c \in Calls /\ mine[c] \in Asked /\ AnswerInv(c) /\ DOMAIN pc = Calls /\ DOMAIN mine = Calls
  BY AnswerHas
<1>3. ASSUME NEW to \in {"add", "give"}, Reads(c, "allow", to, mine[c]) PROVE CodesInv'
  <2>1. pc'[c] = to /\ mine'[c] = mine[c] /\ com' = com
    BY <1>2, <1>3 DEF Reads, Goto, storage
  <2>2. ASSUME Grows PROVE AnswerInv(c)'
    <3>1. IsRequest(mine[c].page, mine[c].read)'
      BY <1>1, <2>1, <2>2, AnswerReads DEF Taking
    <3> QED
      BY <1>1, <1>2, <2>1, <3>1 DEF AnswerInv
  <2>3. Grows => HandlerInv(c)'
    BY <2>2, TablesAreApart DEF HandlerInv
  <2> QED
    BY <1>2, <1>3, <2>3, ReadsKeepCodes
<1>4. CASE Drops(c, "refused")
  BY <1>1, <1>2, <1>4, DropKeepsCodes
<1> QED
  BY <1>3, <1>4 DEF ReadAllowed

\* add_consent: under the lock of its row, what is committed is widened.
LEMMA AddConsentCodes ==
  ASSUME NEW c \in Answers, IndInv, IndInv', CodesInv, AddConsent(c)
  PROVE  CodesInv'
<1>1. PICK v : /\ v = (IF cur[mine[c].person] = None THEN {} ELSE cur[mine[c].person])
                        \cup mine[c].read.scopes
               /\ Writes(c, "add", "give", mine[c].person, v) /\ mine' = mine
  BY DEF AddConsent
<1>2. /\ pc[c] = "add" /\ WriteRow(c, mine[c].person, v) /\ UNCHANGED <<sent, proved, since>>
      /\ pc' = [pc EXCEPT ![c] = "give"]
  BY <1>1 DEF Writes, Goto
<1>3. /\ c \in Calls /\ AnswerInv(c) /\ DOMAIN pc = Calls /\ mine[c].person \in People
      /\ mine[c].person \in Rows
  BY <1>2, AnswerHas, CallsAreSome DEF CallFits
<1>4. /\ com' = com /\ cur' = [cur EXCEPT ![mine[c].person] = v]
      /\ writer' = [writer EXCEPT ![mine[c].person] = c] /\ writer[mine[c].person] \in {c, None}
  BY <1>2, <1>3, WriteIsAlone
<1>5. writer[mine[c].person] = None
  BY <1>2, <1>3, <1>4, ConsentWriter
<1>6. cur[mine[c].person] = com[mine[c].person]
  BY <1>3, <1>5 DEF IndInv, Lines
<1>7. cur'[mine[c].person] = v /\ writer'[mine[c].person] = c
  BY <1>3, <1>4 DEF IndInv, TypeOK
<1>8. Moves(c) /\ pc'[c] = "give"
  BY <1>1, <1>2, <1>3 DEF Moves
<1>9. ASSUME NEW p \in People, p = mine[c].person PROVE ConsentInv(p)'
  BY <1>1, <1>4, <1>6, <1>7, <1>8, <1>9 DEF ConsentInv
<1>10. ASSUME Grows PROVE AnswerInv(c)'
  <2>1. IsRequest(mine[c].page, mine[c].read)'
    BY <1>1, <1>2, <1>10, AnswerReads DEF Taking
  <2> QED
    BY <1>1, <1>2, <1>3, <1>4, <1>8, <2>1 DEF AnswerInv
<1>11. Grows => HandlerInv(c)'
  BY <1>10, TablesAreApart DEF HandlerInv
<1>12. PICK p \in People : p = mine[c].person
  BY <1>3
<1> QED
  BY <1>1, <1>2, <1>3, <1>8, <1>9, <1>11, <1>12, WriteKeepsCodes, TablesAreApart

\* The code of an answer is for the person of the session its request waits in,
\* who has now allowed what it asks.
LEMMA GiveCodeCodes ==
  ASSUME NEW c \in Answers, IndInv, IndInv', CodesInv, GiveCode(c)
  PROVE  CodesInv'
<1> DEFINE given == {mine[c].person} \X mine[c].read.scopes
<1>1. /\ pc[c] = "give" /\ Commit(c) /\ pc' = [pc EXCEPT ![c] = "done"] /\ mine' = mine
      /\ Sends(c, mine[c].page, "code", mine[c].ticket, mine[c].read)
      /\ since' = [d \in Calls |-> since[d] \cup given] /\ proved' = proved
  BY DEF GiveCode, Goto
<1>2. /\ c \in Calls /\ AnswerInv(c) /\ DOMAIN pc = Calls
      /\ mine[c].page \in Begins /\ mine[c].ticket \in AllSessions
  BY <1>1, AnswerHas DEF CallFits
<1>3. /\ Moves(c) /\ pc'[c] = "done" /\ DOMAIN since' = Calls
      /\ \A d \in Calls : since'[d] = since[d] \cup given
  BY <1>1, <1>2 DEF Moves
<1>4. Grows /\ RowsStand(c) /\ RequestsInv' /\ OpenedInv' /\ \A p \in People : writer'[p] # c
  BY <1>1, <1>2, <1>3, CommitGrows
<1>5. ASSUME NEW q \in People, NEW s, com'[q] # None, s \in com'[q]
      PROVE  (com[q] # None /\ s \in com[q]) \/ (q = mine[c].person /\ s \in mine[c].read.scopes)
  <2>1. q \in Rows /\ com'[q] = IF writer[q] = c THEN cur[q] ELSE com[q]
    BY <1>1, CallsAreSome DEF Commit
  <2>2. CASE writer[q] # c
    BY <1>5, <2>1, <2>2
  <2>3. CASE writer[q] = c
    BY <1>2, <1>5, <2>1, <2>3, CallsAreSome DEF CodesInv, ConsentInv
  <2> QED
    BY <2>2, <2>3
<1>6. Allowed' \subseteq Allowed \cup given
  <2> SUFFICES ASSUME NEW x \in Allowed' PROVE x \in Allowed \cup given
    OBVIOUS
  <2>1. PICK q \in People : com'[q] # None /\ \E s \in com'[q] : x = <<q, s>>
    BY DEF Allowed
  <2>2. PICK s \in com'[q] : x = <<q, s>>
    BY <2>1
  <2>3. CASE com[q] # None /\ s \in com[q]
    BY <2>2, <2>3 DEF Allowed
  <2>4. CASE q = mine[c].person /\ s \in mine[c].read.scopes
    BY <2>2, <2>4
  <2> QED
    BY <1>5, <2>1, <2>2, <2>3, <2>4
<1> HIDE DEF given
<1>7. \A d \in Calls : pc[d] # "idle" => Allowed' \subseteq since'[d]
  BY <1>3, <1>6 DEF CodesInv, CallInv
<1>8. com'["client"] = com["client"]
  BY <1>1, <1>2, CallsAreSome DEF Commit, IndInv, Lines
<1>9. CallInv(c)'
  BY <1>1, <1>2, <1>7, <1>8 DEF CodesInv, CallInv
<1>10. HandlerInv(c)'
  BY <1>3, TablesAreApart DEF HandlerInv, AnswerInv, Taking
<1>11. ASSUME NEW a \in sent', a \notin sent PROVE SentInv(a)'
  <2>1. /\ a.by = c /\ a.page = mine[c].page /\ a.session = mine[c].ticket
        /\ a.person = IF mine[c].ticket = None THEN None ELSE Sees(c, mine[c].ticket).person
        /\ a.scopes = mine[c].read.scopes /\ a.hint = mine[c].read.hint
        /\ a.proof = mine[c].read.proof
    BY <1>1, <1>11, SendsWhat
  <2>2. /\ IsRequest(mine[c].page, mine[c].read) /\ mine[c].read.waitsIn = mine[c].ticket
        /\ com[mine[c].ticket] # None /\ com[mine[c].ticket].person = mine[c].person
    BY <1>1, <1>2 DEF AnswerInv, Taking
  <2>3. mine[c].ticket # None /\ mine[c].page # None
    BY <1>2, CallsAreSome
  <2>4. a.person = mine[c].person
    BY <1>2, <2>1, <2>2, <2>3, AnswerSeesSessions
  <2>5. AnswersFor(mine[c].page, mine[c].ticket) /\ pc[mine[c].page] = "waiting"
    BY <2>2, <2>3 DEF IsRequest
  <2>6. /\ com'[mine[c].ticket] # None /\ com'[mine[c].ticket].person = com[mine[c].ticket].person
        /\ com'[mine[c].ticket].page = com[mine[c].ticket].page
    BY <1>2, <1>4, <2>2 DEF Grows, SessionsLast
  <2>7. a.hint = mine[mine[c].page].hint /\ a.proof = mine[mine[c].page].proof
    BY <2>1, <2>2 DEF IsRequest
  <2>8. ({a.person} \X a.scopes) \subseteq since'[c]
    BY <1>2, <1>3, <2>1, <2>4 DEF given
  <2>9. /\ a.hint # None => a.person = a.hint
        /\ \/ mine[c].ticket \in SignIns /\ com'[mine[c].ticket].page = mine[c].page
           \/ mine'[mine[c].page].ticket = mine[c].ticket /\ ~a.proof.fresh
    BY <1>1, <2>2, <2>4, <2>5, <2>6, <2>7 DEF AnswersFor
  <2>10. CodeInv(a)'
    BY <1>2, <2>1, <2>2, <2>3, <2>4, <2>6, <2>8, <2>9 DEF CodeInv
  <2> QED
    BY <1>2, <1>3, <2>1, <2>10 DEF SentInv
<1> QED
  BY <1>2, <1>3, <1>4, <1>7, <1>8, <1>9, <1>10, <1>11, StepKeepsCodes

\* access_denied is no code.
LEMMA DenyClientCodes ==
  ASSUME NEW c \in Answers, IndInv, IndInv', CodesInv, DenyClient(c)
  PROVE  CodesInv'
<1>1. /\ pc[c] = "deny" /\ Commit(c) /\ pc' = [pc EXCEPT ![c] = "done"] /\ mine' = mine
      /\ Sends(c, mine[c].page, "access_denied", None, mine[c].read) /\ UNCHANGED <<proved, since>>
  BY DEF DenyClient, Goto
<1>2. c \in Calls /\ DOMAIN pc = Calls
  BY AnswerHas
<1>3. pc'[c] = "done"
  BY <1>1, <1>2
<1>4. HandlerInv(c)'
  BY <1>3, TablesAreApart DEF HandlerInv, AnswerInv, Taking
<1>5. ASSUME NEW a \in sent', a \notin sent PROVE SentInv(a)'
  <2>1. a.by = c /\ a.kind = "access_denied"
    BY <1>1, <1>5, SendsWhat
  <2> QED
    BY <1>2, <1>3, <2>1 DEF SentInv
<1> QED
  BY <1>1, <1>2, <1>4, <1>5, CommitKeepsCodes

-----------------------------------------------------------------------------
(* What happens meanwhile.                                                 *)

\* Whatever happens to one row nobody writes.
LEMMA EnvironmentKeepsCodes ==
  ASSUME IndInv, IndInv', CodesInv, UNCHANGED <<pc, mine, sent, proved, since, writer>>,
         NEW x \in Rows, writer[x] = None,
         \A y \in Rows \ {x} : com'[y] = com[y] /\ cur'[y] = cur[y],
         x \in Begins => com'[x] \in {com[x], None} /\ cur'[x] \in {cur[x], None},
         x \in AllSessions => /\ com[x] # None /\ com'[x] # None
                              /\ com'[x].person = com[x].person /\ com'[x].page = com[x].page,
         x \in People => com'[x] \in {com[x], None},
         x = "client" => com'[x] = None \/ (com[x] # None /\ (com[x].requires => com'[x].requires))
  PROVE  CodesInv'
<1>1. SessionsLast
  BY CallsAreSome DEF SessionsLast
<1>2. Grows
  BY <1>1 DEF Grows
<1>3. RequestsInv'
  BY <1>2, RequestsStay, CallsAreSome
<1>4. OpenedInv'
  BY CallsAreSome DEF CodesInv, OpenedInv
<1>5. Allowed' \subseteq Allowed
  BY CallsAreSome DEF Allowed
<1>6. com'["client"] # None => com["client"] # None /\ (com["client"].requires => com'["client"].requires)
  BY CallsAreSome
<1>7. ASSUME NEW d \in Calls PROVE HandlerInv(d)' /\ CallInv(d)'
  <2>1. HandlerInv(d)'
    BY <1>2, HandlersStay
  <2>2. CallInv(d)'
    BY <1>5, <1>6 DEF CodesInv, CallInv
  <2> QED
    BY <2>1, <2>2
<1>8. ASSUME NEW p \in People PROVE ConsentInv(p)'
  BY CallsAreSome DEF CodesInv, ConsentInv
<1>9. ASSUME NEW a \in sent' PROVE SentInv(a)'
  BY <1>2, SentStays
<1> QED
  BY <1>3, <1>4, <1>7, <1>8, <1>9 DEF CodesInv

\* The retention, and a person who withdraws.
LEMMA DeleteCodes ==
  ASSUME IndInv, IndInv', CodesInv, NEW x \in Begins \cup People, DeleteRows({x}), Environment
  PROVE  CodesInv'
<1>1. x \in Rows /\ writer[x] = None /\ UNCHANGED <<pc, mine, sent, proved, since, writer>>
  BY CallsAreSome DEF DeleteRows, Environment
<1>2. /\ com' = [y \in Rows |-> IF y \in {x} THEN None ELSE com[y]]
      /\ cur' = [y \in Rows |-> IF y \in {x} THEN None ELSE cur[y]]
  BY DEF DeleteRows
<1>3. com'[x] = None /\ cur'[x] = None /\ \A y \in Rows \ {x} : com'[y] = com[y] /\ cur'[y] = cur[y]
  BY <1>1, <1>2
<1> QED
  BY <1>1, <1>3, EnvironmentKeepsCodes, TablesAreApart

\* A session that ends.
LEMMA EndSessionCodes ==
  ASSUME NEW s \in AllSessions, IndInv, IndInv', CodesInv, EndSession(s)
  PROVE  CodesInv'
<1>1. /\ com[s] # None /\ writer[s] = None /\ s \in Rows
      /\ UNCHANGED <<pc, mine, sent, proved, since, writer>>
      /\ com' = [com EXCEPT ![s].active = FALSE] /\ cur' = [cur EXCEPT ![s].active = FALSE]
  BY CallsAreSome DEF EndSession, Environment
<1>2. DOMAIN com = Rows /\ DOMAIN cur = Rows /\ com[s] \in SessionRow
  BY <1>1, RowsFit DEF IndInv, TypeOK
<1>3. /\ com'[s] = [com[s] EXCEPT !.active = FALSE]
      /\ \A y \in Rows \ {s} : com'[y] = com[y] /\ cur'[y] = cur[y]
  BY <1>1, <1>2
<1>4. com'[s] \in SessionRow /\ com'[s].person = com[s].person /\ com'[s].page = com[s].page
  BY <1>2, <1>3 DEF SessionRow
<1>5. com'[s] # None
  BY <1>4, RowsAssumption
<1> QED
  BY <1>1, <1>3, <1>4, <1>5, EnvironmentKeepsCodes, TablesAreApart

\* An administrator changes the client.
LEMMA ChangeClientCodes ==
  ASSUME IndInv, IndInv', CodesInv, ChangeClient
  PROVE  CodesInv'
<1>1. PICK v \in {None, [com["client"] EXCEPT !.enabled = FALSE],
                  [com["client"] EXCEPT !.requires = TRUE]} :
        com' = [com EXCEPT !["client"] = v] /\ cur' = [cur EXCEPT !["client"] = v]
  BY DEF ChangeClient
<1>2. /\ com["client"] # None /\ writer["client"] = None
      /\ UNCHANGED <<pc, mine, sent, proved, since, writer>>
  BY DEF ChangeClient, Environment, IndInv, Lines
<1>3. com["client"] \in ClientRow
  BY <1>2, CallsAreSome DEF IndInv, TypeOK, RowFits
<1>4. v = None \/ (com["client"].requires => v.requires)
  BY <1>3 DEF ClientRow
<1>5. /\ com'["client"] = v
      /\ \A y \in Rows \ {"client"} : com'[y] = com[y] /\ cur'[y] = cur[y]
  BY <1>1, CallsAreSome DEF IndInv, TypeOK
<1> QED
  BY <1>2, <1>4, <1>5, EnvironmentKeepsCodes, TablesAreApart, CallsAreSome

\* What is refused or fails leaves nothing.
LEMMA RefusedCodes ==
  ASSUME NEW c \in Calls, IndInv, IndInv', CodesInv, RefusePending(c) \/ RefuseProof(c) \/ Fail(c)
  PROVE  CodesInv'
<1>1. CASE RefusePending(c)
  BY <1>1, DropKeepsCodes DEF RefusePending
<1>2. CASE RefuseProof(c)
  BY <1>2, DropKeepsCodes DEF RefuseProof
<1>3. CASE Fail(c)
  BY <1>3, DropKeepsCodes DEF Fail, Ended
<1> QED
  BY <1>1, <1>2, <1>3

\* Nothing is sent, opened or kept at first, and no call has begun.
LEMMA InitCodes == Init => CodesInv
<1> SUFFICES ASSUME Init PROVE CodesInv
  OBVIOUS
<1>1. PICK client \in Clients :
        StorageInit([x \in Rows |->
          CASE x = "client" -> client
            [] x \in People -> Kept[x]
            [] x \in DOMAIN Sessions -> [person |-> Sessions[x], active |-> TRUE, page |-> None]
            [] OTHER -> None])
  BY DEF Init
<1>2. cur = com /\ writer = [x \in Rows |-> None] /\ \A p \in Begins \cup SignIns : com[p] = None
  BY <1>1, CallsAreSome, TablesAreApart, RowsAssumption DEF StorageInit, AllSessions
<1>3. /\ pc = [c \in Calls |-> "idle"] /\ mine = [c \in Calls |-> Nothing] /\ sent = {}
      /\ DOMAIN since = Calls
  BY DEF Init
<1>4. RequestsInv /\ OpenedInv
  BY <1>2, CallsAreSome DEF RequestsInv, OpenedInv
<1>5. ASSUME NEW c \in Calls PROVE HandlerInv(c) /\ CallInv(c)
  <2>1. pc[c] = "idle" /\ ~mine[c].required
    BY <1>3 DEF Nothing
  <2>2. BeginInv(c) /\ FormInv(c) /\ AnswerInv(c)
    BY <2>1 DEF BeginInv, FormInv, AnswerInv, AtPage, AfterOpening, Taking
  <2> QED
    BY <2>1, <2>2 DEF HandlerInv, CallInv
<1>6. ASSUME NEW p \in People PROVE ConsentInv(p)
  BY <1>2, CallsAreSome DEF ConsentInv
<1> QED
  BY <1>3, <1>4, <1>5, <1>6 DEF CodesInv

\* What only time changes, or nothing.
LEMMA StillKeepsCodes ==
  ASSUME IndInv, CodesInv, UNCHANGED <<storage, pc, mine, sent, proved, since>>
  PROVE  CodesInv'
<1>1. Grows
  BY DEF Grows, SessionsLast, storage
<1>2. RequestsInv'
  BY <1>1, RequestsStay DEF storage
<1>3. OpenedInv'
  BY DEF CodesInv, OpenedInv, storage
<1>4. ASSUME NEW d \in Calls PROVE HandlerInv(d)' /\ CallInv(d)'
  BY <1>1, HandlersStay DEF CodesInv, CallInv, Allowed, storage
<1>5. ASSUME NEW p \in People PROVE ConsentInv(p)'
  BY DEF CodesInv, ConsentInv, storage
<1>6. ASSUME NEW a \in sent' PROVE SentInv(a)'
  BY <1>1, SentStays
<1> QED
  BY <1>2, <1>3, <1>4, <1>5, <1>6 DEF CodesInv

\* Every step keeps both.
LEMMA NextKeepsCodes == IndInv /\ CodesInv /\ [Next]_vars => CodesInv'
<1> SUFFICES ASSUME IndInv, CodesInv, [Next]_vars PROVE CodesInv'
  OBVIOUS
<1>0. IndInv'
  BY NextKeeps
<1>1. ASSUME NEW c \in Begins, BeginStep(c) PROVE CodesInv'
  BY <1>0, <1>1, BeginAuthorizationCodes, FindSessionCodes, JudgeConsentCodes, KeepPendingCodes,
     RefusedCodes, CallsAreSome, IssueFromSessionCodes DEF BeginStep
<1>2. ASSUME NEW c \in SignIns, SignInStep(c) PROVE CodesInv'
  BY <1>0, <1>2, ReadPendingCodes, ProvePasswordCodes, ProveFactorCodes, RefusedCodes, CallsAreSome,
     MarkFirstFactorCodes, CommitMarkCodes, ReadTermsCodes, MarkConsentOwedCodes,
     TakePendingCodes, IssueCodeCodes, EndOrphanCodes, CommitEndCodes DEF SignInStep
<1>3. ASSUME NEW c \in Answers, AnswerStep(c) PROVE CodesInv'
  BY <1>0, <1>3, BeginAnswerCodes, TakeAnsweredCodes, CheckWaitingCodes, ReadAllowedCodes,
     AddConsentCodes, GiveCodeCodes, DenyClientCodes DEF AnswerStep
<1>4. ASSUME NEW c \in Calls, Fail(c) PROVE CodesInv'
  BY <1>0, <1>4, RefusedCodes
<1>5. ASSUME NEW p \in Begins, Expire(p) PROVE CodesInv'
  BY <1>5, StillKeepsCodes DEF Expire, Environment
<1>6. ASSUME NEW p \in Begins, Purge(p) PROVE CodesInv'
  BY <1>0, <1>6, DeleteCodes DEF Purge
<1>7. ASSUME NEW s \in AllSessions, EndSession(s) PROVE CodesInv'
  BY <1>0, <1>7, EndSessionCodes
<1>8. ASSUME NEW p \in People, Withdraw(p) PROVE CodesInv'
  BY <1>0, <1>8, DeleteCodes DEF Withdraw
<1>9. CASE ChangeClient
  BY <1>0, <1>9, ChangeClientCodes
<1>10. CASE UNCHANGED vars
  BY <1>10, StillKeepsCodes DEF vars
<1> QED
  BY <1>1, <1>2, <1>3, <1>4, <1>5, <1>6, <1>7, <1>8, <1>9, <1>10 DEF Next

\* In any such state a code is for who proved it.
LEMMA CodesInvProves == IndInv /\ CodesInv => CodeIsProven
<1> SUFFICES ASSUME IndInv, CodesInv, NEW a \in Codes
             PROVE  /\ a.hint # None => a.person = a.hint
                    /\ a.page # None => com[a.session].page = a.page \/ mine[a.page].ticket = a.session
                    /\ a.session \in SignIns => <<com[a.session].page, a.person>> \in proved
                    /\ a.proof.fresh => /\ a.page # None /\ a.session \in SignIns
                                        /\ com[a.session].page = a.page
  BY DEF CodeIsProven, CodeIsForWhoProved, FreshIsProvenAgain
<1>1. CodeInv(a)
  BY DEF Codes, CodesInv, SentInv
<1> QED
  BY <1>1 DEF CodeInv, CodesInv, OpenedInv

\* A code names the person its hint named, comes of a session that was opened
\* on the page of its request or that the browser came with, for a person who
\* proved their password on the page where it was opened; and a request that
\* asked a sign-in now gets one made on its own page.  For any number of
\* browsers, pages, forms and answers together.
THEOREM CodesAreProven == Spec => []CodeIsProven
<1> QED
  BY InitEstablishes, NextKeeps, InitCodes, NextKeepsCodes, CodesInvProves, PTL DEF Spec

\* A client that required consent when a call began gets from it no scope the
\* person had not allowed at some time of it, and prompt=consent gets its code
\* from an answer to the question only.
THEOREM NothingIsGivenUnallowed == Spec => []NoCodeUnallowed
<1>1. CodesInv => NoCodeUnallowed
  BY DEF CodesInv, SentInv, CodeInv, NoCodeUnallowed, Codes
<1> QED
  BY <1>1, InitEstablishes, NextKeeps, InitCodes, NextKeepsCodes, PTL DEF Spec

=============================================================================
