---------------------------- MODULE StorageProofs -----------------------------
(***************************************************************************)
(* What stands on Postgres itself: the audit chain, and the links the      *)
(* units of work borrow.  Nothing of one is used to prove the other.       *)
(***************************************************************************)
EXTENDS AuditChain, Links, FiniteSetTheorems, WellFoundedInduction, SequenceTheorems, TLAPS

-----------------------------------------------------------------------------
(***************************************************************************)
(* For any units of work, verifications, events, page size and hash: the   *)
(* committed events are one chain however appends interleave, and a        *)
(* verification says of its snapshot what is so.                           *)
(*                                                                         *)
(* The argument.  Some whole chain W ends at the committed head: the one   *)
(* the server wrote.  The rows of the table are W, or W with rows changed  *)
(* or removed behind the server.  A work that wrote the head holds its     *)
(* lock, and what it inserted carries W on to the head it wrote; nobody    *)
(* else has inserted anything.  A verification has a whole chain behind it *)
(* at every page.                                                          *)
(***************************************************************************)

\* No row is the absence of one.
NoneIsNoPosition == \A seq, hash : Position(seq, hash) # None

\* A hash tells apart what two events say in the same place.
HashTellsApart ==
  \A previous, seq, d, e : Hash(previous, seq, d) = Hash(previous, seq, e) => d = e

\* Where a chain with this head stands: before the first event if it has none.
At(head) == IF head = None THEN Position(0, Genesis) ELSE head

\* The rows are one chain that ends at position p.
Whole(rows, p) ==
  /\ p.seq \in Nat
  /\ {e.seq : e \in rows} = 1 .. p.seq
  /\ \A e, f \in rows : e.seq = f.seq => e = f
  /\ \A e \in rows : \E q \in Positions(rows) : CheckLink(q, e)
  /\ p \in Positions(rows)

IsEvent(e) ==
  \E s, p, h, v : e = [seq |-> s, previous |-> p, hash |-> h, envelope |-> v]

\* One row of the chain was changed, or removed.
OneChanged(W, rows) ==
  \E f \in W :
    \/ rows = W \ {f}
    \/ \E v : v # f.envelope /\ rows = (W \ {f}) \cup {[f EXCEPT !.envelope = v]}

\* The rows are those of the chain, n of them changed or removed one by one.
IsLeftOf(W, rows, n) ==
  /\ IsFiniteSet(rows)
  /\ \A e \in rows : IsEvent(e) /\ \E f \in W : e.seq = f.seq
  /\ \A e, f \in rows : e.seq = f.seq => e = f
  /\ n = 0 => rows = W
  /\ n = 1 => OneChanged(W, rows)

\* The rows up to a sequence number.
UpTo(rows, seq) == {e \in rows : e.seq <= seq}

-----------------------------------------------------------------------------
(* Numbers: what induction is needed for.                                  *)

\* A set of numbers that is not empty has a smallest one.
LEMMA SmallestOf ==
  ASSUME NEW T, T \subseteq Nat, T # {}
  PROVE  \E x \in T : \A y \in T : x <= y
<1>1. \E R : IsWellFoundedOn(R, Nat) /\ \A x, y \in Nat : y < x => <<y, x>> \in R
  <2>1. \A x, y \in Nat : y < x => <<y, x>> \in OpToRel(<, Nat)
    BY DEF OpToRel
  <2> QED
    BY <2>1, NatLessThanWellFounded, Zenon
<1>2. PICK R : IsWellFoundedOn(R, Nat) /\ \A x, y \in Nat : y < x => <<y, x>> \in R
  BY <1>1
<1>3. PICK x \in T : \A y \in T : ~(<<y, x>> \in R)
  BY <1>2, WFMin
<1>4. ASSUME NEW y \in T PROVE x <= y
  <2>1. ~(y < x)
    BY <1>2, <1>3
  <2> QED
    BY <2>1
<1> QED
  BY <1>4

\* One that is bounded has a largest one.
LEMMA LargestOf ==
  ASSUME NEW T, T \subseteq Nat, T # {}, NEW n \in Nat, \A x \in T : x <= n
  PROVE  \E x \in T : \A y \in T : y <= x
<1> DEFINE D == {m \in Nat : n - m \in T}
<1>1. D \subseteq Nat /\ D # {}
  <2>1. PICK x \in T : TRUE
    OBVIOUS
  <2>2. n - x \in Nat /\ n - (n - x) = x
    BY <2>1
  <2> QED
    BY <2>1, <2>2
<1>2. PICK m \in D : \A k \in D : m <= k
  BY <1>1, SmallestOf
<1>3. n - m \in T
  BY <1>2
<1>4. ASSUME NEW y \in T PROVE y <= n - m
  <2>1. n - y \in Nat /\ n - (n - y) = y
    BY <1>4
  <2>2. n - y \in D
    BY <1>4, <2>1
  <2>3. m <= n - y
    BY <1>2, <2>2
  <2> QED
    BY <1>2, <2>3, <1>4
<1> QED
  BY <1>3, <1>4

-----------------------------------------------------------------------------
(* Whole chains.                                                           *)

\* An empty chain stands before the first event.
LEMMA EmptyIsWhole == Whole({}, Position(0, Genesis))
  BY DEF Whole, Positions, Position

\* What IsWhole says of a head is what Whole says of where it stands.
LEMMA WholeIsWhole ==
  ASSUME NEW rows, NEW head
  PROVE  IsWhole(rows, head) <=> Whole(rows, At(head))
<1>1. CASE head = None
  <2>1. At(head) = Position(0, Genesis) /\ At(head).seq = 0
    BY <1>1 DEF At, Position
  <2>2. Position(0, Genesis) \in Positions(rows)
    BY DEF Positions
  <2> QED
    BY <1>1, <2>1, <2>2 DEF IsWhole, Whole
<1>2. CASE head # None
  <2>1. At(head) = head
    BY <1>2 DEF At
  <2>2. ASSUME head \in Positions(rows), {e.seq : e \in rows} = 1 .. head.seq
        PROVE  head.seq \in Nat
    <3>1. CASE head = Position(0, Genesis)
      BY <3>1 DEF Position
    <3>2. ASSUME NEW e \in rows, head = Position(e.seq, e.hash) PROVE head.seq \in Nat
      <4>1. e.seq \in 1 .. head.seq
        BY <2>2
      <4>2. head.seq = e.seq
        BY <3>2 DEF Position
      <4> QED
        BY <4>1, <4>2
    <3> QED
      BY <2>2, <3>1, <3>2 DEF Positions
  <2> QED
    BY <1>2, <2>1, <2>2 DEF IsWhole, Whole
<1> QED
  BY <1>1, <1>2

\* The numbers of a whole chain: each event has one, and each has an event.
LEMMA WholeNumbers ==
  ASSUME NEW rows, NEW p, Whole(rows, p)
  PROVE  /\ p.seq \in Nat
         /\ \A e \in rows : e.seq \in Nat /\ 1 <= e.seq /\ e.seq <= p.seq
         /\ \A n \in 1 .. p.seq : \E e \in rows : e.seq = n
<1>1. p.seq \in Nat /\ {e.seq : e \in rows} = 1 .. p.seq
  BY DEF Whole
<1>2. \A e \in rows : e.seq \in 1 .. p.seq
  BY <1>1
<1> QED
  BY <1>1, <1>2

\* A whole chain stands at the first position, or at its last event.
LEMMA WholeEnds ==
  ASSUME NEW rows, NEW p, Whole(rows, p)
  PROVE  /\ p = Position(p.seq, p.hash)
         /\ p.seq = 0 => p = Position(0, Genesis)
         /\ \A e \in rows : e.seq = p.seq => p = Position(e.seq, e.hash)
<1>1. p.seq \in Nat /\ \A e \in rows : e.seq \in Nat /\ 1 <= e.seq
  BY WholeNumbers
<1>2. CASE p = Position(0, Genesis)
  BY <1>1, <1>2 DEF Position
<1>3. ASSUME NEW f \in rows, p = Position(f.seq, f.hash)
      PROVE  /\ p = Position(p.seq, p.hash) /\ p.seq # 0
             /\ \A e \in rows : e.seq = p.seq => p = Position(e.seq, e.hash)
  <2>1. p.seq = f.seq /\ p.hash = f.hash
    BY <1>3 DEF Position
  <2>2. \A e \in rows : e.seq = f.seq => e = f
    BY DEF Whole
  <2> QED
    BY <1>1, <1>3, <2>1, <2>2
<1> QED
  BY <1>2, <1>3 DEF Whole, Positions

\* Rows are one chain to one end only.
LEMMA WholeEndsOnce ==
  ASSUME NEW rows, NEW p, NEW q, Whole(rows, p), Whole(rows, q)
  PROVE  p = q
<1>1. p.seq \in Nat /\ q.seq \in Nat
  BY DEF Whole
<1>2. p.seq = q.seq
  <2>1. p.seq # 0 => p.seq <= q.seq
    BY <1>1, WholeNumbers
  <2>2. q.seq # 0 => q.seq <= p.seq
    BY <1>1, WholeNumbers
  <2> QED
    BY <1>1, <2>1, <2>2
<1>3. CASE p.seq = 0
  BY <1>2, <1>3, WholeEnds
<1>4. CASE p.seq # 0
  <2>1. PICK e \in rows : e.seq = p.seq
    BY <1>1, <1>4, WholeNumbers
  <2> QED
    BY <1>2, <2>1, WholeEnds
<1> QED
  BY <1>3, <1>4

\* A link at the end of a whole chain makes a longer one.
LEMMA LinkExtends ==
  ASSUME NEW rows, NEW p, NEW v, Whole(rows, p)
  PROVE  LET event == Link(p, v)
         IN /\ Whole(rows \cup {event}, Position(event.seq, event.hash))
            /\ event.seq = p.seq + 1 /\ IsEvent(event)
<1> DEFINE event == Link(p, v)
           more == rows \cup {event}
           end == Position(event.seq, event.hash)
<1>1. /\ event.seq = p.seq + 1 /\ event.previous = p.hash
      /\ event.hash = Hash(p.hash, event.seq, event.envelope)
      /\ IsEvent(event)
  BY DEF Link, IsEvent
<1>2. p.seq \in Nat /\ p \in Positions(rows)
  BY DEF Whole
<1>3. end.seq = event.seq /\ end.seq \in Nat
  BY <1>1, <1>2 DEF Position
<1>4. \A e \in rows : e.seq \in Nat /\ 1 <= e.seq /\ e.seq <= p.seq
  BY WholeNumbers
<1> HIDE DEF event
<1>5. {e.seq : e \in more} = 1 .. end.seq
  <2>1. \A e \in more : e.seq \in 1 .. end.seq
    BY <1>1, <1>2, <1>3, <1>4
  <2>2. ASSUME NEW n \in 1 .. end.seq PROVE \E e \in more : e.seq = n
    <3>1. CASE n = event.seq
      BY <3>1
    <3>2. CASE n # event.seq
      <4>1. n \in 1 .. p.seq
        BY <1>1, <1>2, <1>3, <3>2
      <4> QED
        BY <4>1, WholeNumbers
    <3> QED
      BY <3>1, <3>2
  <2> QED
    BY <2>1, <2>2
<1>6. \A e, f \in more : e.seq = f.seq => e = f
  <2>1. \A e \in rows : e.seq # event.seq
    BY <1>1, <1>2, <1>4
  <2> QED
    BY <2>1 DEF Whole
<1>7. Positions(rows) \subseteq Positions(more) /\ end \in Positions(more)
  BY DEF Positions
<1>8. \A e \in more : \E q \in Positions(more) : CheckLink(q, e)
  <2>1. CheckLink(p, event)
    BY <1>1 DEF CheckLink
  <2> QED
    BY <1>2, <1>7, <2>1 DEF Whole
<1>9. Whole(more, end)
  BY <1>3, <1>5, <1>6, <1>7, <1>8 DEF Whole
<1> QED
  BY <1>1, <1>9 DEF event

-----------------------------------------------------------------------------
(* What a verification reads of rows that are numbered, each number once.  *)

Numbered(rows, n) ==
  /\ IsFiniteSet(rows) /\ n \in Nat
  /\ \A e \in rows : e.seq \in Nat /\ 1 <= e.seq /\ e.seq <= n
  /\ \A e, f \in rows : e.seq = f.seq => e = f

Before(rows, event) == {e \in rows : e.seq < event.seq}

\* A page holds rows past the position, none left out, and none only at the end.
LEMMA PageOf ==
  ASSUME NEW rows, NEW n, Numbered(rows, n), NEW seq \in Nat
  PROVE  LET page == NextPage(rows, seq)
         IN /\ page \subseteq rows /\ \A e \in page : e.seq > seq
            /\ \A e \in page, f \in rows : seq < f.seq /\ f.seq <= e.seq => f \in page
            /\ page = {} => \A e \in rows : e.seq <= seq
<1> DEFINE between(event) == {e \in rows : seq < e.seq /\ e.seq < event.seq}
           page == NextPage(rows, seq)
<1>1. page = {event \in rows : event.seq > seq /\ Cardinality(between(event)) < Page}
  BY DEF NextPage
<1>2. \A e \in rows : e.seq \in Nat
  BY DEF Numbered
<1>3. ASSUME NEW e \in rows
      PROVE  IsFiniteSet(between(e)) /\ Cardinality(between(e)) \in Nat
  <2>1. between(e) \in SUBSET rows
    OBVIOUS
  <2>2. IsFiniteSet(between(e))
    BY <2>1, FS_Subset DEF Numbered
  <2> QED
    BY <2>2, FS_CardinalityType
<1>4. ASSUME NEW e \in page, NEW f \in rows, seq < f.seq, f.seq <= e.seq
      PROVE  f \in page
  <2>1. e \in rows /\ Cardinality(between(e)) < Page
    BY <1>1, <1>4
  <2>2. between(f) \in SUBSET between(e)
    BY <1>2, <1>4, <2>1
  <2>3. Cardinality(between(f)) <= Cardinality(between(e))
    BY <1>3, <2>1, <2>2, FS_Subset
  <2>4. Cardinality(between(f)) < Page
    BY <1>3, <1>4, <2>1, <2>3, ChainAssumption
  <2> QED
    BY <1>1, <1>2, <1>4, <2>4
<1>5. ASSUME page = {}, NEW e \in rows PROVE e.seq <= seq
  <2>1. SUFFICES ASSUME e.seq > seq PROVE FALSE
    BY <1>2
  <2> DEFINE T == {m \in Nat : \E f \in rows : f.seq = m /\ m > seq}
  <2>2. T \subseteq Nat /\ T # {}
    BY <1>2, <1>5, <2>1
  <2>3. PICK m \in T : \A k \in T : m <= k
    BY <2>2, SmallestOf
  <2>4. PICK f \in rows : f.seq = m /\ m > seq
    BY <2>3
  <2>5. between(f) = {}
    BY <1>2, <2>3, <2>4
  <2>6. Cardinality(between(f)) < Page
    BY <2>5, FS_EmptySet, ChainAssumption
  <2>7. f \in page
    BY <1>1, <2>4, <2>6
  <2> QED
    BY <1>5, <2>7
<1>6. page \subseteq rows /\ \A e \in page : e.seq > seq
  BY <1>1
<1> HIDE DEF page
<1> QED
  BY <1>4, <1>5, <1>6 DEF page

\* Past some rows, a walk stands at the last of them.
LEMMA LastOf ==
  ASSUME NEW rows, NEW n, Numbered(rows, n), NEW S, S \subseteq rows, S # {}, NEW p
  PROVE  \E last \in S : /\ \A f \in S : f.seq <= last.seq
                         /\ PositionAfter(p, S) = Position(last.seq, last.hash)
<1> DEFINE T == {m \in Nat : \E f \in S : f.seq = m}
<1>1. \A e \in S : e.seq \in Nat /\ e.seq <= n
  BY DEF Numbered
<1>2. T \subseteq Nat /\ T # {} /\ n \in Nat /\ \A m \in T : m <= n
  BY <1>1 DEF Numbered
<1>3. PICK m \in T : \A k \in T : k <= m
  BY <1>2, LargestOf
<1>4. \E e \in S : \A f \in S : f.seq <= e.seq
  BY <1>1, <1>3
<1> DEFINE last == CHOOSE e \in S : \A f \in S : f.seq <= e.seq
<1>5. last \in S /\ \A f \in S : f.seq <= last.seq
  BY <1>4
<1>6. PositionAfter(p, S) = Position(last.seq, last.hash)
  BY DEF PositionAfter
<1> HIDE DEF last
<1> QED
  BY <1>5, <1>6

\* If every link of a page checks, the chain behind the walk is whole again.
LEMMA PageCarriesOn ==
  ASSUME NEW rows, NEW n, Numbered(rows, n), NEW at, Whole(UpTo(rows, at.seq), at),
         NextPage(rows, at.seq) # {},
         \A e \in NextPage(rows, at.seq) :
           CheckLink(PositionAfter(at, Before(NextPage(rows, at.seq), e)), e)
  PROVE  LET p == PositionAfter(at, NextPage(rows, at.seq)) IN Whole(UpTo(rows, p.seq), p)
<1> DEFINE page == NextPage(rows, at.seq)
           p == PositionAfter(at, page)
           old == UpTo(rows, at.seq)
           new == UpTo(rows, p.seq)
<1>1. at.seq \in Nat
  BY DEF Whole
<1>2. /\ page \subseteq rows /\ \A e \in page : e.seq > at.seq
      /\ \A e \in page, f \in rows : at.seq < f.seq /\ f.seq <= e.seq => f \in page
  BY <1>1, PageOf
<1>3. \A e \in rows : e.seq \in Nat /\ 1 <= e.seq
  BY DEF Numbered
<1>4. \A e \in page : CheckLink(PositionAfter(at, Before(page, e)), e)
  OBVIOUS
<1>5. page # {}
  OBVIOUS
<1> HIDE DEF page
<1>6. PICK last \in page : (\A f \in page : f.seq <= last.seq) /\ p = Position(last.seq, last.hash)
  BY <1>2, <1>5, LastOf
<1>7. p.seq = last.seq /\ p.seq \in Nat /\ last.seq > at.seq
  BY <1>2, <1>3, <1>6 DEF Position
<1> HIDE DEF p
<1>8. /\ old \subseteq new /\ page \subseteq new /\ new \subseteq rows
      /\ \A e \in new : e \in old \/ e \in page
  BY <1>1, <1>2, <1>3, <1>6, <1>7 DEF UpTo
<1>9. ASSUME NEW e \in page
      PROVE  \/ PositionAfter(at, Before(page, e)) = at /\ e.seq = at.seq + 1
             \/ \E f \in page : /\ PositionAfter(at, Before(page, e)) = Position(f.seq, f.hash)
                                /\ e.seq = f.seq + 1
  <2>1. CASE Before(page, e) = {}
    <3>1. PositionAfter(at, Before(page, e)) = at
      BY <2>1 DEF PositionAfter
    <3> QED
      BY <1>4, <1>9, <3>1 DEF CheckLink
  <2>2. CASE Before(page, e) # {}
    <3>1. Before(page, e) \subseteq rows /\ Before(page, e) \subseteq page
      BY <1>2 DEF Before
    <3>2. PICK f \in Before(page, e) : PositionAfter(at, Before(page, e)) = Position(f.seq, f.hash)
      BY <2>2, <3>1, LastOf
    <3>3. e.seq = f.seq + 1
      BY <1>4, <1>9, <3>2 DEF CheckLink, Position
    <3> QED
      BY <3>1, <3>2, <3>3
  <2> QED
    BY <2>1, <2>2
<1>10. \A m \in 1 .. p.seq : \E e \in new : e.seq = m
  <2>1. SUFFICES ASSUME NEW w \in 1 .. p.seq, ~\E e \in new : e.seq = w PROVE FALSE
    OBVIOUS
  <2> DEFINE missing == {k \in Nat : 1 <= k /\ k <= p.seq /\ ~\E e \in new : e.seq = k}
  <2>2. missing \subseteq Nat /\ missing # {} /\ \A k \in missing : k <= p.seq
    BY <1>7, <2>1
  <2>3. PICK m \in missing : \A k \in missing : k <= m
    BY <1>7, <2>2, LargestOf
  <2>4. m # last.seq /\ m < last.seq /\ m \in Nat /\ m + 1 <= p.seq
    BY <1>6, <1>7, <1>8, <2>3
  <2>5. m > at.seq
    <3>1. SUFFICES ASSUME m <= at.seq PROVE FALSE
      BY <1>1, <2>4
    <3>2. m \in 1 .. at.seq
      BY <1>1, <2>3, <3>1
    <3>3. \E e \in old : e.seq = m
      BY <3>2, WholeNumbers
    <3> QED
      BY <1>8, <2>3, <3>3
  <2>6. PICK e \in new : e.seq = m + 1
    <3>1. m + 1 \notin missing
      BY <2>3, <2>4
    <3> QED
      BY <2>4, <3>1
  <2>7. e \in page
    BY <1>1, <1>8, <2>4, <2>5, <2>6 DEF UpTo
  <2>8. PICK f \in page : e.seq = f.seq + 1
    BY <1>1, <1>9, <2>4, <2>5, <2>6, <2>7
  <2>9. f.seq = m
    BY <1>2, <1>3, <2>4, <2>6, <2>8
  <2> QED
    BY <1>8, <2>3, <2>8, <2>9
<1>11. {e.seq : e \in new} = 1 .. p.seq
  <2>1. \A e \in new : e.seq \in 1 .. p.seq
    BY <1>3, <1>7 DEF UpTo
  <2> QED
    BY <1>10, <2>1
<1>12. \A e, f \in new : e.seq = f.seq => e = f
  BY <1>8 DEF Numbered
<1>13. p \in Positions(new) /\ Positions(old) \subseteq Positions(new)
       /\ Positions(page) \subseteq Positions(new)
  BY <1>6, <1>8 DEF Positions
<1>14. ASSUME NEW e \in new PROVE \E q \in Positions(new) : CheckLink(q, e)
  <2>1. CASE e \in old
    BY <2>1, <1>13 DEF Whole
  <2>2. CASE e \in page
    <3>1. at \in Positions(new)
      BY <1>13 DEF Whole
    <3>2. \A f \in page : Position(f.seq, f.hash) \in Positions(new)
      BY <1>13 DEF Positions
    <3> QED
      BY <1>4, <1>9, <2>2, <3>1, <3>2
  <2> QED
    BY <1>8, <1>14, <2>1, <2>2
<1>15. Whole(new, p)
  BY <1>7, <1>11, <1>12, <1>13, <1>14 DEF Whole
<1> QED
  BY <1>15 DEF p, page

\* Every link of a page of a whole chain checks.
LEMMA PageOfWhole ==
  ASSUME NEW rows, NEW head, Whole(rows, head), IsFiniteSet(rows),
         NEW at, Whole(UpTo(rows, at.seq), at), NEW e \in NextPage(rows, at.seq)
  PROVE  CheckLink(PositionAfter(at, Before(NextPage(rows, at.seq), e)), e)
<1> DEFINE page == NextPage(rows, at.seq)
           old == UpTo(rows, at.seq)
<1>1. at.seq \in Nat /\ head.seq \in Nat
  BY DEF Whole
<1>2. Numbered(rows, head.seq)
  BY WholeNumbers DEF Numbered, Whole
<1>3. /\ page \subseteq rows /\ \A f \in page : f.seq > at.seq
      /\ \A d \in page, f \in rows : at.seq < f.seq /\ f.seq <= d.seq => f \in page
  BY <1>1, <1>2, PageOf
<1>4. e \in page
  OBVIOUS
<1> HIDE DEF page
<1>5. \A f \in rows : f.seq \in Nat /\ 1 <= f.seq
  BY <1>2 DEF Numbered
<1>6. PICK q \in Positions(rows) : CheckLink(q, e)
  BY <1>3, <1>4 DEF Whole
<1>7. e.seq = q.seq + 1 /\ e \in rows /\ e.seq > at.seq
  BY <1>3, <1>4, <1>6 DEF CheckLink
<1>8. q.seq \in Nat
  BY <1>5, <1>6 DEF Positions, Position
<1>9. CASE q.seq = at.seq
  <2>1. Before(page, e) = {}
    BY <1>1, <1>3, <1>5, <1>7, <1>9 DEF Before
  <2>2. q = at
    <3>1. CASE q = Position(0, Genesis)
      BY <1>9, <3>1, WholeEnds DEF Position
    <3>2. ASSUME NEW f \in rows, q = Position(f.seq, f.hash) PROVE q = at
      <4>1. f.seq = at.seq
        BY <1>9, <3>2 DEF Position
      <4>2. f \in old
        BY <1>1, <4>1 DEF UpTo
      <4> QED
        BY <3>2, <4>1, <4>2, WholeEnds
    <3> QED
      BY <1>6, <3>1, <3>2 DEF Positions
  <2> QED
    BY <1>6, <2>1, <2>2 DEF PositionAfter, page
<1>10. CASE q.seq # at.seq
  <2>1. q.seq > at.seq
    BY <1>1, <1>7, <1>8, <1>10
  <2>2. PICK f \in rows : q = Position(f.seq, f.hash)
    BY <1>1, <1>6, <2>1 DEF Positions, Position
  <2>3. f.seq = q.seq
    BY <2>2 DEF Position
  <2>4. f \in page /\ f \in Before(page, e)
    BY <1>1, <1>3, <1>4, <1>5, <1>7, <2>1, <2>3 DEF Before
  <2>5. Before(page, e) \subseteq rows /\ \A d \in Before(page, e) : d.seq < e.seq
    BY <1>3 DEF Before
  <2>6. PICK last \in Before(page, e) :
          /\ \A d \in Before(page, e) : d.seq <= last.seq
          /\ PositionAfter(at, Before(page, e)) = Position(last.seq, last.hash)
    BY <1>2, <2>4, <2>5, LastOf
  <2>7. last.seq = f.seq
    BY <1>5, <1>7, <1>8, <2>3, <2>4, <2>5, <2>6
  <2>8. last = f
    BY <1>2, <2>5, <2>7 DEF Numbered
  <2> QED
    BY <1>6, <2>2, <2>6, <2>8 DEF page
<1> QED
  BY <1>9, <1>10

\* With one row changed or removed, a chain is no longer whole.
LEMMA OneChangedIsSeen ==
  ASSUME HashTellsApart, NEW W, NEW p, Whole(W, p), \A e \in W : IsEvent(e),
         NEW rows, OneChanged(W, rows)
  PROVE  ~Whole(rows, p)
<1> SUFFICES ASSUME Whole(rows, p) PROVE FALSE
  OBVIOUS
<1>1. PICK f \in W : \/ rows = W \ {f}
                     \/ \E v : v # f.envelope /\ rows = (W \ {f}) \cup {[f EXCEPT !.envelope = v]}
  BY DEF OneChanged
<1>2. CASE rows = W \ {f}
  <2>1. f.seq \in 1 .. p.seq
    BY WholeNumbers
  <2>2. PICK e \in rows : e.seq = f.seq
    BY <2>1, WholeNumbers
  <2> QED
    BY <1>2, <2>2 DEF Whole
<1>3. ASSUME NEW v, v # f.envelope, rows = (W \ {f}) \cup {[f EXCEPT !.envelope = v]}
      PROVE  FALSE
  <2> DEFINE e == [f EXCEPT !.envelope = v]
  <2>1. e.seq = f.seq /\ e.previous = f.previous /\ e.hash = f.hash /\ e.envelope = v
    BY DEF IsEvent
  <2>2. e \in rows
    BY <1>3
  <2> HIDE DEF e
  <2>3. PICK q \in Positions(rows) : CheckLink(q, e)
    BY <2>2 DEF Whole
  <2>4. e.hash = Hash(e.previous, e.seq, e.envelope)
    BY <2>3 DEF CheckLink
  <2>5. PICK d \in Positions(W) : CheckLink(d, f)
    BY DEF Whole
  <2>6. f.hash = Hash(f.previous, f.seq, f.envelope)
    BY <2>5 DEF CheckLink
  <2> QED
    BY <1>3, <2>1, <2>4, <2>6 DEF HashTellsApart
<1> QED
  BY <1>1, <1>2, <1>3

-----------------------------------------------------------------------------
(* The inductive invariant.                                                *)

StorageFits ==
  /\ com = [x \in Rows |-> com[x]] /\ cur = [x \in Rows |-> cur[x]]
  /\ writer \in [Rows -> Works \cup {None}]
  /\ sharers = [x \in Rows |-> {}]
  /\ writer[HeadRow] = None => cur[HeadRow] = com[HeadRow]
  /\ writer[HeadRow] # None => cur[HeadRow] # None

\* Only the work that holds the head has inserted anything, and a work about
\* to link an event has a head to link it to.
WorkFits(w) ==
  /\ IsFiniteSet(inserted[w])
  /\ inserted[w] # {} => writer[HeadRow] = w
  /\ step[w] = "link" => Sees(w, HeadRow) # None

\* W is what the server wrote, and what a work inserted carries it on.
IsWritten(W, rows, n, head) ==
  Whole(W, At(head)) /\ (\A e \in W : IsEvent(e)) /\ IsLeftOf(W, rows, n)

IsCarriedOn(W, more) ==
  /\ Whole(W \cup more, At(cur[HeadRow]))
  /\ \A e \in more : IsEvent(e) /\ e.seq > At(com[HeadRow]).seq

ChainFits ==
  \E W : /\ IsWritten(W, events, altered, com[HeadRow])
         /\ writer[HeadRow] # None => IsCarriedOn(W, inserted[writer[HeadRow]])

IsWalk(k) ==
  \E d, e, h, p, n :
    k = [verdict |-> d, events |-> e, head |-> h, at |-> p, altered |-> n]

\* What is behind a verification is whole, and its verdict is what is so.
WalkFits(k) ==
  k.verdict # "not_begun" =>
    /\ IsWalk(k)
    /\ k.verdict \in {"walking", "intact", "broken"}
    /\ \E W : IsWritten(W, k.events, k.altered, k.head)
    /\ k.verdict = "walking" => Whole(UpTo(k.events, k.at.seq), k.at)
    /\ k.verdict = "intact" => Whole(k.events, At(k.head))
    /\ k.verdict = "broken" => ~Whole(k.events, At(k.head))

Inv ==
  /\ StorageFits
  /\ inserted = [w \in Works |-> inserted[w]]
  /\ step \in [Works -> {"work", "link"}]
  /\ altered \in Nat
  /\ \A w \in Works : WorkFits(w)
  /\ ChainFits
  /\ walk = [v \in Verifiers |-> walk[v]]
  /\ \A v \in Verifiers : WalkFits(walk[v])

\* The head of the chain is a row of it.
LEMMA HeadIsARow == HeadRow \in Rows /\ \A x \in Rows : x = HeadRow
  BY ChainAssumption

\* At first there is no event, no head and no verification.
LEMMA InitFits == Init => Inv
<1> SUFFICES ASSUME Init PROVE Inv
  OBVIOUS
<1>1. StorageFits
  BY HeadIsARow DEF Init, StorageInit, StorageFits
<1>2. \A w \in Works : WorkFits(w)
  BY FS_EmptySet DEF Init, WorkFits
<1>3. com[HeadRow] = None /\ writer[HeadRow] = None
  BY HeadIsARow DEF Init, StorageInit
<1>4. IsWritten({}, {}, 0, None)
  BY EmptyIsWhole, FS_EmptySet DEF IsWritten, IsLeftOf, At
<1>5. ChainFits
  BY <1>3, <1>4 DEF ChainFits, Init
<1>6. \A v \in Verifiers : WalkFits(walk[v])
  BY DEF Init, WalkFits
<1> QED
  BY <1>1, <1>2, <1>5, <1>6 DEF Init, Inv

\* A step that leaves the events and every walk alone leaves the walks fitting.
LEMMA WalksStand ==
  ASSUME Inv, UNCHANGED walk
  PROVE  walk' = [v \in Verifiers |-> walk'[v]] /\ \A v \in Verifiers : WalkFits(walk[v])'
  BY DEF Inv

\* The first append of a realm writes its head, and holds it.
LEMMA EnsureHeadKeeps ==
  ASSUME NoneIsNoPosition, Inv, NEW w \in Works, EnsureHead(w)
  PROVE  Inv'
<1>1. /\ step[w] = "work" /\ step' = [step EXCEPT ![w] = "link"]
      /\ UNCHANGED <<events, inserted, altered, walk>>
  BY DEF EnsureHead
<1>2. step' \in [Works -> {"work", "link"}] /\ \A u \in Works : u # w => step'[u] = step[u]
  BY <1>1 DEF Inv
<1>3. CASE Sees(w, HeadRow) # None
  <2>1. UNCHANGED storage
    BY <1>3 DEF EnsureHead
  <2>2. StorageFits' /\ ChainFits'
    BY <1>1, <2>1 DEF storage, Inv, StorageFits, ChainFits, IsCarriedOn
  <2>3. \A u \in Works : WorkFits(u)'
    BY <1>1, <1>2, <1>3, <2>1 DEF storage, Inv, WorkFits, Sees
  <2> QED
    BY <1>1, <1>2, <2>2, <2>3, WalksStand DEF Inv
<1>4. CASE Sees(w, HeadRow) = None
  <2>1. WriteRow(w, HeadRow, Position(0, Genesis))
    BY <1>4 DEF EnsureHead
  <2>2. writer[HeadRow] = None /\ com[HeadRow] = None
    BY <1>4, <2>1, NoneAssumption DEF WriteRow, MayWrite, Sees, Inv, StorageFits
  <2>3. /\ com' = com /\ sharers' = sharers
        /\ cur'[HeadRow] = Position(0, Genesis) /\ writer'[HeadRow] = w
        /\ cur' = [x \in Rows |-> cur'[x]] /\ writer' \in [Rows -> Works \cup {None}]
    BY <2>1, HeadIsARow DEF WriteRow, Inv, StorageFits
  <2>4. w # None /\ cur'[HeadRow] # None
    BY <2>3, NoneAssumption DEF NoneIsNoPosition
  <2>5. StorageFits'
    BY <2>3, <2>4 DEF Inv, StorageFits
  <2>6. \A u \in Works : inserted[u] = {}
    BY <2>2, NoneAssumption DEF Inv, WorkFits
  <2>7. ChainFits'
    <3>1. PICK W : IsWritten(W, events, altered, com[HeadRow])
      BY DEF Inv, ChainFits
    <3>2. At(com[HeadRow]) = Position(0, Genesis) /\ At(cur'[HeadRow]) = Position(0, Genesis)
      BY <2>2, <2>3, <2>4 DEF At
    <3>3. W \cup inserted'[w] = W
      BY <1>1, <2>6
    <3>4. IsCarriedOn(W, inserted[w])'
      BY <1>1, <2>6, <3>1, <3>2, <3>3 DEF IsCarriedOn, IsWritten
    <3> QED
      BY <1>1, <2>3, <3>1, <3>4 DEF ChainFits
  <2>8. ASSUME NEW u \in Works PROVE WorkFits(u)'
    <3>1. step'[u] = "link" => Sees(u, HeadRow)' # None
      BY <1>2, <2>2, <2>3, <2>4, <2>8, NoneAssumption DEF Inv, WorkFits, Sees
    <3> QED
      BY <1>1, <2>6, <3>1, FS_EmptySet DEF Inv, WorkFits
  <2> QED
    BY <1>1, <1>2, <2>5, <2>7, <2>8, WalksStand DEF Inv
<1> QED
  BY <1>3, <1>4

\* An event is linked to the newest head, whose lock the work holds from here.
LEMMA AppendEventKeeps ==
  ASSUME NoneIsNoPosition, Inv, NEW w \in Works, AppendEvent(w)
  PROVE  Inv'
<1>1. PICK v \in Envelopes :
        LET event == Link(Sees(w, HeadRow), v)
        IN /\ WriteRow(w, HeadRow, Position(event.seq, event.hash))
           /\ inserted' = [inserted EXCEPT ![w] = @ \cup {event}]
  BY DEF AppendEvent
<1> DEFINE event == Link(Sees(w, HeadRow), v)
           end == Position(event.seq, event.hash)
<1>2. WriteRow(w, HeadRow, end) /\ inserted' = [inserted EXCEPT ![w] = @ \cup {event}]
  BY <1>1
<1>3. /\ step[w] = "link" /\ step' = [step EXCEPT ![w] = "work"]
      /\ UNCHANGED <<events, altered, walk>>
  BY DEF AppendEvent
<1>4. writer[HeadRow] \in {w, None} /\ Sees(w, HeadRow) = cur[HeadRow] /\ cur[HeadRow] # None
  BY <1>2, <1>3, NoneAssumption DEF WriteRow, MayWrite, Inv, WorkFits, StorageFits, Sees
<1>5. PICK W : /\ IsWritten(W, events, altered, com[HeadRow])
               /\ writer[HeadRow] # None => IsCarriedOn(W, inserted[writer[HeadRow]])
  BY DEF Inv, ChainFits
<1>6. IsCarriedOn(W, inserted[w])
  <2>1. CASE writer[HeadRow] = w
    BY <1>5, <2>1, NoneAssumption
  <2>2. CASE writer[HeadRow] = None
    <3>1. inserted[w] = {} /\ cur[HeadRow] = com[HeadRow]
      BY <2>2, NoneAssumption DEF Inv, WorkFits, StorageFits
    <3>2. W \cup inserted[w] = W
      BY <3>1
    <3> QED
      BY <1>5, <3>1, <3>2 DEF IsCarriedOn, IsWritten
  <2> QED
    BY <1>4, <2>1, <2>2
<1>7. At(cur[HeadRow]) = cur[HeadRow] /\ Whole(W \cup inserted[w], cur[HeadRow])
  BY <1>4, <1>6 DEF At, IsCarriedOn
<1>8. /\ Whole((W \cup inserted[w]) \cup {event}, end)
      /\ event.seq = cur[HeadRow].seq + 1 /\ IsEvent(event)
  BY <1>4, <1>7, LinkExtends
<1>9. cur[HeadRow].seq \in Nat /\ At(com[HeadRow]).seq \in Nat /\ At(com[HeadRow]).seq <= cur[HeadRow].seq
  <2>1. cur[HeadRow].seq \in Nat /\ At(com[HeadRow]).seq \in Nat
    BY <1>5, <1>7 DEF IsWritten, Whole
  <2>2. CASE At(com[HeadRow]).seq = 0
    BY <2>1, <2>2
  <2>3. CASE At(com[HeadRow]).seq # 0
    <3>1. PICK e \in W : e.seq = At(com[HeadRow]).seq
      BY <1>5, <2>1, <2>3, WholeNumbers DEF IsWritten
    <3>2. e \in W \cup inserted[w]
      BY <3>1
    <3> QED
      BY <1>7, <2>1, <3>1, <3>2, WholeNumbers
  <2> QED
    BY <2>2, <2>3
<1> HIDE DEF event
<1>10. /\ com' = com /\ sharers' = sharers
       /\ cur'[HeadRow] = end /\ writer'[HeadRow] = w
       /\ cur' = [x \in Rows |-> cur'[x]] /\ writer' \in [Rows -> Works \cup {None}]
  BY <1>2, HeadIsARow DEF WriteRow, Inv, StorageFits
<1>11. w # None /\ end # None
  BY NoneAssumption DEF NoneIsNoPosition
<1>12. StorageFits'
  BY <1>10, <1>11 DEF Inv, StorageFits
<1>13. /\ inserted'[w] = inserted[w] \cup {event}
       /\ inserted' = [u \in Works |-> inserted'[u]]
       /\ \A u \in Works : u # w => inserted'[u] = inserted[u]
  BY <1>2 DEF Inv
<1>14. ChainFits'
  <2>1. At(cur'[HeadRow]) = end
    BY <1>10, <1>11 DEF At
  <2>2. W \cup inserted'[w] = (W \cup inserted[w]) \cup {event}
    BY <1>13
  <2>3. \A e \in inserted'[w] : IsEvent(e) /\ e.seq > At(com[HeadRow]).seq
    BY <1>6, <1>8, <1>9, <1>13 DEF IsCarriedOn
  <2>4. IsCarriedOn(W, inserted[w])'
    BY <1>8, <1>10, <2>1, <2>2, <2>3 DEF IsCarriedOn
  <2> QED
    BY <1>3, <1>5, <1>10, <2>4 DEF ChainFits
<1>15. ASSUME NEW u \in Works PROVE WorkFits(u)'
  <2>1. CASE u = w
    <3>0. IsFiniteSet(inserted[w])
      BY DEF Inv, WorkFits
    <3>1. IsFiniteSet(inserted'[w])
      BY <1>13, <3>0, FS_AddElement
    <3>2. step'[w] = "work"
      BY <1>3 DEF Inv
    <3> QED
      BY <1>10, <2>1, <3>1, <3>2 DEF WorkFits
  <2>2. CASE u # w
    <3>1. inserted[u] = {} /\ inserted'[u] = {} /\ step'[u] = step[u]
      BY <1>3, <1>4, <1>13, <2>2, NoneAssumption DEF Inv, WorkFits
    <3>2. step[u] = "link" => Sees(u, HeadRow)' # None
      BY <1>4, <1>10, <2>2, NoneAssumption DEF Inv, WorkFits, Sees
    <3> QED
      BY <3>1, <3>2, FS_EmptySet DEF WorkFits
  <2> QED
    BY <2>1, <2>2
<1>16. step' \in [Works -> {"work", "link"}]
  BY <1>3 DEF Inv
<1> QED
  BY <1>3, <1>12, <1>13, <1>14, <1>15, <1>16, WalksStand DEF Inv

\* What a work inserted joins both the chain and the rows of the table.
LEMMA JoinBoth ==
  ASSUME NEW W, NEW rows, NEW n, NEW head, IsWritten(W, rows, n, head),
         NEW more, IsFiniteSet(more), NEW end, Whole(W \cup more, At(end)),
         \A e \in more : IsEvent(e) /\ e.seq > At(head).seq
  PROVE  IsWritten(W \cup more, rows \cup more, n, end)
<1>1. At(head).seq \in Nat /\ \A e \in W : e.seq \in Nat /\ e.seq <= At(head).seq
  BY WholeNumbers DEF IsWritten
<1>2. \A e \in W \cup more : e.seq \in Nat
  BY WholeNumbers
<1>3. IsLeftOf(W, rows, n)
  BY DEF IsWritten
<1>4. \A e \in W, f \in more : e.seq # f.seq /\ e # f
  BY <1>1, <1>2
<1>5. IsFiniteSet(rows \cup more)
  BY <1>3, FS_Union DEF IsLeftOf
<1>6. \A e \in rows \cup more : IsEvent(e) /\ \E f \in W \cup more : e.seq = f.seq
  BY <1>3 DEF IsLeftOf
<1>7. \A e, f \in rows \cup more : e.seq = f.seq => e = f
  <2>1. \A e \in rows, f \in more : e.seq # f.seq
    BY <1>3, <1>4 DEF IsLeftOf
  <2>2. \A e, f \in more : e.seq = f.seq => e = f
    BY DEF Whole
  <2> QED
    BY <1>3, <2>1, <2>2 DEF IsLeftOf
<1>8. ASSUME OneChanged(W, rows) PROVE OneChanged(W \cup more, rows \cup more)
  <2>1. PICK f \in W : \/ rows = W \ {f}
                       \/ \E v : v # f.envelope /\ rows = (W \ {f}) \cup {[f EXCEPT !.envelope = v]}
    BY <1>8 DEF OneChanged
  <2>2. f \notin more /\ f \in W \cup more
    BY <1>4
  <2>3. CASE rows = W \ {f}
    <3>1. rows \cup more = (W \cup more) \ {f}
      BY <2>2, <2>3
    <3> QED
      BY <2>2, <3>1 DEF OneChanged
  <2>4. ASSUME NEW v, v # f.envelope, rows = (W \ {f}) \cup {[f EXCEPT !.envelope = v]}
        PROVE  OneChanged(W \cup more, rows \cup more)
    <3> DEFINE g == [f EXCEPT !.envelope = v]
    <3>1. rows = (W \ {f}) \cup {g}
      BY <2>4
    <3>2. v # f.envelope
      BY <2>4
    <3> HIDE DEF g
    <3>3. rows \cup more = ((W \cup more) \ {f}) \cup {g}
      BY <2>2, <3>1
    <3> QED
      BY <2>2, <3>2, <3>3 DEF OneChanged, g
  <2> QED
    BY <2>1, <2>3, <2>4
<1>9. IsLeftOf(W \cup more, rows \cup more, n)
  BY <1>3, <1>5, <1>6, <1>7, <1>8 DEF IsLeftOf
<1> QED
  BY <1>9 DEF IsWritten

\* A commit publishes the head with the events that lead to it.
LEMMA CommitWorkKeeps ==
  ASSUME Inv, NEW w \in Works, CommitWork(w)
  PROVE  Inv'
<1>1. /\ step[w] = "work" /\ inserted[w] # {} /\ Commit(w)
      /\ events' = events \cup inserted[w]
      /\ inserted' = [inserted EXCEPT ![w] = {}]
      /\ UNCHANGED <<step, altered, walk>>
  BY DEF CommitWork
<1>2. writer[HeadRow] = w /\ w # None /\ cur[HeadRow] # None
  BY <1>1, NoneAssumption DEF Inv, WorkFits, StorageFits
<1>3. /\ com'[HeadRow] = cur[HeadRow] /\ cur' = cur /\ writer'[HeadRow] = None
      /\ com' = [x \in Rows |-> com'[x]] /\ writer' \in [Rows -> Works \cup {None}]
      /\ sharers' = [x \in Rows |-> {}]
  BY <1>1, <1>2, HeadIsARow DEF Commit, Released, Inv, StorageFits
<1>4. StorageFits'
  BY <1>3 DEF Inv, StorageFits
<1>5. PICK W : IsWritten(W, events, altered, com[HeadRow]) /\ IsCarriedOn(W, inserted[w])
  BY <1>2 DEF Inv, ChainFits
<1>6. IsWritten(W \cup inserted[w], events \cup inserted[w], altered, cur[HeadRow])
  BY <1>5, JoinBoth DEF IsCarriedOn, Inv, WorkFits
<1>7. ChainFits'
  BY <1>1, <1>3, <1>6 DEF ChainFits
<1>8. ASSUME NEW u \in Works PROVE WorkFits(u)'
  <2>1. inserted'[u] = {}
    BY <1>1, <1>2, <1>8 DEF Inv, WorkFits
  <2>2. step'[u] = "link" => Sees(u, HeadRow)' # None
    BY <1>1, <1>2, <1>3, <1>8, NoneAssumption DEF Sees
  <2> QED
    BY <2>1, <2>2, FS_EmptySet DEF WorkFits
<1>9. inserted' = [u \in Works |-> inserted'[u]]
  BY <1>1 DEF Inv
<1> QED
  BY <1>1, <1>4, <1>7, <1>8, <1>9, WalksStand DEF Inv

\* What is abandoned is as if it had never been.
LEMMA AbandonWorkKeeps ==
  ASSUME Inv, NEW w \in Works, AbandonWork(w)
  PROVE  Inv'
<1>1. /\ Rollback(w) /\ inserted' = [inserted EXCEPT ![w] = {}]
      /\ step' = [step EXCEPT ![w] = "work"] /\ UNCHANGED <<events, altered, walk>>
  BY DEF AbandonWork
<1>2. /\ com' = com
      /\ cur'[HeadRow] = IF writer[HeadRow] = w THEN com[HeadRow] ELSE cur[HeadRow]
      /\ writer'[HeadRow] = IF writer[HeadRow] = w THEN None ELSE writer[HeadRow]
      /\ cur' = [x \in Rows |-> cur'[x]] /\ writer' \in [Rows -> Works \cup {None}]
      /\ sharers' = [x \in Rows |-> {}]
  BY <1>1, HeadIsARow DEF Rollback, Released, Inv, StorageFits
<1>3. StorageFits'
  BY <1>2 DEF Inv, StorageFits
<1>4. /\ inserted' = [u \in Works |-> inserted'[u]] /\ inserted'[w] = {}
      /\ \A u \in Works : u # w => inserted'[u] = inserted[u] /\ step'[u] = step[u]
      /\ step' \in [Works -> {"work", "link"}] /\ step'[w] = "work"
  BY <1>1 DEF Inv
<1>5. ChainFits'
  <2>1. PICK W : /\ IsWritten(W, events, altered, com[HeadRow])
                 /\ writer[HeadRow] # None => IsCarriedOn(W, inserted[writer[HeadRow]])
    BY DEF Inv, ChainFits
  <2>2. ASSUME writer'[HeadRow] # None PROVE IsCarriedOn(W, inserted[writer[HeadRow]])'
    <3>1. writer[HeadRow] \in Works /\ writer[HeadRow] # w /\ writer'[HeadRow] = writer[HeadRow]
      BY <1>2, <2>2, HeadIsARow DEF Inv, StorageFits
    <3> QED
      BY <1>2, <1>4, <2>1, <2>2, <3>1 DEF IsCarriedOn
  <2> QED
    BY <1>1, <1>2, <2>1, <2>2 DEF ChainFits
<1>6. ASSUME NEW u \in Works PROVE WorkFits(u)'
  <2>1. CASE u = w
    BY <1>4, <2>1, FS_EmptySet DEF WorkFits
  <2>2. CASE u # w
    <3>1. WorkFits(u)
      BY DEF Inv
    <3>2. Sees(u, HeadRow)' = Sees(u, HeadRow)
      BY <1>2, <2>2, NoneAssumption DEF Sees
    <3> QED
      BY <1>2, <1>4, <2>2, <3>1, <3>2 DEF WorkFits
  <2> QED
    BY <2>1, <2>2
<1> QED
  BY <1>1, <1>3, <1>4, <1>5, <1>6, WalksStand DEF Inv

\* Behind the server's back: what it wrote stays, and the rows are left of it.
LEMMA TamperKeeps ==
  ASSUME Inv, AlterEvent \/ RemoveEvent
  PROVE  Inv'
<1>1. altered' = altered + 1 /\ UNCHANGED <<storage, inserted, step, walk>>
  BY DEF AlterEvent, RemoveEvent
<1>2. PICK W : /\ IsWritten(W, events, altered, com[HeadRow])
               /\ writer[HeadRow] # None => IsCarriedOn(W, inserted[writer[HeadRow]])
  BY DEF Inv, ChainFits
<1>3. IsLeftOf(W, events, altered) /\ \A e \in W : IsEvent(e)
  BY <1>2 DEF IsWritten
<1>4. altered' \in Nat /\ altered' # 0 /\ (altered' = 1 => altered = 0)
  BY <1>1 DEF Inv
<1>5. IsLeftOf(W, events', altered')
  <2>1. CASE RemoveEvent
    <3>1. PICK e \in events : events' = events \ {e}
      BY <2>1 DEF RemoveEvent
    <3>2. IsFiniteSet(events')
      BY <1>3, <3>1, FS_RemoveElement DEF IsLeftOf
    <3>3. altered' = 1 => OneChanged(W, events')
      BY <1>3, <1>4, <3>1 DEF IsLeftOf, OneChanged
    <3> QED
      BY <1>3, <1>4, <3>1, <3>2, <3>3 DEF IsLeftOf
  <2>2. CASE AlterEvent
    <3>1. PICK e \in events, v \in Envelopes :
            v # e.envelope /\ events' = (events \ {e}) \cup {[e EXCEPT !.envelope = v]}
      BY <2>2 DEF AlterEvent
    <3> DEFINE f == [e EXCEPT !.envelope = v]
    <3>2. IsEvent(e)
      BY <1>3 DEF IsLeftOf
    <3>3. f.seq = e.seq /\ IsEvent(f)
      <4>1. PICK n, q, h, u : e = [seq |-> n, previous |-> q, hash |-> h, envelope |-> u]
        BY <3>2 DEF IsEvent
      <4>2. f = [seq |-> n, previous |-> q, hash |-> h, envelope |-> v]
        BY <4>1
      <4> QED
        BY <4>1, <4>2 DEF IsEvent
    <3>4. v # e.envelope /\ events' = (events \ {e}) \cup {f}
      BY <3>1
    <3>5. altered' = 1 => OneChanged(W, events')
      BY <1>3, <1>4, <3>4 DEF IsLeftOf, OneChanged
    <3> HIDE DEF f
    <3>6. IsFiniteSet(events')
      <4>1. IsFiniteSet(events \ {e})
        BY <1>3, FS_RemoveElement DEF IsLeftOf
      <4> QED
        BY <3>4, <4>1, FS_AddElement
    <3>7. \A d \in events' : IsEvent(d) /\ \E g \in W : d.seq = g.seq
      BY <1>3, <3>3, <3>4 DEF IsLeftOf
    <3>8. \A d, g \in events' : d.seq = g.seq => d = g
      BY <1>3, <3>3, <3>4 DEF IsLeftOf
    <3> QED
      BY <1>4, <3>5, <3>6, <3>7, <3>8 DEF IsLeftOf
  <2> QED
    BY <2>1, <2>2
<1>6. ChainFits'
  <2>1. IsWritten(W, events', altered', com[HeadRow])
    BY <1>2, <1>5 DEF IsWritten
  <2> QED
    BY <1>1, <1>2, <2>1 DEF ChainFits, storage, IsCarriedOn
<1>7. StorageFits' /\ \A w \in Works : WorkFits(w)'
  BY <1>1 DEF Inv, storage, StorageFits, WorkFits, Sees
<1> QED
  BY <1>1, <1>4, <1>6, <1>7, WalksStand DEF Inv

\* A verification begins on a snapshot of what the server wrote.
LEMMA BeginVerifyKeeps ==
  ASSUME Inv, NEW v \in Verifiers, BeginVerify(v)
  PROVE  Inv'
<1>1. /\ UNCHANGED <<storage, chain, altered>>
      /\ walk' = [walk EXCEPT ![v] =
           [verdict |-> "walking", events |-> events, head |-> com[HeadRow],
            at |-> Position(0, Genesis), altered |-> altered]]
  BY DEF BeginVerify
<1> DEFINE k == [verdict |-> "walking", events |-> events, head |-> com[HeadRow],
                 at |-> Position(0, Genesis), altered |-> altered]
<1>2. /\ k.verdict = "walking" /\ k.events = events /\ k.head = com[HeadRow]
      /\ k.at = Position(0, Genesis) /\ k.at.seq = 0 /\ k.altered = altered /\ IsWalk(k)
  BY DEF Position, IsWalk
<1>3. /\ walk'[v] = k /\ walk' = [u \in Verifiers |-> walk'[u]]
      /\ \A u \in Verifiers : u # v => walk'[u] = walk[u]
  BY <1>1 DEF Inv
<1> HIDE DEF k
<1>4. PICK W : IsWritten(W, events, altered, com[HeadRow])
  BY DEF Inv, ChainFits
<1>5. UpTo(events, 0) = {}
  <2>1. \A e \in W : e.seq \in Nat /\ 1 <= e.seq
    BY <1>4, WholeNumbers DEF IsWritten
  <2> QED
    BY <1>4, <2>1 DEF UpTo, IsWritten, IsLeftOf
<1>6. WalkFits(k)
  BY <1>2, <1>4, <1>5, EmptyIsWhole DEF WalkFits
<1>7. \A u \in Verifiers : WalkFits(walk[u])'
  BY <1>3, <1>6 DEF Inv
<1>8. StorageFits' /\ ChainFits' /\ \A w \in Works : WorkFits(w)'
  BY <1>1 DEF Inv, storage, chain, StorageFits, ChainFits, IsCarriedOn, WorkFits, Sees
<1> QED
  BY <1>1, <1>3, <1>7, <1>8 DEF Inv, chain

\* A page carries the whole chain behind the walk on, or the snapshot is broken;
\* past the last page, the head is where the chain stands, or it is broken.
LEMMA VerifyPageKeeps ==
  ASSUME NoneIsNoPosition, Inv, NEW v \in Verifiers, VerifyPage(v)
  PROVE  Inv'
<1> DEFINE k == walk[v]
           page == NextPage(k.events, k.at.seq)
           checks == \A e \in page : CheckLink(PositionAfter(k.at, Before(page, e)), e)
           ends == (k.head = None /\ k.at.seq = 0) \/ k.head = k.at
<1>1. /\ k.verdict = "walking" /\ UNCHANGED <<storage, chain, altered>>
      /\ IF page # {}
         THEN IF checks
              THEN walk' = [walk EXCEPT ![v].at = PositionAfter(k.at, page)]
              ELSE walk' = [walk EXCEPT ![v].verdict = "broken"]
         ELSE walk' = [walk EXCEPT ![v].verdict = IF ends THEN "intact" ELSE "broken"]
  BY DEF VerifyPage, Before
<1>2. /\ IsWalk(k) /\ Whole(UpTo(k.events, k.at.seq), k.at)
      /\ \E W : IsWritten(W, k.events, k.altered, k.head)
  BY <1>1 DEF Inv, WalkFits
<1>3. PICK W : IsWritten(W, k.events, k.altered, k.head)
  BY <1>2
<1>4. Numbered(k.events, At(k.head).seq)
  <2>1. At(k.head).seq \in Nat /\ \A e \in W : e.seq \in Nat /\ 1 <= e.seq /\ e.seq <= At(k.head).seq
    BY <1>3, WholeNumbers DEF IsWritten
  <2> QED
    BY <1>3, <2>1 DEF Numbered, IsWritten, IsLeftOf
<1>5. k.at.seq \in Nat /\ IsFiniteSet(k.events)
  BY <1>2, <1>4 DEF Whole, Numbered
<1>6. StorageFits' /\ ChainFits' /\ \A w \in Works : WorkFits(w)'
  BY <1>1 DEF Inv, storage, chain, StorageFits, ChainFits, IsCarriedOn, WorkFits, Sees
<1>7. SUFFICES ASSUME NEW j, WalkFits(j), walk' = [walk EXCEPT ![v] = j] PROVE Inv'
  <2>1. ASSUME NEW j, WalkFits(j), walk' = [walk EXCEPT ![v] = j] PROVE Inv'
    BY <1>7, <2>1
  <2>2. PICK d, e, h, p, n :
          k = [verdict |-> d, events |-> e, head |-> h, at |-> p, altered |-> n]
    BY <1>2 DEF IsWalk
  <2>3. CASE page # {} /\ checks
    <3> DEFINE j == [k EXCEPT !.at = PositionAfter(k.at, page)]
    <3>0. j = [verdict |-> d, events |-> e, head |-> h, at |-> PositionAfter(k.at, page),
               altered |-> n]
      BY <2>2
    <3>2. walk' = [walk EXCEPT ![v] = j]
      BY <1>1, <2>3
    <3> HIDE DEF j
    <3>1. /\ j.verdict = "walking" /\ j.events = k.events /\ j.head = k.head
          /\ j.altered = k.altered /\ j.at = PositionAfter(k.at, page)
      BY <1>1, <2>2, <3>0
    <3>5. IsWalk(j)
      BY <3>0, Zenon DEF IsWalk
    <3>3. Whole(UpTo(k.events, j.at.seq), j.at)
      BY <1>2, <1>4, <2>3, <3>1, PageCarriesOn
    <3>4. WalkFits(j)
      BY <1>2, <3>1, <3>3, <3>5 DEF WalkFits
    <3> QED
      BY <2>1, <3>2, <3>4
  <2>4. ASSUME NEW said \in {"intact", "broken"}, walk' = [walk EXCEPT ![v].verdict = said],
               said = "intact" <=> Whole(k.events, At(k.head))
        PROVE  Inv'
    <3> DEFINE j == [k EXCEPT !.verdict = said]
    <3>0. j = [verdict |-> said, events |-> e, head |-> h, at |-> p, altered |-> n]
      BY <2>2
    <3>2. walk' = [walk EXCEPT ![v] = j]
      BY <2>4
    <3> HIDE DEF j
    <3>1. /\ j.verdict = said /\ j.events = k.events /\ j.head = k.head
          /\ j.altered = k.altered
      BY <2>2, <3>0
    <3>4. IsWalk(j)
      BY <3>0, Zenon DEF IsWalk
    <3>3. WalkFits(j)
      BY <1>2, <2>4, <3>1, <3>4 DEF WalkFits
    <3> QED
      BY <2>1, <3>2, <3>3
  <2>5. CASE page # {} /\ ~checks
    <3>1. ~Whole(k.events, At(k.head))
      BY <1>2, <1>5, <2>5, PageOfWhole
    <3>2. walk' = [walk EXCEPT ![v].verdict = "broken"]
      BY <1>1, <2>5
    <3> QED
      BY <2>4, <3>1, <3>2
  <2>6. CASE page = {}
    <3>1. UpTo(k.events, k.at.seq) = k.events
      BY <1>4, <1>5, <2>6, PageOf DEF UpTo
    <3>2. Whole(k.events, k.at)
      BY <1>2, <3>1
    <3>3. Whole(k.events, At(k.head)) <=> k.at = At(k.head)
      BY <3>2, WholeEndsOnce
    <3>4. k.at # None /\ (k.at.seq = 0 => k.at = Position(0, Genesis))
      BY <3>2, WholeEnds DEF NoneIsNoPosition
    <3>5. Position(0, Genesis).seq = 0
      BY DEF Position
    <3>6. ends <=> k.at = At(k.head)
      BY <3>4, <3>5 DEF At
    <3>7. walk' = [walk EXCEPT ![v].verdict = IF ends THEN "intact" ELSE "broken"]
      BY <1>1, <2>6
    <3> HIDE DEF k, ends
    <3>8. CASE ends
      BY <2>4, <3>3, <3>6, <3>7, <3>8 DEF k
    <3>9. CASE ~ends
      BY <2>4, <3>3, <3>6, <3>7, <3>9 DEF k
    <3> QED
      BY <3>8, <3>9
  <2> QED
    BY <2>3, <2>5, <2>6
<1>8. /\ walk'[v] = j /\ walk' = [u \in Verifiers |-> walk'[u]]
      /\ \A u \in Verifiers : u # v => walk'[u] = walk[u]
  BY <1>7 DEF Inv
<1>9. \A u \in Verifiers : WalkFits(walk[u])'
  BY <1>7, <1>8 DEF Inv
<1> QED
  BY <1>1, <1>6, <1>8, <1>9 DEF Inv, chain

-----------------------------------------------------------------------------
(* What follows for every behaviour.                                       *)

\* The inductive invariant is kept by every step of the chain.
LEMMA NextKeeps ==
  ASSUME NoneIsNoPosition, Inv, [Next]_vars
  PROVE  Inv'
<1>1. CASE UNCHANGED vars
  BY <1>1, WalksStand DEF vars, storage, chain, Inv, StorageFits, ChainFits, IsCarriedOn,
                          WorkFits, Sees
<1>2. ASSUME NEW w \in Works,
             EnsureHead(w) \/ AppendEvent(w) \/ CommitWork(w) \/ AbandonWork(w)
      PROVE  Inv'
  BY <1>2, EnsureHeadKeeps, AppendEventKeeps, CommitWorkKeeps, AbandonWorkKeeps
<1>3. ASSUME NEW v \in Verifiers, BeginVerify(v) \/ VerifyPage(v)
      PROVE  Inv'
  BY <1>3, BeginVerifyKeeps, VerifyPageKeeps
<1> QED
  BY <1>1, <1>2, <1>3, TamperKeeps DEF Next

\* What the server wrote is one chain, whatever happens to its rows.
LEMMA InvHolds ==
  ASSUME NoneIsNoPosition
  PROVE  Spec => []Inv
<1>1. Init => Inv
  BY InitFits
<1>2. Inv /\ [Next]_vars => Inv'
  BY NextKeeps
<1> QED
  BY <1>1, <1>2, PTL DEF Spec

\* For any works, events and hash: as long as no row is changed behind the
\* server, the committed events are one chain that ends at the committed head.
THEOREM ChainStaysWhole ==
  ASSUME NoneIsNoPosition
  PROVE  Spec => []ChainIsWhole
<1>1. Inv => ChainIsWhole
  BY WholeIsWhole DEF Inv, ChainFits, IsWritten, IsLeftOf, ChainIsWhole
<1> QED
  BY <1>1, InvHolds, PTL

\* For any page size, and any number of rows changed or removed: a verification
\* calls its snapshot intact if and only if it is one chain, so it never calls
\* broken what nobody touched, nor, with a hash that tells events apart,
\* intact what lost or changed a row.
THEOREM VerdictsAreTrue ==
  ASSUME NoneIsNoPosition, HashTellsApart
  PROVE  Spec => []VerdictIsTrue
<1>1. Inv => VerdictIsTrue
  <2> SUFFICES ASSUME Inv, NEW v \in Verifiers, walk[v].verdict \in {"intact", "broken"}
               PROVE  IF walk[v].verdict = "intact"
                      THEN IsWhole(walk[v].events, walk[v].head) /\ walk[v].altered # 1
                      ELSE ~IsWhole(walk[v].events, walk[v].head) /\ walk[v].altered # 0
    BY DEF VerdictIsTrue
  <2> DEFINE k == walk[v]
  <2>1. WalkFits(k)
    BY DEF Inv
  <2>2. PICK W : IsWritten(W, k.events, k.altered, k.head)
    BY <2>1 DEF WalkFits
  <2>3. k.altered = 0 => Whole(k.events, At(k.head))
    BY <2>2 DEF IsWritten, IsLeftOf
  <2>4. k.altered = 1 => ~Whole(k.events, At(k.head))
    BY <2>2, OneChangedIsSeen DEF IsWritten, IsLeftOf
  <2> QED
    BY <2>1, <2>3, <2>4, WholeIsWhole DEF WalkFits
<1> QED
  BY <1>1, InvHolds, PTL

-----------------------------------------------------------------------------
(***************************************************************************)
(* For any units of work, probes and sessions, whatever is cancelled, lost *)
(* or given up and whoever borrows a session next: each unit of work runs  *)
(* in its own transaction, scope and settings, and is told what is kept.   *)
(***************************************************************************)

-----------------------------------------------------------------------------
(* The inductive invariant.                                                *)

Steps == {"wait", "recycle", "ready", "opening", "run", "writing", "committing", "undoing",
          "bounding", "reading", "end"}
Told == {Nobody, "busy", "abandoned", "unheard", "failed", "committed", "read", "timed out"}
Places == Callers \cup {"closed", "pool", "task"}

Item(do, c) == [do |-> do, for |-> c]

\* A caller that holds a session, or nothing.
IsActive(c) == call[c].step \notin {"wait", "end"}

Called == [step : Steps, sess : Sessions \cup {Nobody}, sent : 0..MaxWrites,
           failed : BOOLEAN, told : Told]

TypeOK ==
  /\ call \in [Callers -> Called]
  /\ DOMAIN link = Sessions /\ DOMAIN queue = Sessions
  /\ \A s \in Sessions : /\ link[s].at \in Places
                         /\ link[s] = [at |-> link[s].at, tx |-> link[s].tx, bound |-> link[s].bound]

\* The session s is in the transaction of w, with its first n writes unless one failed.
IsIn(s, w, n) ==
  \E B \in SUBSET ({w} \X (1..MaxWrites)) :
    /\ link[s].tx = [open |-> TRUE, for |-> w, scope |-> ScopeOf[w], by |-> B,
                     failed |-> call[w].failed]
    /\ ~call[w].failed => B = {w} \X (1..n)

\* What a caller that ended left in the queue of s.  A commit is of the whole
\* of its transaction, and its caller was told nothing of it.
IsLeft(s, x) ==
  /\ x.for \in Callers /\ call[x.for].step = "end"
  /\ x.do \in {"begin", "bound", "commit", "rollback"}
  /\ x.do = "commit" => /\ x.for \in Units /\ call[x.for].told = "unheard"
                        /\ ~call[x.for].failed /\ IsIn(s, x.for, call[x.for].sent)

\* What is queued in a session that is being recycled, and what it is by then.
RecycleFits(s, c) ==
  \/ queue[s] = <<>> /\ link[s].tx = NoTx /\ link[s].bound = "pool"
  \/ queue[s] = <<Item("reset", c)>> /\ link[s].tx = NoTx
  \/ queue[s] = <<Item("rollback", c), Item("reset", c)>>
  \/ \E x : IsLeft(s, x) /\ queue[s] = <<x, Item("rollback", c), Item("reset", c)>>

\* The queue and the transaction of a session, by the step of who holds it.
HeldFits(s, c) ==
  /\ call[c].sess = s /\ IsActive(c)
  /\ call[c].step = "recycle" => RecycleFits(s, c)
  /\ call[c].step = "ready" => queue[s] = <<>> /\ link[s].tx = NoTx
  /\ call[c].step = "opening" => queue[s] = <<Item("begin", c)>> /\ link[s].tx = NoTx
  /\ call[c].step = "run" => queue[s] = <<>> /\ IsIn(s, c, call[c].sent)
  /\ call[c].step = "writing" =>
       queue[s] = <<Item("write", c)>> /\ call[c].sent > 0 /\ IsIn(s, c, call[c].sent - 1)
  /\ call[c].step = "committing" =>
       queue[s] = <<Item("commit", c)>> /\ ~call[c].failed /\ IsIn(s, c, call[c].sent)
  /\ call[c].step = "undoing" => queue[s] = <<Item("rollback", c)>>
  /\ call[c].step = "bounding" => queue[s] = <<Item("bound", c)>>
  /\ call[c].step = "reading" => queue[s] = <<>>
  /\ call[c].step \in {"ready", "opening", "run", "writing", "committing"} => link[s].bound = "pool"
  /\ call[c].step \in {"opening", "run", "writing", "committing", "undoing"} => c \in Units

SessionFits(s) ==
  /\ link[s].at = "closed" => queue[s] = <<>>
  /\ link[s].at = "pool" => queue[s] = <<>> \/ \E x : IsLeft(s, x) /\ queue[s] = <<x>>
  /\ link[s].at = "task" =>
       \/ queue[s] = <<>>
       \/ \E c \in Callers :
            /\ call[c].step = "end"
            /\ queue[s] \in {<<Item("rollback", c)>>, <<Item("write", c), Item("rollback", c)>>}
  /\ link[s].at \in Callers => HeldFits(s, link[s].at)

CallerFits(c) ==
  /\ IsActive(c) => call[c].sess \in Sessions /\ link[call[c].sess].at = c
  /\ call[c].step # "end" => call[c].told = Nobody
  /\ call[c].step \in {"wait", "recycle", "ready", "opening"} => call[c].sent = 0 /\ ~call[c].failed

\* What is kept of a unit of work is all it sent, or nothing.
KeptOf(w) == {n \in 1..MaxWrites : <<w, n>> \in kept}
KeptFits(w) ==
  /\ KeptOf(w) \in {{}, 1..call[w].sent}
  /\ call[w].told = "committed" => KeptOf(w) = 1..call[w].sent
  /\ call[w].told \notin {"committed", "unheard"} => KeptOf(w) = {}

LinksInv ==
  /\ TypeOK
  /\ \A s \in Sessions : SessionFits(s)
  /\ \A c \in Callers : CallerFits(c)
  /\ \A w \in Units : KeptFits(w)

-----------------------------------------------------------------------------
(* What a step leaves alone.                                               *)

\* A session stands that a step does not touch, nor who holds it, nor what an
\* ended caller was told.
LEMMA OthersStand ==
  ASSUME LinksInv, NEW t \in Sessions, link'[t] = link[t], queue'[t] = queue[t],
         \A d \in Callers : link[t].at = d \/ call[d].step = "end" => call'[d] = call[d]
  PROVE  SessionFits(t)'
<1>1. SessionFits(t)
  BY DEF LinksInv
<1>2. ASSUME NEW w \in Callers, call'[w] = call[w], NEW n, IsIn(t, w, n) PROVE IsIn(t, w, n)'
  BY <1>2 DEF IsIn
<1>3. ASSUME NEW x, IsLeft(t, x) PROVE IsLeft(t, x)'
  BY <1>2, <1>3 DEF IsLeft
<1>4. ASSUME link[t].at \in Callers PROVE HeldFits(t, link[t].at)'
  <2>1. HeldFits(t, link[t].at) /\ call'[link[t].at] = call[link[t].at]
    BY <1>1, <1>4 DEF SessionFits
  <2>2. RecycleFits(t, link[t].at) => RecycleFits(t, link[t].at)'
    BY <1>3 DEF RecycleFits
  <2> QED
    BY <1>2, <1>4, <2>1, <2>2 DEF HeldFits, IsActive
<1> QED
  BY <1>1, <1>3, <1>4 DEF SessionFits

\* Who holds a session holds no other.
LEMMA HoldsOne ==
  ASSUME LinksInv, NEW c \in Callers, NEW t \in Sessions, link[t].at = c
  PROVE  call[c].sess = t /\ IsActive(c) /\ HeldFits(t, c)
  BY DEF LinksInv, SessionFits, HeldFits

\* A caller that goes on, in the session it holds or comes to hold.
LEMMA CallerGoesOn ==
  ASSUME LinksInv, NEW s \in Sessions, NEW c \in Callers,
         DOMAIN link' = Sessions, DOMAIN queue' = Sessions,
         \A t \in Sessions \ {s} : link'[t] = link[t] /\ queue'[t] = queue[t],
         link'[s].at \in Places,
         link'[s] = [at |-> link'[s].at, tx |-> link'[s].tx, bound |-> link'[s].bound],
         \A d \in Callers \ {c} : call'[d] = call[d], call' \in [Callers -> Called],
         call[c].step # "end", call[c].sess = s \/ call[c].step = "wait",
         link[s].at = c \/ link[s].at \notin Callers \/ link'[s].at = link[s].at,
         SessionFits(s)', CallerFits(c)', \A w \in Units : KeptFits(w)'
  PROVE  LinksInv'
<1>1. ASSUME NEW t \in Sessions PROVE SessionFits(t)'
  <2>1. CASE t # s
    <3>1. link[t].at # c
      BY <2>1, HoldsOne DEF IsActive
    <3> QED
      BY <2>1, <3>1, OthersStand
  <2> QED
    BY <2>1
<1>2. ASSUME NEW d \in Callers PROVE CallerFits(d)'
  BY <1>2 DEF LinksInv, CallerFits, IsActive
<1>3. TypeOK'
  BY DEF LinksInv, TypeOK
<1> QED
  BY <1>1, <1>2, <1>3 DEF LinksInv

\* The server goes on in a session, unheard by any caller.
LEMMA ServerGoesOn ==
  ASSUME LinksInv, NEW s \in Sessions,
         DOMAIN link' = Sessions, DOMAIN queue' = Sessions,
         \A t \in Sessions \ {s} : link'[t] = link[t] /\ queue'[t] = queue[t],
         link'[s].at \in Places,
         link'[s] = [at |-> link'[s].at, tx |-> link'[s].tx, bound |-> link'[s].bound],
         call' = call, link[s].at \notin Callers \/ link'[s].at = link[s].at,
         SessionFits(s)', \A w \in Units : KeptFits(w)'
  PROVE  LinksInv'
<1>1. ASSUME NEW t \in Sessions PROVE SessionFits(t)'
  BY OthersStand
<1>2. ASSUME NEW d \in Callers PROVE CallerFits(d)'
  BY <1>2 DEF LinksInv, CallerFits, IsActive
<1>3. TypeOK'
  BY DEF LinksInv, TypeOK
<1> QED
  BY <1>1, <1>2, <1>3 DEF LinksInv

\* What is kept of a unit of work stands that is told nothing, or no commit.
LEMMA KeptStands ==
  ASSUME LinksInv, kept' = kept, NEW w \in Units,
         \/ call'[w].told = call[w].told /\ call'[w].sent = call[w].sent
         \/ call[w].step # "end" /\ call'[w].told # "committed"
  PROVE  KeptFits(w)'
<1>1. w \in Callers /\ KeptFits(w) /\ CallerFits(w)
  BY DEF LinksInv, Callers
<1>2. KeptOf(w)' = KeptOf(w)
  BY DEF KeptOf
<1>3. call[w].step # "end" => KeptOf(w) = {}
  BY <1>1 DEF KeptFits, CallerFits, Nobody
<1> QED
  BY <1>1, <1>2, <1>3 DEF KeptFits

-----------------------------------------------------------------------------
(* Queues.                                                                 *)

\* A sequence put before two.
LEMMA ThreeInARow ==
  ASSUME NEW x, NEW y, NEW z
  PROVE  <<x>> \o <<y, z>> = <<x, y, z>>
<1>1. /\ <<x>> \o <<y, z>> \in Seq({x, y, z}) /\ Len(<<x>> \o <<y, z>>) = 3
      /\ (<<x>> \o <<y, z>>)[1] = x /\ (<<x>> \o <<y, z>>)[2] = y /\ (<<x>> \o <<y, z>>)[3] = z
  <2>1. /\ <<x>> \in Seq({x, y, z}) /\ <<y, z>> \in Seq({x, y, z})
        /\ Len(<<x>>) = 1 /\ Len(<<y, z>>) = 2
    OBVIOUS
  <2> QED
    BY <2>1, ConcatProperties
<1>2. PICK a : a = <<x>> \o <<y, z>>
  OBVIOUS
<1>3. PICK b : b = <<x, y, z>>
  OBVIOUS
<1>4. b \in Seq({x, y, z}) /\ Len(b) = 3 /\ b[1] = x /\ b[2] = y /\ b[3] = z
  BY <1>3
<1>5. a \in Seq({x, y, z}) /\ Len(a) = Len(b) /\ \A i \in 1..Len(a) : a[i] = b[i]
  BY <1>1, <1>2, <1>4
<1>6. a = b
  BY <1>4, <1>5, SeqEqual
<1> QED
  BY <1>2, <1>3, <1>6

\* Short sequences put together and taken apart.
LEMMA Tuples ==
  ASSUME NEW x, NEW y, NEW z
  PROVE  /\ <<>> \o <<x>> = <<x>> /\ <<x>> \o <<y>> = <<x, y>>
         /\ <<>> \o <<x, y>> = <<x, y>> /\ <<x>> \o <<y, z>> = <<x, y, z>>
         /\ Tail(<<x>>) = <<>> /\ Tail(<<x, y>>) = <<y>> /\ Tail(<<x, y, z>>) = <<y, z>>
         /\ <<x>> # <<>> /\ <<x, y>> # <<>> /\ <<x, y, z>> # <<>>
<1>1. <<>> \o <<x>> = <<x>>
  OBVIOUS
<1>2. <<x>> \o <<y>> = <<x, y>>
  <2>1. /\ <<x>> \o <<y>> \in Seq({x, y, z}) /\ Len(<<x>> \o <<y>>) = 2
        /\ (<<x>> \o <<y>>)[1] = x /\ (<<x>> \o <<y>>)[2] = y
    <3>1. <<x>> \in Seq({x, y, z}) /\ <<y>> \in Seq({x, y, z}) /\ Len(<<x>>) = 1 /\ Len(<<y>>) = 1
      OBVIOUS
    <3> QED
      BY <3>1, ConcatProperties
  <2>2. PICK a : a = <<x>> \o <<y>>
    OBVIOUS
  <2>3. PICK b : b = <<x, y>>
    OBVIOUS
  <2>4. b \in Seq({x, y, z}) /\ Len(b) = 2 /\ b[1] = x /\ b[2] = y
    BY <2>3
  <2>5. a \in Seq({x, y, z}) /\ Len(a) = Len(b) /\ \A i \in 1..Len(a) : a[i] = b[i]
    <3>1. a \in Seq({x, y, z}) /\ Len(a) = 2 /\ a[1] = x /\ a[2] = y
      BY <2>1, <2>2
    <3> QED
      BY <2>4, <3>1
  <2>6. a = b
    BY <2>4, <2>5, SeqEqual
  <2> QED
    BY <2>2, <2>3, <2>6
<1>3. <<>> \o <<x, y>> = <<x, y>>
  OBVIOUS
<1>4. <<x>> \o <<y, z>> = <<x, y, z>>
  BY ThreeInARow
<1>5. Tail(<<x>>) = <<>> /\ Tail(<<x, y>>) = <<y>> /\ Tail(<<x, y, z>>) = <<y, z>>
  OBVIOUS
<1>6. <<x>> # <<>> /\ <<x, y>> # <<>> /\ <<x, y, z>> # <<>>
  OBVIOUS
<1> QED
  BY <1>1, <1>2, <1>3, <1>4, <1>5, <1>6

\* A statement sent to a session, after what is queued there.
LEMMA SendsOne ==
  ASSUME LinksInv, NEW s \in Sessions, NEW do, NEW c, Sends(s, <<do>>, c)
  PROVE  /\ DOMAIN queue' = Sessions /\ \A t \in Sessions \ {s} : queue'[t] = queue[t]
         /\ queue[s] = <<>> => queue'[s] = <<Item(do, c)>>
         /\ \A x : queue[s] = <<x>> => queue'[s] = <<x, Item(do, c)>>
<1>1. DOMAIN queue = Sessions
  BY DEF LinksInv, TypeOK
<1>2. [i \in 1..Len(<<do>>) |-> [do |-> <<do>>[i], for |-> c]] = <<Item(do, c)>>
  <2>1. Len(<<do>>) = 1 /\ \A i \in 1..1 : <<do>>[i] = do
    OBVIOUS
  <2>2. [i \in 1..Len(<<do>>) |-> [do |-> <<do>>[i], for |-> c]] = [i \in 1..1 |-> Item(do, c)]
    BY <2>1 DEF Item
  <2>3. [i \in 1..1 |-> Item(do, c)] = <<Item(do, c)>>
    <3>1. \A x : [i \in 1..1 |-> x] = <<x>>
      OBVIOUS
    <3> QED
      BY <3>1
  <2> QED
    BY <2>2, <2>3
<1>3. queue' = [queue EXCEPT ![s] = queue[s] \o <<Item(do, c)>>]
  BY <1>2 DEF Sends
<1>4. DOMAIN queue' = Sessions /\ \A t \in Sessions \ {s} : queue'[t] = queue[t]
  BY <1>1, <1>3
<1>5. queue'[s] = queue[s] \o <<Item(do, c)>>
  BY <1>1, <1>3
<1>6. queue[s] = <<>> => queue'[s] = <<Item(do, c)>>
  BY <1>5, Tuples
<1>7. ASSUME NEW x, queue[s] = <<x>> PROVE queue'[s] = <<x, Item(do, c)>>
  BY <1>5, <1>7, Tuples
<1> QED
  BY <1>4, <1>6, <1>7

\* The two that recycle a session.
LEMMA SendsTwo ==
  ASSUME LinksInv, NEW s \in Sessions, NEW c, Sends(s, <<"rollback", "reset">>, c)
  PROVE  /\ DOMAIN queue' = Sessions /\ \A t \in Sessions \ {s} : queue'[t] = queue[t]
         /\ queue[s] = <<>> => queue'[s] = <<Item("rollback", c), Item("reset", c)>>
         /\ \A x : queue[s] = <<x>> => queue'[s] = <<x, Item("rollback", c), Item("reset", c)>>
<1>1. DOMAIN queue = Sessions
  BY DEF LinksInv, TypeOK
<1>2. [i \in 1..Len(<<"rollback", "reset">>) |-> [do |-> <<"rollback", "reset">>[i], for |-> c]]
        = <<Item("rollback", c), Item("reset", c)>>
  <2> DEFINE sent == [i \in 1..Len(<<"rollback", "reset">>) |->
                       [do |-> <<"rollback", "reset">>[i], for |-> c]]
  <2>1. Len(<<"rollback", "reset">>) = 2
    OBVIOUS
  <2>2. sent[1] = Item("rollback", c) /\ sent[2] = Item("reset", c) /\ DOMAIN sent = 1..2
    BY <2>1 DEF Item
  <2>3. sent = [i \in 1..2 |-> sent[i]]
    BY <2>1
  <2> HIDE DEF sent
  <2>4. \A x, y : [i \in 1..2 |-> IF i = 1 THEN x ELSE y] = <<x, y>>
    OBVIOUS
  <2>5. sent = [i \in 1..2 |-> IF i = 1 THEN Item("rollback", c) ELSE Item("reset", c)]
    BY <2>2, <2>3
  <2>6. sent = <<Item("rollback", c), Item("reset", c)>>
    BY <2>4, <2>5
  <2> QED
    BY <2>6 DEF sent
<1>3. queue' = [queue EXCEPT ![s] = queue[s] \o <<Item("rollback", c), Item("reset", c)>>]
  BY <1>2 DEF Sends
<1>4. DOMAIN queue' = Sessions /\ \A t \in Sessions \ {s} : queue'[t] = queue[t]
  BY <1>1, <1>3
<1>5. queue'[s] = queue[s] \o <<Item("rollback", c), Item("reset", c)>>
  BY <1>1, <1>3
<1>6. queue[s] = <<>> => queue'[s] = <<Item("rollback", c), Item("reset", c)>>
  BY <1>5, Tuples
<1>7. ASSUME NEW x, queue[s] = <<x>> PROVE queue'[s] = <<x, Item("rollback", c), Item("reset", c)>>
  <2>2. <<x>> \o <<Item("rollback", c), Item("reset", c)>> = <<x, Item("rollback", c), Item("reset", c)>>
    BY ThreeInARow
  <2> QED
    BY <1>5, <1>7, <2>2
<1> QED
  BY <1>4, <1>6, <1>7

-----------------------------------------------------------------------------
(* A caller and its session.                                               *)

\* A caller is no place of the pool.
LEMMA CallersAreNoPlaces ==
  ASSUME LinksInv, NEW c \in Callers
  PROVE  /\ c # "closed" /\ c # "pool" /\ c # "task" /\ c \in Places
         /\ {"closed", "pool", "task"} \subseteq Places
         /\ Units \subseteq Callers /\ Probes \subseteq Callers
  BY LinksAssumption DEF Places, Callers

\* A caller that holds a session has what its step needs.
LEMMA ActiveHolds ==
  ASSUME LinksInv, NEW c \in Callers, call[c].step \notin {"wait", "end"}
  PROVE  /\ call[c].sess \in Sessions /\ link[call[c].sess].at = c
         /\ HeldFits(call[c].sess, c) /\ IsActive(c)
<1>1. IsActive(c) /\ CallerFits(c)
  BY DEF LinksInv, IsActive
<1>2. call[c].sess \in Sessions /\ link[call[c].sess].at = c
  BY <1>1 DEF CallerFits
<1> QED
  BY <1>1, <1>2, HoldsOne

\* What is typed.
LEMMA Typed ==
  ASSUME LinksInv
  PROVE  /\ DOMAIN link = Sessions /\ DOMAIN queue = Sessions /\ DOMAIN call = Callers
         /\ \A c \in Callers : call[c] \in Called
         /\ \A s \in Sessions : /\ link[s].at \in Places
                                /\ link[s] = [at |-> link[s].at, tx |-> link[s].tx, bound |-> link[s].bound]
         /\ MaxWrites \in Nat
  BY LinksAssumption DEF LinksInv, TypeOK

\* Who holds a session goes on in it.
LEMMA HolderMoves ==
  ASSUME LinksInv, NEW c \in Callers, call[c].step \notin {"wait", "end"}, NEW s, s = call[c].sess,
         DOMAIN queue' = Sessions, \A t \in Sessions \ {s} : queue'[t] = queue[t],
         DOMAIN link' = Sessions, \A t \in Sessions \ {s} : link'[t] = link[t],
         link'[s] = [at |-> link'[s].at, tx |-> link'[s].tx, bound |-> link'[s].bound],
         link'[s].at = c, NEW called \in Called, call' = [call EXCEPT ![c] = called],
         called.told = Nobody, kept' = kept,
         called.step \in {"ready", "opening"} => called.sent = 0 /\ ~called.failed,
         called.step # "recycle", HeldFits(s, c)'
  PROVE  LinksInv'
<1>1. s \in Sessions /\ link[s].at = c /\ c \in Places
  BY ActiveHolds, CallersAreNoPlaces
<1>2. call'[c] = called /\ call' \in [Callers -> Called] /\ \A d \in Callers \ {c} : call'[d] = call[d]
  BY DEF LinksInv, TypeOK
<1>3. SessionFits(s)'
  BY <1>1, CallersAreNoPlaces DEF SessionFits
<1>4. CallerFits(c)'
  BY <1>1, <1>2 DEF CallerFits, HeldFits, IsActive
<1>5. \A w \in Units : KeptFits(w)'
  <2> SUFFICES ASSUME NEW w \in Units PROVE KeptFits(w)'
    OBVIOUS
  <2>1. w \in Callers
    BY DEF Callers
  <2>2. called.told # "committed"
    BY DEF Nobody
  <2> QED
    BY <1>2, <2>1, <2>2, KeptStands
<1> QED
  BY <1>1, <1>2, <1>3, <1>4, <1>5, CallerGoesOn

\* Who holds a session leaves it.
LEMMA HolderLeaves ==
  ASSUME LinksInv, NEW c \in Callers, call[c].step \notin {"wait", "end"}, NEW s, s = call[c].sess,
         DOMAIN queue' = Sessions, \A t \in Sessions \ {s} : queue'[t] = queue[t],
         DOMAIN link' = Sessions, \A t \in Sessions \ {s} : link'[t] = link[t],
         link'[s] = [at |-> link'[s].at, tx |-> link'[s].tx, bound |-> link'[s].bound],
         link'[s].at \in {"closed", "pool", "task"},
         NEW called \in Called, call' = [call EXCEPT ![c] = called], called.step = "end",
         \A w \in Units : KeptFits(w)', SessionFits(s)'
  PROVE  LinksInv'
<1>1. s \in Sessions /\ link[s].at = c /\ {"closed", "pool", "task"} \subseteq Places
  BY ActiveHolds, CallersAreNoPlaces
<1>2. call'[c] = called /\ call' \in [Callers -> Called] /\ \A d \in Callers \ {c} : call'[d] = call[d]
  BY DEF LinksInv, TypeOK
<1>3. CallerFits(c)'
  BY <1>2 DEF CallerFits, IsActive
<1> QED
  BY <1>1, <1>2, <1>3, CallerGoesOn

\* What was left stays as it was left.
LEMMA LeftStays ==
  ASSUME NEW s, NEW x, IsLeft(s, x), link'[s].tx = link[s].tx, call'[x.for] = call[x.for]
  PROVE  IsLeft(s, x)'
  BY DEF IsLeft, IsIn

-----------------------------------------------------------------------------
(* Borrowing.                                                              *)

\* A session that waits in the pool.
LEMMA BorrowKeeps ==
  ASSUME LinksInv, NEW c \in Callers, Borrow(c)
  PROVE  LinksInv'
<1>1. PICK s \in Sessions : /\ link[s].at = "pool" /\ link' = [link EXCEPT ![s].at = c]
                            /\ Sends(s, <<"rollback", "reset">>, c)
                            /\ call' = [call EXCEPT ![c].step = "recycle", ![c].sess = s]
  BY DEF Borrow
<1>2. call[c].step = "wait" /\ kept' = kept
  BY DEF Borrow
<1>3. /\ link'[s] = [at |-> c, tx |-> link[s].tx, bound |-> link[s].bound] /\ DOMAIN link' = Sessions
      /\ \A t \in Sessions \ {s} : link'[t] = link[t]
  BY <1>1, Typed
<1>4. /\ call'[c] = [call[c] EXCEPT !.step = "recycle", !.sess = s] /\ call'[c] \in Called
      /\ call'[c].step = "recycle" /\ call'[c].sess = s /\ call'[c].told = call[c].told
      /\ call'[c].sent = call[c].sent /\ call'[c].failed = call[c].failed
      /\ call' \in [Callers -> Called] /\ \A d \in Callers \ {c} : call'[d] = call[d]
  BY <1>1, Typed DEF LinksInv, TypeOK, Called, Steps
<1>5. queue[s] = <<>> \/ \E x : IsLeft(s, x) /\ queue[s] = <<x>>
  BY <1>1 DEF LinksInv, SessionFits
<1>6. RecycleFits(s, c)'
  <2>1. CASE queue[s] = <<>>
    BY <1>1, <2>1, SendsTwo DEF RecycleFits
  <2>2. ASSUME NEW x, IsLeft(s, x), queue[s] = <<x>> PROVE RecycleFits(s, c)'
    <3>1. queue'[s] = <<x, Item("rollback", c), Item("reset", c)>>
      BY <1>1, <2>2, SendsTwo
    <3>2. IsLeft(s, x)'
      BY <1>2, <1>3, <1>4, <2>2, LeftStays DEF IsLeft
    <3> QED
      BY <3>1, <3>2 DEF RecycleFits
  <2> QED
    BY <1>5, <2>1, <2>2
<1>7. SessionFits(s)'
  <2>1. HeldFits(s, c)'
    BY <1>4, <1>6 DEF HeldFits, IsActive
  <2>2. link'[s].at = c
    BY <1>3
  <2> QED
    BY <2>1, <2>2, CallersAreNoPlaces DEF SessionFits
<1>8. CallerFits(c)'
  BY <1>2, <1>3, <1>4 DEF LinksInv, CallerFits, IsActive
<1>9. \A w \in Units : KeptFits(w)'
  <2> SUFFICES ASSUME NEW w \in Units PROVE KeptFits(w)'
    OBVIOUS
  <2> QED
    BY <1>2, <1>4, KeptStands DEF Callers
<1>10. /\ link'[s].at \in Places
       /\ link'[s] = [at |-> link'[s].at, tx |-> link'[s].tx, bound |-> link'[s].bound]
  BY <1>3, CallersAreNoPlaces
<1>11. DOMAIN queue' = Sessions /\ \A t \in Sessions \ {s} : queue'[t] = queue[t]
  BY <1>1, SendsTwo
<1>12. link[s].at \notin Callers
  BY <1>1, CallersAreNoPlaces
<1> QED
  BY <1>2, <1>3, <1>4, <1>7, <1>8, <1>9, <1>10, <1>11, <1>12, CallerGoesOn

\* A new session.
LEMMA ConnectKeeps ==
  ASSUME LinksInv, NEW c \in Callers, Connect(c)
  PROVE  LinksInv'
<1>1. PICK s \in Sessions : /\ link[s].at = "closed" /\ link' = [link EXCEPT ![s] = Fresh(c)]
                            /\ call' = [call EXCEPT ![c].step = "ready", ![c].sess = s]
  BY DEF Connect
<1>2. call[c].step = "wait" /\ kept' = kept /\ queue' = queue
  BY DEF Connect
<1>3. /\ link'[s] = Fresh(c) /\ DOMAIN link' = Sessions
      /\ \A t \in Sessions \ {s} : link'[t] = link[t]
  BY <1>1, Typed
<1>4. /\ call'[c] \in Called
      /\ call'[c].step = "ready" /\ call'[c].sess = s /\ call'[c].told = call[c].told
      /\ call'[c].sent = call[c].sent /\ call'[c].failed = call[c].failed
      /\ call' \in [Callers -> Called] /\ \A d \in Callers \ {c} : call'[d] = call[d]
  BY <1>1, Typed DEF LinksInv, TypeOK, Called, Steps
<1>5. queue[s] = <<>>
  BY <1>1 DEF LinksInv, SessionFits
<1>6. SessionFits(s)'
  BY <1>2, <1>3, <1>4, <1>5, CallersAreNoPlaces DEF SessionFits, HeldFits, IsActive, Fresh
<1>7. CallerFits(c)'
  BY <1>2, <1>3, <1>4 DEF LinksInv, CallerFits, IsActive, Fresh
<1>8. \A w \in Units : KeptFits(w)'
  <2> SUFFICES ASSUME NEW w \in Units PROVE KeptFits(w)'
    OBVIOUS
  <2> QED
    BY <1>2, <1>4, KeptStands DEF Callers
<1> QED
  BY <1>1, <1>2, <1>3, <1>4, <1>6, <1>7, <1>8, Typed, CallersAreNoPlaces, CallerGoesOn DEF Fresh

\* Nobody waits for ever.
LEMMA GiveUpWaitingKeeps ==
  ASSUME LinksInv, NEW c \in Callers, GiveUpWaiting(c)
  PROVE  LinksInv'
<1>1. /\ call[c].step = "wait" /\ call' = [call EXCEPT ![c].step = "end", ![c].told = "busy"]
      /\ UNCHANGED <<link, queue, kept>>
  BY DEF GiveUpWaiting, Ends
<1>2. /\ call'[c].step = "end" /\ call'[c].told = "busy"
      /\ call' \in [Callers -> Called] /\ \A d \in Callers \ {c} : call'[d] = call[d]
  <2>1. PICK called : called = [call[c] EXCEPT !.step = "end", !.told = "busy"]
    OBVIOUS
  <2>2. call' = [call EXCEPT ![c] = called]
    BY <1>1, <2>1, Typed
  <2>3. called \in Called /\ called.step = "end" /\ called.told = "busy"
    BY <2>1, Typed DEF Called, Steps, Told
  <2> QED
    BY <2>2, <2>3, Typed DEF LinksInv, TypeOK
<1>3. ASSUME NEW t \in Sessions PROVE SessionFits(t)'
  <2>1. link[t].at # c
    BY <1>1, HoldsOne DEF IsActive
  <2> QED
    BY <1>1, <1>2, <2>1, OthersStand
<1>4. ASSUME NEW d \in Callers PROVE CallerFits(d)'
  BY <1>1, <1>2 DEF LinksInv, CallerFits, IsActive
<1>5. ASSUME NEW w \in Units PROVE KeptFits(w)'
  BY <1>1, <1>2, KeptStands DEF Callers
<1>6. TypeOK'
  BY <1>1, <1>2 DEF LinksInv, TypeOK
<1> QED
  BY <1>3, <1>4, <1>5, <1>6 DEF LinksInv

-----------------------------------------------------------------------------
(* A caller moves.                                                         *)

\* A caller goes to a step.
LEMMA GoesTo ==
  ASSUME LinksInv, NEW c \in Callers, NEW to \in Steps, Goes(c, to)
  PROVE  \E called \in Called :
           /\ call' = [call EXCEPT ![c] = called] /\ call'[c] = called
           /\ called.step = to /\ called.sess = call[c].sess
           /\ called.sent = call[c].sent /\ called.failed = call[c].failed /\ called.told = call[c].told
<1>1. PICK called : called = [call[c] EXCEPT !.step = to]
  OBVIOUS
<1>2. call' = [call EXCEPT ![c] = called] /\ call'[c] = called
  BY <1>1, Typed DEF Goes
<1>3. /\ called \in Called /\ called.step = to /\ called.sess = call[c].sess
      /\ called.sent = call[c].sent /\ called.failed = call[c].failed /\ called.told = call[c].told
  BY <1>1, Typed DEF Called
<1> QED
  BY <1>2, <1>3

\* A caller ends.
LEMMA EndsAs ==
  ASSUME LinksInv, NEW c \in Callers, NEW told \in Told, Ends(c, told)
  PROVE  \E called \in Called :
           /\ call' = [call EXCEPT ![c] = called] /\ call'[c] = called
           /\ called.step = "end" /\ called.sess = call[c].sess
           /\ called.sent = call[c].sent /\ called.failed = call[c].failed /\ called.told = told
           /\ \A d \in Callers \ {c} : call'[d] = call[d]
<1>1. PICK called : called = [call[c] EXCEPT !.step = "end", !.told = told]
  OBVIOUS
<1>2. call' = [call EXCEPT ![c] = called] /\ call'[c] = called /\ \A d \in Callers \ {c} : call'[d] = call[d]
  BY <1>1, Typed DEF Ends
<1>3. /\ called \in Called /\ called.step = "end" /\ called.sess = call[c].sess
      /\ called.sent = call[c].sent /\ called.failed = call[c].failed /\ called.told = told
  BY <1>1, Typed DEF Called, Steps
<1> QED
  BY <1>2, <1>3

\* Nothing is kept of who is told no commit.
LEMMA KeptAtEnd ==
  ASSUME LinksInv, NEW c \in Callers, call[c].step # "end", kept' = kept,
         call'[c].told # "committed", \A d \in Callers \ {c} : call'[d] = call[d]
  PROVE  \A w \in Units : KeptFits(w)'
<1> SUFFICES ASSUME NEW w \in Units PROVE KeptFits(w)'
  OBVIOUS
<1>1. w \in Callers
  BY DEF Callers
<1>2. CASE w = c
  BY <1>2, KeptStands
<1>3. CASE w # c
  BY <1>1, <1>3, KeptStands
<1> QED
  BY <1>2, <1>3

\* What holds of a caller at its step.
LEMMA CallerHas ==
  ASSUME LinksInv, NEW c \in Callers
  PROVE  /\ call[c].step # "end" => call[c].told = Nobody
         /\ call[c].step \in {"wait", "recycle", "ready", "opening"} => call[c].sent = 0 /\ ~call[c].failed
  BY DEF LinksInv, CallerFits

\* The session is clean.
LEMMA RecycledKeeps ==
  ASSUME LinksInv, NEW c \in Callers, Recycled(c)
  PROVE  LinksInv'
<1>1. /\ call[c].step = "recycle" /\ queue[call[c].sess] = <<>> /\ Goes(c, "ready")
      /\ UNCHANGED <<link, queue, kept>>
  BY DEF Recycled, Holds
<1>2. PICK called \in Called :
           /\ call' = [call EXCEPT ![c] = called] /\ call'[c] = called
           /\ called.step = "ready" /\ called.sess = call[c].sess
           /\ called.sent = call[c].sent /\ called.failed = call[c].failed /\ called.told = call[c].told
  BY <1>1, GoesTo DEF Steps
<1>3. PICK s : s = call[c].sess
  OBVIOUS
<1>4. s \in Sessions /\ link[s].at = c /\ RecycleFits(s, c) /\ queue[s] = <<>>
  BY <1>1, <1>3, ActiveHolds DEF HeldFits
<1>5. link[s].tx = NoTx /\ link[s].bound = "pool"
  BY <1>4, Tuples DEF RecycleFits
<1>6. HeldFits(s, c)'
  BY <1>1, <1>2, <1>3, <1>4, <1>5 DEF HeldFits, IsActive
<1>7. called.told = Nobody /\ called.sent = 0 /\ ~called.failed
  BY <1>1, <1>2, CallerHas
<1> QED
  BY <1>1, <1>2, <1>3, <1>4, <1>6, <1>7, Typed, HolderMoves

\* The transaction is asked for.
LEMMA OpenKeeps ==
  ASSUME LinksInv, NEW c \in Units, Open(c)
  PROVE  LinksInv'
<1>1. /\ call[c].step = "ready" /\ Sends(call[c].sess, <<"begin">>, c) /\ Goes(c, "opening")
      /\ UNCHANGED <<link, kept>> /\ c \in Callers
  BY DEF Open, Holds, Callers
<1>2. PICK called \in Called :
           /\ call' = [call EXCEPT ![c] = called] /\ call'[c] = called
           /\ called.step = "opening" /\ called.sess = call[c].sess
           /\ called.sent = call[c].sent /\ called.failed = call[c].failed /\ called.told = call[c].told
  BY <1>1, GoesTo DEF Steps
<1>3. PICK s : s = call[c].sess
  OBVIOUS
<1>4. /\ s \in Sessions /\ link[s].at = c /\ queue[s] = <<>> /\ link[s].tx = NoTx
      /\ link[s].bound = "pool"
  BY <1>1, <1>3, ActiveHolds DEF HeldFits
<1>5. /\ queue'[s] = <<Item("begin", c)>> /\ DOMAIN queue' = Sessions
      /\ \A t \in Sessions \ {s} : queue'[t] = queue[t]
  BY <1>1, <1>3, <1>4, SendsOne
<1>6. HeldFits(s, c)'
  BY <1>1, <1>2, <1>3, <1>4, <1>5 DEF HeldFits, IsActive
<1>7. called.told = Nobody /\ called.sent = 0 /\ ~called.failed
  BY <1>1, <1>2, CallerHas
<1> QED
  BY <1>1, <1>2, <1>3, <1>4, <1>5, <1>6, <1>7, Typed, HolderMoves

\* A statement is sent.
LEMMA WriteKeeps ==
  ASSUME LinksInv, NEW c \in Units, Write(c)
  PROVE  LinksInv'
<1>1. /\ call[c].step = "run" /\ call[c].sent < MaxWrites /\ Sends(call[c].sess, <<"write">>, c)
      /\ call' = [call EXCEPT ![c].step = "writing", ![c].sent = @ + 1]
      /\ UNCHANGED <<link, kept>> /\ c \in Callers
  BY DEF Write, Holds, Callers
<1>2. PICK called : called = [call[c] EXCEPT !.step = "writing", !.sent = call[c].sent + 1]
  OBVIOUS
<1>3. call' = [call EXCEPT ![c] = called] /\ call'[c] = called
  BY <1>1, <1>2, Typed
<1>4. /\ called \in Called /\ called.step = "writing" /\ called.sess = call[c].sess
      /\ called.sent = call[c].sent + 1 /\ called.failed = call[c].failed
      /\ called.told = call[c].told /\ call[c].sent \in Nat
  BY <1>1, <1>2, Typed DEF Called, Steps
<1>5. PICK s : s = call[c].sess
  OBVIOUS
<1>6. /\ s \in Sessions /\ link[s].at = c /\ queue[s] = <<>> /\ IsIn(s, c, call[c].sent)
      /\ link[s].bound = "pool"
  BY <1>1, <1>5, ActiveHolds DEF HeldFits
<1>7. /\ queue'[s] = <<Item("write", c)>> /\ DOMAIN queue' = Sessions
      /\ \A t \in Sessions \ {s} : queue'[t] = queue[t]
  BY <1>1, <1>5, <1>6, SendsOne
<1>8. IsIn(s, c, call[c].sent - 1)'
  <2>1. call'[c].sent - 1 = call[c].sent /\ call'[c].failed = call[c].failed /\ link'[s] = link[s]
    BY <1>1, <1>3, <1>4
  <2> QED
    BY <1>6, <2>1 DEF IsIn
<1>9. HeldFits(s, c)'
  BY <1>1, <1>3, <1>4, <1>5, <1>6, <1>7, <1>8 DEF HeldFits, IsActive
<1>10. called.told = Nobody
  BY <1>1, <1>4, CallerHas
<1> QED
  BY <1>1, <1>3, <1>4, <1>5, <1>6, <1>7, <1>9, <1>10, Typed, HolderMoves

\* The end of the transaction is sent.
LEMMA CommitKeeps ==
  ASSUME LinksInv, NEW c \in Units, CommitUnit(c)
  PROVE  LinksInv'
<1>1. /\ call[c].step = "run"
      /\ Sends(call[c].sess, <<IF call[c].failed THEN "rollback" ELSE "commit">>, c)
      /\ Goes(c, IF call[c].failed THEN "undoing" ELSE "committing")
      /\ UNCHANGED <<link, kept>> /\ c \in Callers
  BY DEF CommitUnit, Holds, Callers
<1>2. PICK called \in Called :
           /\ call' = [call EXCEPT ![c] = called] /\ call'[c] = called
           /\ called.step = (IF call[c].failed THEN "undoing" ELSE "committing")
           /\ called.sess = call[c].sess
           /\ called.sent = call[c].sent /\ called.failed = call[c].failed /\ called.told = call[c].told
  <2>1. PICK to \in Steps : to = (IF call[c].failed THEN "undoing" ELSE "committing")
    BY DEF Steps
  <2> QED
    BY <1>1, <2>1, GoesTo
<1>3. PICK s : s = call[c].sess
  OBVIOUS
<1>4. /\ s \in Sessions /\ link[s].at = c /\ queue[s] = <<>> /\ IsIn(s, c, call[c].sent)
      /\ link[s].bound = "pool"
  BY <1>1, <1>3, ActiveHolds DEF HeldFits
<1>5. /\ queue'[s] = <<Item(IF call[c].failed THEN "rollback" ELSE "commit", c)>>
      /\ DOMAIN queue' = Sessions /\ \A t \in Sessions \ {s} : queue'[t] = queue[t]
  BY <1>1, <1>3, <1>4, SendsOne
<1>6. IsIn(s, c, call[c].sent)'
  <2>1. call'[c].sent = call[c].sent /\ call'[c].failed = call[c].failed /\ link'[s] = link[s]
    BY <1>1, <1>2
  <2> QED
    BY <1>4, <2>1 DEF IsIn
<1>7. HeldFits(s, c)'
  BY <1>1, <1>2, <1>3, <1>4, <1>5, <1>6 DEF HeldFits, IsActive
<1>8. called.told = Nobody /\ called.step \notin {"ready", "opening", "recycle"}
  BY <1>1, <1>2, CallerHas
<1> QED
  BY <1>1, <1>2, <1>3, <1>4, <1>5, <1>7, <1>8, Typed, HolderMoves

\* A bound is asked for.
LEMMA BoundKeeps ==
  ASSUME LinksInv, NEW c \in Probes, Bound(c)
  PROVE  LinksInv'
<1>1. /\ call[c].step = "ready" /\ Sends(call[c].sess, <<"bound">>, c) /\ Goes(c, "bounding")
      /\ UNCHANGED <<link, kept>> /\ c \in Callers
  BY DEF Bound, Holds, Callers
<1>2. PICK called \in Called :
           /\ call' = [call EXCEPT ![c] = called] /\ call'[c] = called
           /\ called.step = "bounding" /\ called.sess = call[c].sess
           /\ called.sent = call[c].sent /\ called.failed = call[c].failed /\ called.told = call[c].told
  BY <1>1, GoesTo DEF Steps
<1>3. PICK s : s = call[c].sess
  OBVIOUS
<1>4. s \in Sessions /\ link[s].at = c /\ queue[s] = <<>>
  BY <1>1, <1>3, ActiveHolds DEF HeldFits
<1>5. /\ queue'[s] = <<Item("bound", c)>> /\ DOMAIN queue' = Sessions
      /\ \A t \in Sessions \ {s} : queue'[t] = queue[t]
  BY <1>1, <1>3, <1>4, SendsOne
<1>6. HeldFits(s, c)'
  BY <1>1, <1>2, <1>3, <1>4, <1>5 DEF HeldFits, IsActive
<1>7. called.told = Nobody
  BY <1>1, <1>2, CallerHas
<1> QED
  BY <1>1, <1>2, <1>3, <1>4, <1>5, <1>6, <1>7, Typed, HolderMoves

-----------------------------------------------------------------------------
(* A caller leaves its session.                                            *)

\* A session closed is empty.
LEMMA ClosedKeeps ==
  ASSUME LinksInv, NEW c \in Callers, call[c].step \notin {"wait", "end"}, NEW told \in Told,
         told # "committed", Ends(c, told), kept' = kept,
         link' = [link EXCEPT ![call[c].sess] = Closed], queue' = [queue EXCEPT ![call[c].sess] = <<>>]
  PROVE  LinksInv'
<1>1. PICK s : s = call[c].sess
  OBVIOUS
<1>2. s \in Sessions /\ link[s].at = c
  BY <1>1, ActiveHolds
<1>3. PICK called \in Called :
           /\ call' = [call EXCEPT ![c] = called] /\ call'[c] = called
           /\ called.step = "end" /\ called.told = told
           /\ \A d \in Callers \ {c} : call'[d] = call[d]
  BY EndsAs
<1>4. /\ link'[s] = Closed /\ queue'[s] = <<>> /\ DOMAIN link' = Sessions /\ DOMAIN queue' = Sessions
      /\ \A t \in Sessions \ {s} : link'[t] = link[t] /\ queue'[t] = queue[t]
  BY <1>1, <1>2, Typed
<1>5. SessionFits(s)'
  BY <1>4, CallersAreNoPlaces DEF SessionFits, Closed
<1>6. \A w \in Units : KeptFits(w)'
  BY <1>3, KeptAtEnd
<1>7. /\ link'[s].at \in {"closed", "pool", "task"}
      /\ link'[s] = [at |-> link'[s].at, tx |-> link'[s].tx, bound |-> link'[s].bound]
  BY <1>4 DEF Closed
<1> QED
  BY <1>1, <1>3, <1>4, <1>5, <1>6, <1>7, HolderLeaves

\* A dropped unit of work is rolled back by a task.
LEMMA AbandonKeeps ==
  ASSUME LinksInv, NEW c \in Units, Abandon(c)
  PROVE  LinksInv'
<1>1. /\ call[c].step \in {"run", "writing"} /\ Sends(call[c].sess, <<"rollback">>, c)
      /\ Ends(c, "abandoned") /\ link' = [link EXCEPT ![call[c].sess].at = "task"]
      /\ kept' = kept /\ c \in Callers
  BY DEF Abandon, Holds, Callers
<1>2. PICK s : s = call[c].sess
  OBVIOUS
<1>3. s \in Sessions /\ link[s].at = c /\ (queue[s] = <<>> \/ queue[s] = <<Item("write", c)>>)
  BY <1>1, <1>2, ActiveHolds DEF HeldFits
<1>4. PICK called \in Called :
           /\ call' = [call EXCEPT ![c] = called] /\ call'[c] = called
           /\ called.step = "end" /\ called.told = "abandoned"
           /\ \A d \in Callers \ {c} : call'[d] = call[d]
  <2>1. "abandoned" \in Told
    BY DEF Told
  <2> QED
    BY <1>1, <2>1, EndsAs
<1>5. /\ link'[s] = [at |-> "task", tx |-> link[s].tx, bound |-> link[s].bound]
      /\ DOMAIN link' = Sessions /\ \A t \in Sessions \ {s} : link'[t] = link[t]
  BY <1>1, <1>2, <1>3, Typed
<1>6. DOMAIN queue' = Sessions /\ \A t \in Sessions \ {s} : queue'[t] = queue[t]
  BY <1>1, <1>2, <1>3, SendsOne
<1>7. queue'[s] \in {<<Item("rollback", c)>>, <<Item("write", c), Item("rollback", c)>>}
  <2>1. CASE queue[s] = <<>>
    BY <1>1, <1>2, <1>3, <2>1, SendsOne
  <2>2. CASE queue[s] = <<Item("write", c)>>
    <3>1. PICK x : x = Item("write", c)
      OBVIOUS
    <3>2. queue'[s] = <<x, Item("rollback", c)>>
      BY <1>1, <1>2, <1>3, <2>2, <3>1, SendsOne
    <3> QED
      BY <3>1, <3>2
  <2> QED
    BY <1>3, <2>1, <2>2
<1>8. link'[s].at = "task"
  BY <1>5
<1>9. SessionFits(s)'
  BY <1>1, <1>4, <1>7, <1>8, CallersAreNoPlaces DEF SessionFits
<1>10. \A w \in Units : KeptFits(w)'
  BY <1>1, <1>4, KeptAtEnd
<1>11. /\ link'[s].at \in {"closed", "pool", "task"}
       /\ link'[s] = [at |-> link'[s].at, tx |-> link'[s].tx, bound |-> link'[s].bound]
  BY <1>5
<1> QED
  BY <1>1, <1>2, <1>4, <1>5, <1>6, <1>9, <1>10, <1>11, HolderLeaves

\* No runtime: the session is closed.
LEMMA AbandonClosedKeeps ==
  ASSUME LinksInv, NEW c \in Units, AbandonClosed(c)
  PROVE  LinksInv'
<1>1. /\ call[c].step \in {"run", "writing"} /\ Ends(c, "abandoned") /\ kept' = kept
      /\ link' = [link EXCEPT ![call[c].sess] = Closed]
      /\ queue' = [queue EXCEPT ![call[c].sess] = <<>>] /\ c \in Callers
  BY DEF AbandonClosed, Holds, Callers
<1>2. "abandoned" \in Told
  BY DEF Told
<1> QED
  BY <1>1, <1>2, ClosedKeeps

\* A probe loses its patience.
LEMMA ProbeTimesOutKeeps ==
  ASSUME LinksInv, NEW c \in Probes, ProbeTimesOut(c)
  PROVE  LinksInv'
<1>1. /\ call[c].step \in {"bounding", "reading"} /\ Ends(c, "timed out") /\ kept' = kept
      /\ link' = [link EXCEPT ![call[c].sess] = Closed]
      /\ queue' = [queue EXCEPT ![call[c].sess] = <<>>] /\ c \in Callers
  BY DEF ProbeTimesOut, Holds, Callers
<1>2. "timed out" \in Told
  BY DEF Told
<1> QED
  BY <1>1, <1>2, ClosedKeeps

\* A session given back by who ends, with what it left there.
LEMMA GivenBackKeeps ==
  ASSUME LinksInv, NEW c \in Callers, NEW told \in Told, told # "committed", Ends(c, told),
         call[c].step \in {"ready", "opening", "committing", "undoing", "bounding", "reading"},
         call[c].step = "committing" => told = "unheard",
         GivesBack(call[c].sess), UNCHANGED <<queue, kept>>
  PROVE  LinksInv'
<1>1. PICK s : s = call[c].sess
  OBVIOUS
<1>2. s \in Sessions /\ link[s].at = c /\ HeldFits(s, c)
  BY <1>1, ActiveHolds
<1>3. PICK called \in Called :
           /\ call' = [call EXCEPT ![c] = called] /\ call'[c] = called
           /\ called.step = "end" /\ called.told = told
           /\ called.sent = call[c].sent /\ called.failed = call[c].failed
           /\ \A d \in Callers \ {c} : call'[d] = call[d]
  BY EndsAs
<1>4. /\ link'[s] = [at |-> "pool", tx |-> link[s].tx, bound |-> link[s].bound]
      /\ DOMAIN link' = Sessions /\ \A t \in Sessions \ {s} : link'[t] = link[t]
  BY <1>1, <1>2, Typed DEF GivesBack
<1>5. link'[s].at = "pool" /\ link'[s].tx = link[s].tx
  BY <1>4
<1>6. queue'[s] = <<>> \/ \E x : IsLeft(s, x)' /\ queue'[s] = <<x>>
  <2>1. CASE call[c].step \in {"ready", "reading"}
    BY <1>2, <2>1 DEF HeldFits
  <2>2. ASSUME NEW do \in {"begin", "bound", "rollback"}, queue[s] = <<Item(do, c)>>
        PROVE  \E x : IsLeft(s, x)' /\ queue'[s] = <<x>>
    <3>1. IsLeft(s, Item(do, c))'
      BY <1>3, <2>2 DEF IsLeft, Item
    <3> QED
      BY <2>2, <3>1
  <2>3. CASE call[c].step \in {"opening", "undoing", "bounding"}
    BY <1>2, <2>2, <2>3 DEF HeldFits
  <2>4. CASE call[c].step = "committing"
    <3>1. /\ queue[s] = <<Item("commit", c)>> /\ c \in Units /\ ~call[c].failed
          /\ IsIn(s, c, call[c].sent)
      BY <1>2, <2>4 DEF HeldFits
    <3>2. IsIn(s, c, call[c].sent)'
      BY <1>3, <1>5, <3>1 DEF IsIn
    <3>3. IsLeft(s, Item("commit", c))'
      BY <1>3, <2>4, <3>1, <3>2 DEF IsLeft, Item
    <3> QED
      BY <3>1, <3>3
  <2> QED
    BY <2>1, <2>3, <2>4
<1>7. SessionFits(s)'
  BY <1>5, <1>6, CallersAreNoPlaces DEF SessionFits
<1>8. \A w \in Units : KeptFits(w)'
  BY <1>3, KeptAtEnd
<1>9. /\ link'[s].at \in {"closed", "pool", "task"}
      /\ link'[s] = [at |-> link'[s].at, tx |-> link'[s].tx, bound |-> link'[s].bound]
  BY <1>4
<1> QED
  BY <1>1, <1>3, <1>4, <1>7, <1>8, <1>9, Typed, HolderLeaves

\* A call is cancelled.
LEMMA CancelKeeps ==
  ASSUME LinksInv, NEW c \in Callers, Cancel(c)
  PROVE  LinksInv'
<1>1. CASE call[c].step = "recycle"
  BY <1>1, ClosedKeeps DEF Cancel, Holds, Told
<1>2. CASE call[c].step # "recycle"
  <2>1. PICK told \in Told : told = (IF call[c].step = "committing" THEN "unheard" ELSE "abandoned")
    BY DEF Told
  <2>2. /\ call[c].step \in {"ready", "opening", "committing", "undoing", "bounding", "reading"}
        /\ GivesBack(call[c].sess) /\ UNCHANGED <<queue, kept>> /\ Ends(c, told)
    BY <1>2, <2>1 DEF Cancel, Holds
  <2> QED
    BY <2>1, <2>2, GivenBackKeeps
<1> QED
  BY <1>1, <1>2

\* The version is read.
LEMMA ProbeReadsKeeps ==
  ASSUME LinksInv, NEW c \in Probes, ProbeReads(c)
  PROVE  LinksInv'
  BY GivenBackKeeps DEF ProbeReads, Holds, Callers, Told

\* The task has rolled back.
LEMMA TaskEndsKeeps ==
  ASSUME LinksInv, NEW s \in Sessions, TaskEnds(s)
  PROVE  LinksInv'
<1>1. /\ link[s].at = "task" /\ queue[s] = <<>> /\ link' = [link EXCEPT ![s].at = "pool"]
      /\ UNCHANGED <<queue, call, kept>>
  BY DEF TaskEnds, GivesBack
<1>2. /\ link'[s] = [at |-> "pool", tx |-> link[s].tx, bound |-> link[s].bound]
      /\ DOMAIN link' = Sessions /\ \A t \in Sessions \ {s} : link'[t] = link[t]
  BY <1>1, Typed
<1>3. link'[s].at = "pool" /\ "pool" \notin Callers /\ "task" \notin Callers /\ "pool" \in Places
  BY <1>2, LinksAssumption DEF Places
<1>4. SessionFits(s)'
  BY <1>1, <1>3 DEF SessionFits
<1>5. \A w \in Units : KeptFits(w)'
  BY <1>1, KeptStands
<1>6. link'[s] = [at |-> link'[s].at, tx |-> link'[s].tx, bound |-> link'[s].bound]
  BY <1>2
<1> QED
  BY <1>1, <1>2, <1>3, <1>4, <1>5, <1>6, Typed, ServerGoesOn

\* The server ends a transaction that nobody drives.
LEMMA EndIdleKeeps ==
  ASSUME LinksInv, NEW s \in Sessions, EndIdle(s)
  PROVE  LinksInv'
<1>1. /\ link[s].at \in {"pool", "task"} /\ queue[s] = <<>> /\ link' = [link EXCEPT ![s] = Closed]
      /\ UNCHANGED <<queue, call, kept>>
  BY DEF EndIdle
<1>2. /\ link'[s] = Closed
      /\ DOMAIN link' = Sessions /\ \A t \in Sessions \ {s} : link'[t] = link[t]
  BY <1>1, Typed
<1>3. /\ link'[s].at = "closed" /\ "pool" \notin Callers /\ "task" \notin Callers
      /\ "closed" \in Places /\ "closed" \notin Callers
  BY <1>2, LinksAssumption DEF Places, Closed
<1>4. SessionFits(s)'
  BY <1>1, <1>3 DEF SessionFits
<1>5. \A w \in Units : KeptFits(w)'
  BY <1>1, KeptStands
<1>6. link'[s] = [at |-> link'[s].at, tx |-> link'[s].tx, bound |-> link'[s].bound]
  BY <1>2 DEF Closed
<1> QED
  BY <1>1, <1>2, <1>3, <1>4, <1>5, <1>6, Typed, ServerGoesOn

-----------------------------------------------------------------------------
(* What is kept when a transaction is committed.                           *)

\* Its writes join what is kept, or are lost with the link.
LEMMA KeptJoins ==
  ASSUME LinksInv, NEW w \in Units, call[w].told \in {Nobody, "unheard"},
         kept' \in {kept, kept \cup ({w} \X (1..call[w].sent))}, call'[w].sent = call[w].sent,
         \/ call'[w].told = "unheard"
         \/ call'[w].told = "committed" /\ kept' = kept \cup ({w} \X (1..call[w].sent)),
         \A v \in Units \ {w} : \/ call'[v].told = call[v].told /\ call'[v].sent = call[v].sent
                                \/ call[v].step # "end" /\ call'[v].told # "committed"
  PROVE  \A v \in Units : KeptFits(v)'
<1>1. w \in Callers /\ call[w].sent \in 0..MaxWrites /\ MaxWrites \in Nat /\ KeptFits(w)
  BY Typed DEF Called, Callers, LinksInv
<1>2. ASSUME NEW v \in Units, v # w PROVE KeptFits(v)'
  <2>1. KeptOf(v)' = KeptOf(v)
    BY <1>2 DEF KeptOf
  <2>2. KeptFits(v) /\ CallerFits(v)
    BY DEF LinksInv, Callers
  <2>3. call[v].step # "end" => KeptOf(v) = {}
    BY <2>2 DEF KeptFits, CallerFits, Nobody
  <2>4. CASE call'[v].told = call[v].told /\ call'[v].sent = call[v].sent
    BY <2>1, <2>2, <2>4 DEF KeptFits
  <2>5. CASE call[v].step # "end" /\ call'[v].told # "committed"
    BY <2>1, <2>3, <2>5 DEF KeptFits
  <2> QED
    BY <1>2, <2>4, <2>5
<1>3. KeptFits(w)'
  <2>1. CASE kept' = kept /\ call'[w].told = "unheard"
    BY <1>1, <2>1 DEF KeptFits, KeptOf
  <2>2. CASE kept' = kept \cup ({w} \X (1..call[w].sent))
    <3>1. KeptOf(w) \subseteq 1..call[w].sent
      BY <1>1 DEF KeptFits
    <3>2. KeptOf(w)' = 1..call[w].sent
      BY <1>1, <2>2, <3>1 DEF KeptOf
    <3> QED
      BY <3>2 DEF KeptFits
  <2> QED
    BY <2>1, <2>2
<1> QED
  BY <1>2, <1>3

-----------------------------------------------------------------------------
(* The server runs what nobody awaits.                                     *)

\* What is first in the queue of a session that is in the pool, of a task or recycled.
LEMMA UnheardHead ==
  ASSUME LinksInv, NEW s \in Sessions, queue[s] # <<>>,
         link[s].at \in Callers => call[link[s].at].step = "recycle"
  PROVE  \/ /\ link[s].at = "pool" /\ IsLeft(s, queue[s][1]) /\ Tail(queue[s]) = <<>>
         \/ /\ link[s].at = "task" /\ queue[s][1].for \in Callers
            /\ call[queue[s][1].for].step = "end"
            /\ \/ queue[s][1].do = "rollback" /\ Tail(queue[s]) = <<>>
               \/ queue[s][1].do = "write" /\ Tail(queue[s]) = <<Item("rollback", queue[s][1].for)>>
         \/ /\ link[s].at \in Callers /\ IsLeft(s, queue[s][1])
            /\ Tail(queue[s]) = <<Item("rollback", link[s].at), Item("reset", link[s].at)>>
         \/ /\ link[s].at \in Callers /\ queue[s][1] = Item("rollback", link[s].at)
            /\ Tail(queue[s]) = <<Item("reset", link[s].at)>>
         \/ /\ link[s].at \in Callers /\ queue[s][1] = Item("reset", link[s].at)
            /\ Tail(queue[s]) = <<>> /\ link[s].tx = NoTx
<1>1. SessionFits(s) /\ link[s].at \in Callers \cup {"closed", "pool", "task"}
  BY Typed DEF LinksInv, Places
<1>2. CASE link[s].at = "closed"
  BY <1>1, <1>2 DEF SessionFits
<1>3. CASE link[s].at = "pool"
  <2>1. PICK x : IsLeft(s, x) /\ queue[s] = <<x>>
    BY <1>1, <1>3 DEF SessionFits
  <2> QED
    BY <1>3, <2>1, Tuples
<1>4. CASE link[s].at = "task"
  <2>1. PICK c \in Callers :
          /\ call[c].step = "end"
          /\ queue[s] \in {<<Item("rollback", c)>>, <<Item("write", c), Item("rollback", c)>>}
    BY <1>1, <1>4 DEF SessionFits
  <2>2. CASE queue[s] = <<Item("rollback", c)>>
    <3>1. queue[s][1] = Item("rollback", c) /\ Tail(queue[s]) = <<>>
      BY <2>2, Tuples
    <3> QED
      BY <1>4, <2>1, <3>1 DEF Item
  <2>3. CASE queue[s] = <<Item("write", c), Item("rollback", c)>>
    <3>1. queue[s][1] = Item("write", c) /\ Tail(queue[s]) = <<Item("rollback", c)>>
      BY <2>3, Tuples
    <3>2. queue[s][1].for = c /\ queue[s][1].do = "write"
      BY <3>1 DEF Item
    <3> QED
      BY <1>4, <2>1, <3>1, <3>2
  <2> QED
    BY <2>1, <2>2, <2>3
<1>5. CASE link[s].at \in Callers
  <2>1. PICK c : c = link[s].at
    OBVIOUS
  <2>2. RecycleFits(s, c)
    BY <1>1, <1>5, <2>1 DEF SessionFits, HeldFits
  <2>3. CASE queue[s] = <<Item("reset", c)>> /\ link[s].tx = NoTx
    <3>1. queue[s][1] = Item("reset", c) /\ Tail(queue[s]) = <<>>
      BY <2>3, Tuples
    <3> QED
      BY <1>5, <2>1, <2>3, <3>1
  <2>4. CASE queue[s] = <<Item("rollback", c), Item("reset", c)>>
    <3>1. queue[s][1] = Item("rollback", c) /\ Tail(queue[s]) = <<Item("reset", c)>>
      BY <2>4, Tuples
    <3> QED
      BY <1>5, <2>1, <3>1
  <2>5. ASSUME NEW x, IsLeft(s, x), queue[s] = <<x, Item("rollback", c), Item("reset", c)>>
        PROVE  /\ IsLeft(s, queue[s][1])
               /\ Tail(queue[s]) = <<Item("rollback", c), Item("reset", c)>>
    BY <2>5, Tuples
  <2> QED
    BY <1>5, <2>1, <2>2, <2>3, <2>4, <2>5 DEF RecycleFits
<1> QED
  BY <1>1, <1>2, <1>3, <1>4, <1>5

\* Nobody hears of it: no caller moves, and the session stays where it is.
LEMMA UnheardStill ==
  ASSUME LinksInv, NEW s \in Sessions, Run(s),
         link[s].at \in Callers => call[link[s].at].step = "recycle"
  PROVE  /\ call' = call /\ link'[s].at = link[s].at
         /\ link'[s] = [at |-> link'[s].at, tx |-> link'[s].tx, bound |-> link'[s].bound]
         /\ DOMAIN link' = Sessions /\ DOMAIN queue' = Sessions
         /\ \A t \in Sessions \ {s} : link'[t] = link[t] /\ queue'[t] = queue[t]
         /\ queue'[s] = Tail(queue[s])
         /\ queue[s][1].do = "rollback" => link'[s].tx = NoTx
         /\ queue[s][1].do = "reset" => link'[s].tx = link[s].tx /\ link'[s].bound = "pool"
         /\ \/ kept' = kept
            \/ /\ queue[s][1].do = "commit" /\ link[s].tx.open /\ ~link[s].tx.failed
               /\ kept' = kept \cup link[s].tx.by
<1>1. PICK c : c = queue[s][1].for
  OBVIOUS
<1>2. \/ ~Awaits(c, s)
      \/ Awaits(c, s) /\ call[c].step = "recycle" /\ queue[s][1].do \in {"rollback", "reset"}
  <2>1. queue[s] # <<>>
    BY DEF Run
  <2>2. ASSUME c \in Callers, call[c].step = "end" PROVE ~Awaits(c, s)
    BY <2>2, HoldsOne DEF Awaits, IsActive
  <2>3. CASE IsLeft(s, queue[s][1])
    BY <1>1, <2>2, <2>3 DEF IsLeft
  <2>4. CASE c \in Callers /\ call[c].step = "end"
    BY <2>2, <2>4
  <2>5. CASE /\ link[s].at \in Callers
             /\ \/ queue[s][1] = Item("rollback", link[s].at)
                \/ queue[s][1] = Item("reset", link[s].at)
    <3>1. c = link[s].at /\ queue[s][1].do \in {"rollback", "reset"}
      BY <1>1, <2>5 DEF Item
    <3> QED
      BY <2>5, <3>1
  <2> QED
    BY <1>1, <2>1, <2>3, <2>4, <2>5, UnheardHead
<1>3. /\ DOMAIN queue' = Sessions /\ \A t \in Sessions \ {s} : queue'[t] = queue[t]
      /\ queue'[s] = Tail(queue[s])
  BY Typed DEF Run
<1>4. \/ RunRollback(s, c) \/ RunReset(s, c) \/ RunBound(s, c)
      \/ RunBegin(s, c) \/ RefuseBegin(s, c) \/ RunWrite(s, c) \/ RefuseWrite(s, c)
      \/ RunCommit(s, c) \/ RefuseCommit(s, c)
  BY <1>1 DEF Run
<1>5. /\ link[s] = [at |-> link[s].at, tx |-> link[s].tx, bound |-> link[s].bound]
      /\ DOMAIN link = Sessions
  BY Typed
<1> DEFINE Still ==
         /\ call' = call /\ link'[s].at = link[s].at
         /\ link'[s] = [at |-> link'[s].at, tx |-> link'[s].tx, bound |-> link'[s].bound]
         /\ DOMAIN link' = Sessions /\ \A t \in Sessions \ {s} : link'[t] = link[t]
         /\ queue[s][1].do = "rollback" => link'[s].tx = NoTx
         /\ queue[s][1].do = "reset" => link'[s].tx = link[s].tx /\ link'[s].bound = "pool"
         /\ \/ kept' = kept
            \/ /\ queue[s][1].do = "commit" /\ link[s].tx.open /\ ~link[s].tx.failed
               /\ kept' = kept \cup link[s].tx.by
<1>6. ASSUME RunRollback(s, c) PROVE Still
  <2>1. ~(Awaits(c, s) /\ call[c].step = "undoing")
    BY <1>2
  <2>2. /\ link' = [link EXCEPT ![s].tx = NoTx, ![s].at = link[s].at] /\ call' = call /\ kept' = kept
        /\ queue[s][1].do = "rollback"
    BY <1>6, <2>1 DEF RunRollback
  <2>3. link'[s] = [at |-> link[s].at, tx |-> NoTx, bound |-> link[s].bound]
    BY <1>5, <2>2
  <2> QED
    BY <1>5, <2>2, <2>3
<1>7. ASSUME RunReset(s, c) PROVE Still
  <2>1. /\ link' = [link EXCEPT ![s].bound = "pool"] /\ call' = call /\ kept' = kept
        /\ queue[s][1].do = "reset"
    BY <1>7 DEF RunReset
  <2>2. link'[s] = [at |-> link[s].at, tx |-> link[s].tx, bound |-> "pool"]
    BY <1>5, <2>1
  <2> QED
    BY <1>5, <2>1, <2>2
<1>8. ASSUME RunBound(s, c) PROVE Still
  <2>1. /\ link' = [link EXCEPT ![s].bound = "probe"] /\ call' = call /\ kept' = kept
        /\ queue[s][1].do = "bound"
    BY <1>2, <1>8 DEF RunBound, Answer
  <2>2. link'[s] = [at |-> link[s].at, tx |-> link[s].tx, bound |-> "probe"]
    BY <1>5, <2>1
  <2> QED
    BY <1>5, <2>1, <2>2
<1>9. ASSUME NEW tx, link' = [link EXCEPT ![s].tx = tx], call' = call,
             \/ kept' = kept
             \/ /\ queue[s][1].do = "commit" /\ link[s].tx.open /\ ~link[s].tx.failed
                /\ kept' = kept \cup link[s].tx.by,
             queue[s][1].do \notin {"rollback", "reset"}
      PROVE  Still
  <2>1. link'[s] = [at |-> link[s].at, tx |-> tx, bound |-> link[s].bound]
    BY <1>5, <1>9
  <2> QED
    BY <1>5, <1>9, <2>1
<1>10. ASSUME RunBegin(s, c) PROVE Still
  <2>1. /\ link' = [link EXCEPT ![s].tx = Begun(link[s].tx, c)] /\ call' = call /\ kept' = kept
        /\ queue[s][1].do = "begin"
    BY <1>2, <1>10 DEF RunBegin, Answer
  <2> QED
    BY <1>9, <2>1
<1>11. ASSUME RefuseBegin(s, c) PROVE Still
  <2>1. /\ queue[s][1].do = "begin" /\ kept' = kept
        /\ link' = [link EXCEPT ![s].tx = [Begun(@, c) EXCEPT !.failed = TRUE],
                                ![s].at = IF Awaits(c, s) THEN "pool" ELSE @]
        /\ call' = IF Awaits(c, s) THEN [call EXCEPT ![c].step = "end", ![c].told = "failed"] ELSE call
    BY <1>11 DEF RefuseBegin
  <2>2. ~Awaits(c, s)
    BY <1>2, <2>1
  <2>3. link' = [link EXCEPT ![s].tx = [Begun(link[s].tx, c) EXCEPT !.failed = TRUE]] /\ call' = call
    BY <1>5, <2>1, <2>2
  <2> QED
    BY <1>9, <2>1, <2>3
<1>12. ASSUME RunWrite(s, c) PROVE Still
  <2>1. /\ link' = [link EXCEPT ![s].tx = [link[s].tx EXCEPT !.by = @ \union {<<c, call[c].sent>>}]]
        /\ call' = call /\ kept' = kept /\ queue[s][1].do = "write"
    BY <1>2, <1>5, <1>12 DEF RunWrite, Answer
  <2> QED
    BY <1>9, <2>1
<1>13. ASSUME RefuseWrite(s, c) PROVE Still
  <2>1. /\ link' = [link EXCEPT ![s].tx = [link[s].tx EXCEPT !.failed = TRUE]]
        /\ call' = call /\ kept' = kept /\ queue[s][1].do = "write"
    BY <1>2, <1>5, <1>13 DEF RefuseWrite, Answer
  <2> QED
    BY <1>9, <2>1
<1>14. ASSUME RunCommit(s, c) PROVE Still
  <2>1. /\ queue[s][1].do = "commit"
        /\ kept' = IF link[s].tx.open /\ ~link[s].tx.failed THEN kept \union link[s].tx.by ELSE kept
        /\ link' = [link EXCEPT ![s].tx = NoTx, ![s].at = IF Awaits(c, s) THEN "pool" ELSE @]
        /\ call' = IF Awaits(c, s) THEN [call EXCEPT ![c].step = "end", ![c].told = "committed"] ELSE call
    BY <1>14 DEF RunCommit
  <2>2. ~Awaits(c, s)
    BY <1>2, <2>1
  <2>3. link' = [link EXCEPT ![s].tx = NoTx] /\ call' = call
    BY <1>5, <2>1, <2>2
  <2> QED
    BY <1>9, <2>1, <2>3
<1>15. ASSUME RefuseCommit(s, c) PROVE Still
  <2>1. /\ queue[s][1].do = "commit" /\ kept' = kept
        /\ link' = [link EXCEPT ![s].tx = NoTx, ![s].at = IF Awaits(c, s) THEN "pool" ELSE @]
        /\ call' = IF Awaits(c, s) THEN [call EXCEPT ![c].step = "end", ![c].told = "failed"] ELSE call
    BY <1>15 DEF RefuseCommit
  <2>2. ~Awaits(c, s)
    BY <1>2, <2>1
  <2>3. link' = [link EXCEPT ![s].tx = NoTx] /\ call' = call
    BY <1>5, <2>1, <2>2
  <2> QED
    BY <1>9, <2>1, <2>3
<1>16. Still
  BY <1>4, <1>6, <1>7, <1>8, <1>10, <1>11, <1>12, <1>13, <1>14, <1>15
<1> QED
  BY <1>3, <1>16

\* What nobody awaits is run.
LEMMA UnheardKeeps ==
  ASSUME LinksInv, NEW s \in Sessions, Run(s),
         link[s].at \in Callers => call[link[s].at].step = "recycle"
  PROVE  LinksInv'
<1>1. queue[s] # <<>>
  BY DEF Run
<1>2. link[s].at \in Callers => link[s].at # "pool" /\ link[s].at # "task" /\ link[s].at # "closed"
  BY CallersAreNoPlaces
<1>3. "pool" \notin Callers /\ "task" \notin Callers
  BY LinksAssumption
<1>4. link'[s].at = link[s].at /\ call' = call /\ queue'[s] = Tail(queue[s])
  BY UnheardStill
<1>5. \A w \in Units : KeptFits(w)'
  <2>1. CASE kept' = kept
    BY <1>4, <2>1, KeptStands
  <2>2. CASE /\ queue[s][1].do = "commit" /\ kept' = kept \cup link[s].tx.by
    <3>1. IsLeft(s, queue[s][1])
      <4>1. \A c : queue[s][1] # Item("rollback", c) /\ queue[s][1] # Item("reset", c)
        BY <2>2 DEF Item
      <4> QED
        BY <1>1, <2>2, <4>1, UnheardHead
    <3>2. PICK w : w = queue[s][1].for
      OBVIOUS
    <3>3. w \in Units /\ call[w].told = "unheard" /\ ~call[w].failed /\ IsIn(s, w, call[w].sent)
      BY <2>2, <3>1, <3>2 DEF IsLeft
    <3>4. link[s].tx.by = {w} \X (1..call[w].sent)
      BY <3>3 DEF IsIn
    <3> QED
      BY <1>4, <2>2, <3>3, <3>4, KeptJoins
  <2> QED
    BY <2>1, <2>2, UnheardStill
<1>6. SessionFits(s)'
  <2>1. CASE link[s].at = "pool"
    <3>1. queue'[s] = <<>>
      BY <1>1, <1>3, <1>4, <2>1, UnheardHead
    <3> QED
      BY <1>3, <1>4, <2>1, <3>1 DEF SessionFits
  <2>2. CASE link[s].at = "task"
    <3>1. /\ queue[s][1].for \in Callers /\ call[queue[s][1].for].step = "end"
          /\ queue'[s] \in {<<>>, <<Item("rollback", queue[s][1].for)>>}
      BY <1>1, <1>3, <1>4, <2>2, UnheardHead
    <3>2. PICK c \in Callers : c = queue[s][1].for
      BY <3>1
    <3>3. queue'[s] = <<>> \/ (queue'[s] = <<Item("rollback", c)>> /\ call'[c].step = "end")
      BY <1>4, <3>1, <3>2
    <3> QED
      BY <1>3, <1>4, <2>2, <3>3 DEF SessionFits
  <2>3. CASE link[s].at \in Callers
    <3>1. PICK c \in Callers : c = link[s].at
      BY <2>3
    <3>2. HeldFits(s, c) /\ call[c].step = "recycle"
      BY <2>3, <3>1, HoldsOne
    <3>3. RecycleFits(s, c)'
      <4>1. CASE Tail(queue[s]) = <<Item("rollback", c), Item("reset", c)>>
        BY <1>4, <4>1 DEF RecycleFits
      <4>2. CASE queue[s][1] = Item("rollback", c) /\ Tail(queue[s]) = <<Item("reset", c)>>
        <5>1. queue[s][1].do = "rollback"
          BY <4>2 DEF Item
        <5>2. link'[s].tx = NoTx
          BY <5>1, UnheardStill
        <5> QED
          BY <1>4, <4>2, <5>2 DEF RecycleFits
      <4>3. CASE queue[s][1] = Item("reset", c) /\ Tail(queue[s]) = <<>> /\ link[s].tx = NoTx
        <5>1. queue[s][1].do = "reset"
          BY <4>3 DEF Item
        <5>2. link'[s].tx = NoTx /\ link'[s].bound = "pool"
          BY <4>3, <5>1, UnheardStill
        <5> QED
          BY <1>4, <4>3, <5>2 DEF RecycleFits
      <4> QED
        BY <1>1, <1>2, <2>3, <3>1, <4>1, <4>2, <4>3, UnheardHead
    <3>4. HeldFits(s, c)'
      BY <1>4, <3>2, <3>3 DEF HeldFits, IsActive
    <3> QED
      BY <1>2, <1>4, <2>3, <3>1, <3>4 DEF SessionFits
  <2>4. link[s].at # "closed"
    BY <1>1 DEF LinksInv, SessionFits
  <2> QED
    BY <2>1, <2>2, <2>3, <2>4, Typed DEF Places
<1>7. link'[s].at \in Places
  BY <1>4, Typed
<1> QED
  BY <1>4, <1>5, <1>6, <1>7, UnheardStill, ServerGoesOn

-----------------------------------------------------------------------------
(* The server answers who awaits.                                          *)

\* What is run is what the holder sent, and it awaits the answer.
LEMMA HeardHead ==
  ASSUME LinksInv, NEW s \in Sessions, queue[s] # <<>>, NEW c \in Callers, link[s].at = c,
         call[c].step # "recycle"
  PROVE  /\ call[c].sess = s /\ IsActive(c) /\ Awaits(c, s) /\ queue[s][1].for = c
         /\ Tail(queue[s]) = <<>>
         /\ \/ call[c].step = "opening" /\ queue[s][1].do = "begin"
            \/ call[c].step = "writing" /\ queue[s][1].do = "write"
            \/ call[c].step = "committing" /\ queue[s][1].do = "commit"
            \/ call[c].step = "undoing" /\ queue[s][1].do = "rollback"
            \/ call[c].step = "bounding" /\ queue[s][1].do = "bound"
<1>1. call[c].sess = s /\ IsActive(c) /\ HeldFits(s, c) /\ call[c].step \in Steps
  BY HoldsOne, Typed DEF Called
<1>2. \E do : /\ queue[s] = <<Item(do, c)>>
              /\ \/ call[c].step = "opening" /\ do = "begin"
                 \/ call[c].step = "writing" /\ do = "write"
                 \/ call[c].step = "committing" /\ do = "commit"
                 \/ call[c].step = "undoing" /\ do = "rollback"
                 \/ call[c].step = "bounding" /\ do = "bound"
  BY <1>1 DEF HeldFits, IsActive, Steps
<1>3. PICK do : /\ queue[s] = <<Item(do, c)>>
                /\ \/ call[c].step = "opening" /\ do = "begin"
                   \/ call[c].step = "writing" /\ do = "write"
                   \/ call[c].step = "committing" /\ do = "commit"
                   \/ call[c].step = "undoing" /\ do = "rollback"
                   \/ call[c].step = "bounding" /\ do = "bound"
  BY <1>2
<1>4. queue[s][1] = Item(do, c) /\ Tail(queue[s]) = <<>>
  BY <1>3, Tuples
<1>5. queue[s][1].for = c /\ queue[s][1].do = do
  BY <1>4 DEF Item
<1> QED
  BY <1>1, <1>3, <1>4, <1>5 DEF Awaits

\* The session goes back to the pool, empty, and its holder is told how it ended.
LEMMA ToldKeeps ==
  ASSUME LinksInv, NEW s \in Sessions, NEW c \in Callers, link[s].at = c, NEW told \in Told,
         DOMAIN link' = Sessions, DOMAIN queue' = Sessions,
         \A t \in Sessions \ {s} : link'[t] = link[t] /\ queue'[t] = queue[t],
         NEW tx, link'[s] = [at |-> "pool", tx |-> tx, bound |-> link[s].bound], queue'[s] = <<>>,
         Ends(c, told),
         \/ kept' = kept /\ told # "committed"
         \/ /\ c \in Units /\ told = "committed" /\ kept' = kept \cup ({c} \X (1..call[c].sent))
  PROVE  LinksInv'
<1>1. call[c].sess = s /\ call[c].step \notin {"wait", "end"}
  BY HoldsOne DEF IsActive
<1>2. PICK called \in Called :
           /\ call' = [call EXCEPT ![c] = called] /\ call'[c] = called
           /\ called.step = "end" /\ called.told = told /\ called.sent = call[c].sent
           /\ \A d \in Callers \ {c} : call'[d] = call[d]
  BY EndsAs
<1>5. link'[s].at = "pool" /\ "pool" \notin Callers
  BY LinksAssumption
<1>6. SessionFits(s)'
  BY <1>5 DEF SessionFits
<1>7. \A w \in Units : KeptFits(w)'
  <2>1. CASE kept' = kept /\ told # "committed"
    BY <1>1, <1>2, <2>1, KeptAtEnd
  <2>2. CASE c \in Units /\ told = "committed" /\ kept' = kept \cup ({c} \X (1..call[c].sent))
    <3>1. call[c].told = Nobody
      BY <1>1, CallerHas
    <3>2. \A v \in Units \ {c} : call'[v].told = call[v].told /\ call'[v].sent = call[v].sent
      BY <1>2 DEF Callers
    <3> QED
      BY <1>2, <2>2, <3>1, <3>2, KeptJoins
  <2> QED
    BY <2>1, <2>2
<1>8. /\ link'[s] = [at |-> link'[s].at, tx |-> link'[s].tx, bound |-> link'[s].bound]
      /\ link'[s].at \in {"closed", "pool", "task"}
  OBVIOUS
<1>9. call' = [call EXCEPT ![c] = called] /\ called.step = "end"
  BY <1>2
<1> QED
  BY <1>1, <1>6, <1>7, <1>8, <1>9, HolderLeaves

\* What the holder is after an answer.
LEMMA AnsweredAs ==
  ASSUME LinksInv, NEW s \in Sessions, NEW c \in Callers, Awaits(c, s),
         NEW to \in Steps, NEW failed \in BOOLEAN, Answer(c, s, to, failed)
  PROVE  \E called \in Called :
           /\ call' = [call EXCEPT ![c] = called] /\ call'[c] = called
           /\ called.step = to /\ called.sess = call[c].sess
           /\ called.sent = call[c].sent /\ called.failed = failed /\ called.told = call[c].told
<1>1. PICK called : called = [call[c] EXCEPT !.step = to, !.failed = failed]
  OBVIOUS
<1>2. call' = [call EXCEPT ![c] = called] /\ call'[c] = called
  BY <1>1, Typed DEF Answer
<1>3. /\ called \in Called /\ called.step = to /\ called.sess = call[c].sess
      /\ called.sent = call[c].sent /\ called.failed = failed /\ called.told = call[c].told
  BY <1>1, Typed DEF Called
<1> QED
  BY <1>2, <1>3

\* The holder goes on with its answer.
LEMMA AnsweredKeeps ==
  ASSUME LinksInv, NEW s \in Sessions, NEW c \in Callers, link[s].at = c,
         DOMAIN link' = Sessions, \A t \in Sessions \ {s} : link'[t] = link[t],
         link'[s] = [at |-> c, tx |-> link'[s].tx, bound |-> link'[s].bound],
         NEW called \in Called, call' = [call EXCEPT ![c] = called],
         called.sess = call[c].sess, called.told = call[c].told,
         queue' = [queue EXCEPT ![s] = Tail(@)], Tail(queue[s]) = <<>>, kept' = kept,
         \/ called.step = "reading"
         \/ called.step = "run" /\ c \in Units /\ link'[s].bound = "pool" /\ IsIn(s, c, called.sent)'
  PROVE  LinksInv'
<1>1. call[c].sess = s /\ call[c].step \notin {"wait", "end"}
  BY HoldsOne DEF IsActive
<1>2. call'[c] = called
  BY Typed
<1>3. called.told = Nobody
  BY <1>1, CallerHas
<1>4. link'[s].at = c
  OBVIOUS
<1>5. DOMAIN queue' = Sessions /\ queue'[s] = <<>> /\ \A t \in Sessions \ {s} : queue'[t] = queue[t]
  BY Typed
<1>6. HeldFits(s, c)'
  BY <1>1, <1>2, <1>4, <1>5 DEF HeldFits, IsActive
<1>7. called.step \notin {"ready", "opening", "recycle"}
  OBVIOUS
<1> QED
  BY <1>1, <1>3, <1>4, <1>5, <1>6, <1>7, HolderMoves

\* What ends in the pool.
LEMMA ToldByRun ==
  ASSUME LinksInv, NEW s \in Sessions, NEW c \in Callers, link[s].at = c, NEW told \in Told,
         NEW tx, link' = [link EXCEPT ![s].tx = tx, ![s].at = "pool"],
         call' = [call EXCEPT ![c].step = "end", ![c].told = told],
         queue' = [queue EXCEPT ![s] = Tail(@)], Tail(queue[s]) = <<>>,
         \/ kept' = kept /\ told # "committed"
         \/ /\ c \in Units /\ told = "committed" /\ kept' = kept \cup ({c} \X (1..call[c].sent))
  PROVE  LinksInv'
<1>1. link[s] = [at |-> link[s].at, tx |-> link[s].tx, bound |-> link[s].bound]
      /\ DOMAIN link = Sessions /\ DOMAIN queue = Sessions
  BY Typed
<1>2. /\ link'[s] = [at |-> "pool", tx |-> tx, bound |-> link[s].bound]
      /\ DOMAIN link' = Sessions /\ DOMAIN queue' = Sessions /\ queue'[s] = <<>>
      /\ \A t \in Sessions \ {s} : link'[t] = link[t] /\ queue'[t] = queue[t]
  BY <1>1
<1>3. Ends(c, told)
  BY DEF Ends
<1> QED
  BY <1>2, <1>3, ToldKeeps

\* The transaction begins.
LEMMA BegunKeeps ==
  ASSUME LinksInv, NEW s \in Sessions, NEW c \in Callers, link[s].at = c, call[c].step = "opening",
         Awaits(c, s), Tail(queue[s]) = <<>>, queue' = [queue EXCEPT ![s] = Tail(@)],
         RunBegin(s, c) \/ RefuseBegin(s, c)
  PROVE  LinksInv'
<1>1. link[s].tx = NoTx /\ c \in Units /\ link[s].bound = "pool"
  BY HoldsOne DEF HeldFits
<1>2. call[c].sent = 0
  BY CallerHas
<1>3. link[s] = [at |-> c, tx |-> link[s].tx, bound |-> "pool"] /\ DOMAIN link = Sessions
  BY <1>1, Typed
<1>4. Begun(NoTx, c) = [open |-> TRUE, for |-> c, scope |-> ScopeOf[c], by |-> {}, failed |-> FALSE]
  BY DEF Begun, NoTx
<1>5. CASE RunBegin(s, c)
  <2>1. /\ link' = [link EXCEPT ![s].tx = Begun(link[s].tx, c)] /\ kept' = kept
        /\ Answer(c, s, "run", FALSE)
    BY <1>5 DEF RunBegin
  <2>2. PICK tx : tx = Begun(NoTx, c)
    OBVIOUS
  <2>3. /\ link'[s] = [at |-> c, tx |-> tx, bound |-> "pool"]
        /\ DOMAIN link' = Sessions /\ \A t \in Sessions \ {s} : link'[t] = link[t]
    BY <1>1, <1>3, <2>1, <2>2
  <2>4. /\ link'[s].tx = tx /\ link'[s].bound = "pool"
        /\ link'[s] = [at |-> c, tx |-> link'[s].tx, bound |-> link'[s].bound]
    BY <2>3
  <2>5a. PICK failed \in BOOLEAN : failed = FALSE
    OBVIOUS
  <2>5b. Answer(c, s, "run", failed)
    BY <2>1, <2>5a DEF Answer
  <2>5. "run" \in Steps
    BY DEF Steps
  <2>6. PICK called \in Called :
           /\ call' = [call EXCEPT ![c] = called] /\ call'[c] = called
           /\ called.step = "run" /\ called.sess = call[c].sess
           /\ called.sent = call[c].sent /\ called.failed = failed /\ called.told = call[c].told
    BY <2>5, <2>5b, AnsweredAs
  <2>7. IsIn(s, c, called.sent)'
    <3>1. called.sent = 0
      BY <1>2, <2>6
    <3>2. {c} \X (1..called.sent) = {}
      <4>1. 1..called.sent = {}
        BY <3>1
      <4> QED
        BY <4>1
    <3>3. {} \in SUBSET ({c} \X (1..MaxWrites))
      OBVIOUS
    <3> QED
      BY <1>4, <2>2, <2>4, <2>5a, <2>6, <3>2, <3>3 DEF IsIn
  <2> QED
    BY <1>1, <2>1, <2>3, <2>4, <2>6, <2>7, AnsweredKeeps
<1>6. CASE RefuseBegin(s, c)
  <2>1. /\ link' = [link EXCEPT ![s].tx = [Begun(@, c) EXCEPT !.failed = TRUE], ![s].at = "pool"]
        /\ call' = [call EXCEPT ![c].step = "end", ![c].told = "failed"] /\ kept' = kept
    BY <1>6 DEF RefuseBegin
  <2>2. PICK tx : tx = [Begun(link[s].tx, c) EXCEPT !.failed = TRUE]
    OBVIOUS
  <2>3. link' = [link EXCEPT ![s].tx = tx, ![s].at = "pool"]
    BY <1>3, <2>1, <2>2
  <2>4. "failed" \in Told
    BY DEF Told
  <2> QED
    BY <2>1, <2>3, <2>4, ToldByRun
<1> QED
  BY <1>5, <1>6

\* A statement is run, or refused.
LEMMA WrittenKeeps ==
  ASSUME LinksInv, NEW s \in Sessions, NEW c \in Callers, link[s].at = c, call[c].step = "writing",
         Awaits(c, s), Tail(queue[s]) = <<>>, queue' = [queue EXCEPT ![s] = Tail(@)],
         RunWrite(s, c) \/ RefuseWrite(s, c)
  PROVE  LinksInv'
<1>1. /\ c \in Units /\ link[s].bound = "pool" /\ call[c].sent > 0 /\ IsIn(s, c, call[c].sent - 1)
      /\ call[c].sent \in 1..MaxWrites /\ MaxWrites \in Nat /\ call[c].failed \in BOOLEAN
  BY HoldsOne, Typed DEF HeldFits, Called
<1>2. PICK B \in SUBSET ({c} \X (1..MaxWrites)) :
    /\ link[s].tx = [open |-> TRUE, for |-> c, scope |-> ScopeOf[c], by |-> B,
                     failed |-> call[c].failed]
    /\ ~call[c].failed => B = {c} \X (1..(call[c].sent - 1))
  BY <1>1 DEF IsIn
<1>3. link[s] = [at |-> c, tx |-> link[s].tx, bound |-> "pool"] /\ DOMAIN link = Sessions
  BY <1>1, Typed
<1>4. CASE RunWrite(s, c)
  <2>1. /\ link' = [link EXCEPT ![s].tx.by = @ \union {<<c, call[c].sent>>}] /\ kept' = kept
        /\ Answer(c, s, "run", call[c].failed) /\ ~link[s].tx.failed
    BY <1>4 DEF RunWrite
  <2>2. ~call[c].failed
    BY <1>2, <2>1
  <2>3. PICK D : D = B \cup {<<c, call[c].sent>>}
    OBVIOUS
  <2>4. D = {c} \X (1..call[c].sent) /\ D \in SUBSET ({c} \X (1..MaxWrites))
    BY <1>1, <1>2, <2>2, <2>3
  <2>5. PICK tx : tx = [link[s].tx EXCEPT !.by = @ \union {<<c, call[c].sent>>}]
    OBVIOUS
  <2>6. tx = [open |-> TRUE, for |-> c, scope |-> ScopeOf[c], by |-> D, failed |-> call[c].failed]
    <3>1. PICK b : b = link[s].tx
      OBVIOUS
    <3>2. tx = [b EXCEPT !.by = b.by \union {<<c, call[c].sent>>}]
      BY <2>5, <3>1
    <3>3. b = [open |-> TRUE, for |-> c, scope |-> ScopeOf[c], by |-> B, failed |-> call[c].failed]
      BY <1>2, <3>1
    <3>4. b.by = B
      BY <3>3
    <3>5. tx = [b EXCEPT !.by = D]
      BY <2>3, <3>2, <3>4
    <3> QED
      BY <3>3, <3>5
  <2>7. link'[s] = [at |-> c, tx |-> tx, bound |-> "pool"]
    <3>1. link'[s] = [link[s] EXCEPT !.tx = tx]
      BY <1>3, <2>1, <2>5
    <3> QED
      BY <1>3, <3>1
  <2>8. DOMAIN link' = Sessions /\ \A t \in Sessions \ {s} : link'[t] = link[t]
    BY <1>3, <2>1
  <2>9. /\ link'[s].tx = tx /\ link'[s].bound = "pool"
        /\ link'[s] = [at |-> c, tx |-> link'[s].tx, bound |-> link'[s].bound]
    BY <2>7
  <2>10. "run" \in Steps
    BY DEF Steps
  <2>11. PICK called \in Called :
           /\ call' = [call EXCEPT ![c] = called] /\ call'[c] = called
           /\ called.step = "run" /\ called.sess = call[c].sess
           /\ called.sent = call[c].sent /\ called.failed = call[c].failed /\ called.told = call[c].told
    BY <1>1, <2>1, <2>10, AnsweredAs
  <2>12. IsIn(s, c, called.sent)'
    BY <2>4, <2>6, <2>9, <2>11 DEF IsIn
  <2> QED
    BY <1>1, <2>1, <2>8, <2>9, <2>11, <2>12, AnsweredKeeps
<1>5. CASE RefuseWrite(s, c)
  <2>1. /\ link' = [link EXCEPT ![s].tx.failed = TRUE] /\ kept' = kept
        /\ Answer(c, s, "run", TRUE)
    BY <1>5 DEF RefuseWrite
  <2>2. PICK tx : tx = [link[s].tx EXCEPT !.failed = TRUE]
    OBVIOUS
  <2>3. tx = [open |-> TRUE, for |-> c, scope |-> ScopeOf[c], by |-> B, failed |-> TRUE]
    <3>1. PICK b : b = link[s].tx
      OBVIOUS
    <3>2. b = [open |-> TRUE, for |-> c, scope |-> ScopeOf[c], by |-> B, failed |-> call[c].failed]
      BY <1>2, <3>1
    <3>3. tx = [b EXCEPT !.failed = TRUE]
      BY <2>2, <3>1
    <3> QED
      BY <3>2, <3>3
  <2>4. link'[s] = [at |-> c, tx |-> tx, bound |-> "pool"]
    <3>1. link'[s] = [link[s] EXCEPT !.tx = tx]
      BY <1>3, <2>1, <2>2
    <3> QED
      BY <1>3, <3>1
  <2>5. DOMAIN link' = Sessions /\ \A t \in Sessions \ {s} : link'[t] = link[t]
    BY <1>3, <2>1
  <2>6. /\ link'[s].tx = tx /\ link'[s].bound = "pool"
        /\ link'[s] = [at |-> c, tx |-> link'[s].tx, bound |-> link'[s].bound]
    BY <2>4
  <2>7a. PICK failed \in BOOLEAN : failed = TRUE
    OBVIOUS
  <2>7b. Answer(c, s, "run", failed)
    BY <2>1, <2>7a DEF Answer
  <2>7. "run" \in Steps
    BY DEF Steps
  <2>8. PICK called \in Called :
           /\ call' = [call EXCEPT ![c] = called] /\ call'[c] = called
           /\ called.step = "run" /\ called.sess = call[c].sess
           /\ called.sent = call[c].sent /\ called.failed = failed /\ called.told = call[c].told
    BY <2>7, <2>7b, AnsweredAs
  <2>9. IsIn(s, c, called.sent)'
    BY <2>3, <2>6, <2>7a, <2>8 DEF IsIn
  <2> QED
    BY <1>1, <2>1, <2>5, <2>6, <2>8, <2>9, AnsweredKeeps
<1> QED
  BY <1>4, <1>5

\* A commit is heard of, or its refusal.
LEMMA CommittedKeeps ==
  ASSUME LinksInv, NEW s \in Sessions, NEW c \in Callers, link[s].at = c, call[c].step = "committing",
         Awaits(c, s), Tail(queue[s]) = <<>>, queue' = [queue EXCEPT ![s] = Tail(@)],
         RunCommit(s, c) \/ RefuseCommit(s, c)
  PROVE  LinksInv'
<1>1. c \in Units /\ ~call[c].failed /\ IsIn(s, c, call[c].sent)
  BY HoldsOne DEF HeldFits
<1>2. link[s].tx.by = {c} \X (1..call[c].sent) /\ link[s].tx.open /\ ~link[s].tx.failed
  BY <1>1 DEF IsIn
<1>3. CASE RunCommit(s, c)
  <2>1. /\ link' = [link EXCEPT ![s].tx = NoTx, ![s].at = "pool"]
        /\ call' = [call EXCEPT ![c].step = "end", ![c].told = "committed"]
        /\ kept' = kept \cup ({c} \X (1..call[c].sent))
    BY <1>2, <1>3 DEF RunCommit
  <2>2. "committed" \in Told
    BY DEF Told
  <2> QED
    BY <1>1, <2>1, <2>2, ToldByRun
<1>4. CASE RefuseCommit(s, c)
  <2>1. /\ link' = [link EXCEPT ![s].tx = NoTx, ![s].at = "pool"]
        /\ call' = [call EXCEPT ![c].step = "end", ![c].told = "failed"] /\ kept' = kept
    BY <1>4 DEF RefuseCommit
  <2>2. "failed" \in Told
    BY DEF Told
  <2> QED
    BY <2>1, <2>2, ToldByRun
<1> QED
  BY <1>3, <1>4

\* A rollback that is awaited, and the bound of a probe.
LEMMA OtherAnswersKeep ==
  ASSUME LinksInv, NEW s \in Sessions, NEW c \in Callers, link[s].at = c,
         Awaits(c, s), Tail(queue[s]) = <<>>, queue' = [queue EXCEPT ![s] = Tail(@)],
         \/ call[c].step = "undoing" /\ RunRollback(s, c)
         \/ call[c].step = "bounding" /\ RunBound(s, c)
  PROVE  LinksInv'
<1>1. link[s] = [at |-> c, tx |-> link[s].tx, bound |-> link[s].bound] /\ DOMAIN link = Sessions
  BY Typed
<1>2. CASE call[c].step = "undoing" /\ RunRollback(s, c)
  <2>1. /\ link' = [link EXCEPT ![s].tx = NoTx, ![s].at = "pool"]
        /\ call' = [call EXCEPT ![c].step = "end", ![c].told = "failed"] /\ kept' = kept
    BY <1>2 DEF RunRollback
  <2>2. "failed" \in Told
    BY DEF Told
  <2> QED
    BY <2>1, <2>2, ToldByRun
<1>3. CASE call[c].step = "bounding" /\ RunBound(s, c)
  <2>1. /\ link' = [link EXCEPT ![s].bound = "probe"] /\ kept' = kept
        /\ Answer(c, s, "reading", FALSE)
    BY <1>3 DEF RunBound
  <2>2. /\ link'[s] = [at |-> c, tx |-> link'[s].tx, bound |-> link'[s].bound]
        /\ DOMAIN link' = Sessions /\ \A t \in Sessions \ {s} : link'[t] = link[t]
    BY <1>1, <2>1
  <2>3a. PICK failed \in BOOLEAN : failed = FALSE
    OBVIOUS
  <2>3b. Answer(c, s, "reading", failed)
    BY <2>1, <2>3a DEF Answer
  <2>3. "reading" \in Steps
    BY DEF Steps
  <2>4. PICK called \in Called :
           /\ call' = [call EXCEPT ![c] = called] /\ call'[c] = called
           /\ called.step = "reading" /\ called.sess = call[c].sess
           /\ called.sent = call[c].sent /\ called.failed = failed /\ called.told = call[c].told
    BY <2>3, <2>3b, AnsweredAs
  <2> QED
    BY <2>1, <2>2, <2>4, AnsweredKeeps
<1> QED
  BY <1>2, <1>3

\* The server runs what is first in the queue of a session.
LEMMA RunKeeps ==
  ASSUME LinksInv, NEW s \in Sessions, Run(s)
  PROVE  LinksInv'
<1>1. CASE link[s].at \in Callers => call[link[s].at].step = "recycle"
  BY <1>1, UnheardKeeps
<1>2. CASE link[s].at \in Callers /\ call[link[s].at].step # "recycle"
  <2>1. PICK c \in Callers : c = link[s].at
    BY <1>2
  <2>2. queue[s] # <<>> /\ queue' = [queue EXCEPT ![s] = Tail(@)]
    BY DEF Run
  <2>3. /\ Awaits(c, s) /\ queue[s][1].for = c /\ Tail(queue[s]) = <<>>
        /\ \/ call[c].step = "opening" /\ queue[s][1].do = "begin"
           \/ call[c].step = "writing" /\ queue[s][1].do = "write"
           \/ call[c].step = "committing" /\ queue[s][1].do = "commit"
           \/ call[c].step = "undoing" /\ queue[s][1].do = "rollback"
           \/ call[c].step = "bounding" /\ queue[s][1].do = "bound"
    BY <1>2, <2>1, <2>2, HeardHead
  <2>4. \/ RunRollback(s, c) \/ RunReset(s, c) \/ RunBound(s, c)
        \/ RunBegin(s, c) \/ RefuseBegin(s, c) \/ RunWrite(s, c) \/ RefuseWrite(s, c)
        \/ RunCommit(s, c) \/ RefuseCommit(s, c)
    BY <2>3 DEF Run
  <2>5. \/ call[c].step = "opening" /\ (RunBegin(s, c) \/ RefuseBegin(s, c))
        \/ call[c].step = "writing" /\ (RunWrite(s, c) \/ RefuseWrite(s, c))
        \/ call[c].step = "committing" /\ (RunCommit(s, c) \/ RefuseCommit(s, c))
        \/ call[c].step = "undoing" /\ RunRollback(s, c)
        \/ call[c].step = "bounding" /\ RunBound(s, c)
    BY <2>3, <2>4 DEF RunRollback, RunReset, RunBound, RunBegin, RefuseBegin, RunWrite, RefuseWrite,
                      RunCommit, RefuseCommit
  <2> QED
    BY <2>1, <2>2, <2>3, <2>5, BegunKeeps, WrittenKeeps, CommittedKeeps, OtherAnswersKeep
<1> QED
  BY <1>1, <1>2

-----------------------------------------------------------------------------
(* The link is lost.                                                       *)

\* Its holder waits for another, or ends; nobody else is told of it.
LEMMA LostAs ==
  ASSUME LinksInv, NEW s \in Sessions, LoseLink(s)
  PROVE  /\ call' \in [Callers -> Called]
         /\ \A d \in Callers : link[s].at # d => call'[d] = call[d]
         /\ \A c \in Callers : link[s].at = c =>
              /\ call'[c].sent = call[c].sent /\ call'[c].failed = call[c].failed
              /\ call[c].step = "recycle" => call'[c].step = "wait" /\ call'[c].told = call[c].told
              /\ call[c].step # "recycle" =>
                   /\ call'[c].step = "end"
                   /\ call'[c].told = IF call[c].step = "committing" THEN "unheard" ELSE "failed"
<1>1. \A d \in Callers : link[s].at # d => call'[d] = call[d]
  BY DEF LoseLink, Awaits
<1>2. ASSUME NEW c \in Callers, link[s].at = c
      PROVE  /\ call'[c] \in Called
             /\ call'[c].sent = call[c].sent /\ call'[c].failed = call[c].failed
             /\ call[c].step = "recycle" => call'[c].step = "wait" /\ call'[c].told = call[c].told
             /\ call[c].step # "recycle" =>
                  /\ call'[c].step = "end"
                  /\ call'[c].told = IF call[c].step = "committing" THEN "unheard" ELSE "failed"
  <2>1. Awaits(c, s) /\ call[c].step # "end"
    BY <1>2, HoldsOne DEF Awaits, IsActive
  <2>2. call'[c] = [call[c] EXCEPT !.step = IF @ = "recycle" THEN "wait" ELSE "end",
                                   !.sess = Nobody,
                                   !.told = IF call[c].step = "recycle" THEN @
                                            ELSE IF call[c].step = "committing" THEN "unheard"
                                            ELSE "failed"]
    BY <2>1 DEF LoseLink
  <2>3. PICK old : old = call[c]
    OBVIOUS
  <2>4. old \in Called
    BY <2>3, Typed
  <2>5. PICK to \in Steps : to = IF old.step = "recycle" THEN "wait" ELSE "end"
    BY DEF Steps
  <2>6. PICK told \in Told : told = IF old.step = "recycle" THEN old.told
                                    ELSE IF old.step = "committing" THEN "unheard" ELSE "failed"
    BY <2>4 DEF Told, Called
  <2>7. call'[c] = [old EXCEPT !.step = to, !.sess = Nobody, !.told = told]
    BY <2>2, <2>3, <2>5, <2>6
  <2>8. /\ call'[c] \in Called /\ call'[c].sent = old.sent /\ call'[c].failed = old.failed
        /\ call'[c].step = to /\ call'[c].told = told
    BY <2>4, <2>7 DEF Called
  <2> QED
    BY <2>3, <2>5, <2>6, <2>8
<1>3. \A d \in Callers : call'[d] \in Called
  BY <1>1, <1>2, Typed
<1>4. call' \in [Callers -> Called]
  <2>1. call' = [d \in Callers |-> call'[d]]
    BY DEF LoseLink
  <2> QED
    BY <1>3, <2>1
<1> QED
  BY <1>1, <1>2, <1>4

\* What is kept of it: all, if the commit was the first it had to run, or nothing.
LEMMA LostIsKept ==
  ASSUME LinksInv, NEW s \in Sessions, LoseLink(s)
  PROVE  \A w \in Units : KeptFits(w)'
<1>1. ASSUME NEW v \in Units
      PROVE  \/ call'[v].told = call[v].told /\ call'[v].sent = call[v].sent
             \/ call[v].step # "end" /\ call'[v].told # "committed"
  <2>1. v \in Callers
    BY DEF Callers
  <2>2. CASE link[s].at = v
    <3>1. call[v].step # "end"
      BY <2>1, <2>2, HoldsOne DEF IsActive
    <3> QED
      BY <2>1, <2>2, <3>1, LostAs
  <2>3. CASE link[s].at # v
    BY <2>1, <2>3, LostAs
  <2> QED
    BY <2>2, <2>3
<1>2. CASE kept' = kept
  BY <1>1, <1>2, KeptStands
<1>3. CASE queue[s] # <<>> /\ queue[s][1].do = "commit" /\ kept' = kept \cup link[s].tx.by
  <2>1. CASE link[s].at \in Callers => call[link[s].at].step = "recycle"
    <3>1. IsLeft(s, queue[s][1])
      <4>1. \A c : queue[s][1] # Item("rollback", c) /\ queue[s][1] # Item("reset", c)
        BY <1>3 DEF Item
      <4> QED
        BY <1>3, <2>1, <4>1, UnheardHead
    <3>2. PICK w : w = queue[s][1].for
      OBVIOUS
    <3>3. /\ w \in Units /\ w \in Callers /\ call[w].step = "end" /\ call[w].told = "unheard"
          /\ ~call[w].failed /\ IsIn(s, w, call[w].sent)
      BY <1>3, <3>1, <3>2 DEF IsLeft
    <3>4. link[s].tx.by = {w} \X (1..call[w].sent)
      BY <3>3 DEF IsIn
    <3>5. call'[w] = call[w]
      <4>1. link[s].at # w
        BY <2>1, <3>3
      <4> QED
        BY <3>3, <4>1, LostAs
    <3> QED
      BY <1>1, <1>3, <3>3, <3>4, <3>5, KeptJoins
  <2>2. CASE link[s].at \in Callers /\ call[link[s].at].step # "recycle"
    <3>1. PICK w \in Callers : w = link[s].at
      BY <2>2
    <3>2. call[w].step = "committing" /\ HeldFits(s, w)
      BY <1>3, <2>2, <3>1, HeardHead, HoldsOne
    <3>3. w \in Units /\ ~call[w].failed /\ IsIn(s, w, call[w].sent) /\ call[w].told = Nobody
      BY <3>2, CallerHas DEF HeldFits
    <3>4. link[s].tx.by = {w} \X (1..call[w].sent)
      BY <3>3 DEF IsIn
    <3>5. call'[w].told = "unheard" /\ call'[w].sent = call[w].sent
      BY <3>1, <3>2, LostAs
    <3> QED
      BY <1>1, <1>3, <3>3, <3>4, <3>5, KeptJoins
  <2> QED
    BY <2>1, <2>2
<1> QED
  BY <1>2, <1>3 DEF LoseLink

\* The session is closed and empty, and its holder no longer has it.
LEMMA LoseLinkKeeps ==
  ASSUME LinksInv, NEW s \in Sessions, LoseLink(s)
  PROVE  LinksInv'
<1>1. /\ link'[s] = Closed /\ queue'[s] = <<>> /\ DOMAIN link' = Sessions /\ DOMAIN queue' = Sessions
      /\ \A t \in Sessions \ {s} : link'[t] = link[t] /\ queue'[t] = queue[t]
  BY Typed DEF LoseLink
<1>2. /\ link'[s].at = "closed" /\ "closed" \notin Callers /\ link'[s].at \in Places
      /\ link'[s] = [at |-> link'[s].at, tx |-> link'[s].tx, bound |-> link'[s].bound]
  BY <1>1, LinksAssumption DEF Closed, Places
<1>3. SessionFits(s)'
  BY <1>1, <1>2 DEF SessionFits
<1>4. \A w \in Units : KeptFits(w)'
  BY LostIsKept
<1>5. CASE link[s].at \in Callers
  <2>1. PICK c \in Callers : c = link[s].at
    BY <1>5
  <2>2. call[c].sess = s /\ call[c].step # "end"
    BY <2>1, HoldsOne DEF IsActive
  <2>3. CallerFits(c)'
    BY <2>1, <2>2, LostAs, CallerHas DEF CallerFits, IsActive
  <2>4. \A d \in Callers \ {c} : call'[d] = call[d]
    BY <2>1, LostAs
  <2>5. call' \in [Callers -> Called]
    BY LostAs
  <2> QED
    BY <1>1, <1>2, <1>3, <1>4, <2>1, <2>2, <2>3, <2>4, <2>5, CallerGoesOn
<1>6. CASE link[s].at \notin Callers
  <2>1. call' = call
    <3>1. \A d \in Callers : call'[d] = call[d]
      BY <1>6, LostAs
    <3>2. call \in [Callers -> Called] /\ call' \in [Callers -> Called]
      BY LostAs DEF LinksInv, TypeOK
    <3> QED
      BY <3>1, <3>2
  <2> QED
    BY <1>1, <1>2, <1>3, <1>4, <1>6, <2>1, ServerGoesOn
<1> QED
  BY <1>5, <1>6

-----------------------------------------------------------------------------
(* The theorem.                                                            *)

\* At the start every caller waits and every session is closed.
LEMMA LinksBegin == LinksInit => LinksInv
<1> SUFFICES ASSUME LinksInit PROVE LinksInv
  OBVIOUS
<1>1. /\ \A c \in Callers : call[c] = Waiting
      /\ \A s \in Sessions : link[s] = Closed /\ queue[s] = <<>>
      /\ DOMAIN link = Sessions /\ DOMAIN queue = Sessions /\ kept = {}
  BY DEF LinksInit
<1>2. Waiting \in Called
  BY LinksAssumption DEF Waiting, Called, Steps, Told
<1>3. TypeOK
  <2>1. \A s \in Sessions : /\ link[s].at \in Places
                            /\ link[s] = [at |-> link[s].at, tx |-> link[s].tx, bound |-> link[s].bound]
    BY <1>1 DEF Closed, Places
  <2>2. call \in [Callers -> Called]
    BY <1>2 DEF LinksInit
  <2> QED
    BY <1>1, <2>1, <2>2 DEF TypeOK
<1>4. ASSUME NEW s \in Sessions PROVE SessionFits(s)
  BY <1>1, LinksAssumption DEF SessionFits, Closed
<1>5. ASSUME NEW c \in Callers PROVE CallerFits(c)
  BY <1>1 DEF CallerFits, IsActive, Waiting
<1>6. ASSUME NEW w \in Units PROVE KeptFits(w)
  <2>1. call[w] = Waiting /\ KeptOf(w) = {}
    BY <1>1 DEF KeptOf, Callers
  <2>2. call[w].told = Nobody
    BY <2>1 DEF Waiting
  <2> QED
    BY <2>1, <2>2 DEF KeptFits, Nobody
<1> QED
  BY <1>3, <1>4, <1>5, <1>6 DEF LinksInv

\* Nothing changes.
LEMMA NothingKeeps ==
  ASSUME LinksInv, UNCHANGED linkVars
  PROVE  LinksInv'
<1>1. link' = link /\ queue' = queue /\ call' = call /\ kept' = kept
  BY DEF linkVars
<1>2. ASSUME NEW t \in Sessions PROVE SessionFits(t)'
  BY <1>1, OthersStand
<1>3. ASSUME NEW d \in Callers PROVE CallerFits(d)'
  BY <1>1 DEF LinksInv, CallerFits, IsActive
<1>4. ASSUME NEW w \in Units PROVE KeptFits(w)'
  BY <1>1, KeptStands
<1>5. TypeOK'
  BY <1>1 DEF LinksInv, TypeOK
<1> QED
  BY <1>2, <1>3, <1>4, <1>5 DEF LinksInv

\* Every step keeps it.
LEMMA LinksGoOn == LinksInv /\ [LinksNext]_linkVars => LinksInv'
<1> SUFFICES ASSUME LinksInv, [LinksNext]_linkVars PROVE LinksInv'
  OBVIOUS
<1>1. Units \subseteq Callers /\ Probes \subseteq Callers
  BY DEF Callers
<1>2. CASE \E c \in Callers : Borrowing(c) \/ Recycled(c) \/ Cancel(c)
  BY <1>2, BorrowKeeps, ConnectKeeps, GiveUpWaitingKeeps, RecycledKeeps, CancelKeeps DEF Borrowing
<1>3. CASE \E w \in Units : Handler(w)
  BY <1>1, <1>3, OpenKeeps, WriteKeeps, CommitKeeps, AbandonKeeps, AbandonClosedKeeps DEF Handler
<1>4. CASE \E p \in Probes : Bound(p) \/ ProbeReads(p) \/ ProbeTimesOut(p)
  BY <1>1, <1>4, BoundKeeps, ProbeReadsKeeps, ProbeTimesOutKeeps
<1>5. CASE \E s \in Sessions : Run(s) \/ TaskEnds(s) \/ LoseLink(s) \/ EndIdle(s)
  BY <1>5, RunKeeps, TaskEndsKeeps, LoseLinkKeeps, EndIdleKeeps
<1>6. CASE UNCHANGED linkVars
  BY <1>6, NothingKeeps
<1> QED
  BY <1>2, <1>3, <1>4, <1>5, <1>6 DEF LinksNext

\* Who runs holds the session it says, and what its step needs.
LEMMA LinksApart == LinksInv => UnitsAreApart
<1> SUFFICES ASSUME LinksInv PROVE UnitsAreApart
  OBVIOUS
<1>1. RunsInItsOwn
  <2> SUFFICES ASSUME NEW w \in Units, call[w].step \in {"run", "writing"}
               PROVE  LET tx == link[Holds(w)].tx
                      IN /\ tx.open /\ tx.for = w /\ tx.scope = ScopeOf[w]
                         /\ tx.by \subseteq {w} \X (1..MaxWrites)
    BY DEF RunsInItsOwn
  <2>1. w \in Callers
    BY DEF Callers
  <2>2. HeldFits(call[w].sess, w)
    BY <2>1, ActiveHolds
  <2>3. \E n : IsIn(call[w].sess, w, n)
    BY <2>2 DEF HeldFits
  <2> QED
    BY <2>3 DEF IsIn, Holds
<1>2. ToldIsKept
  <2> SUFFICES ASSUME NEW w \in Units
               PROVE  LET mine == {n \in 1..MaxWrites : <<w, n>> \in kept}
                      IN /\ mine \in {{}, 1..call[w].sent}
                         /\ call[w].told = "committed" => mine = 1..call[w].sent
                         /\ call[w].told \in {"abandoned", "failed", "busy"} => mine = {}
    BY DEF ToldIsKept
  <2>1. KeptFits(w)
    BY DEF LinksInv
  <2> QED
    BY <2>1 DEF KeptFits, KeptOf
<1>3. BoundIsThePools
  <2> SUFFICES ASSUME NEW w \in Units, call[w].step \in {"opening", "run", "writing", "committing"}
               PROVE  link[Holds(w)].bound = "pool"
    BY DEF BoundIsThePools
  <2>1. w \in Callers
    BY DEF Callers
  <2>2. HeldFits(call[w].sess, w)
    BY <2>1, ActiveHolds
  <2> QED
    BY <2>2 DEF HeldFits, Holds
<1> QED
  BY <1>1, <1>2, <1>3 DEF UnitsAreApart

\* Units of work are apart, for any callers and sessions: whatever is cancelled,
\* lost or given back with statements still queued, a unit of work runs only in
\* a transaction of its own, in its scope and under the settings of the pool,
\* and what it is told of its end is what is kept of it.
THEOREM UnitsStayApart == LinksSpec => []UnitsAreApart
<1>1. LinksInit => LinksInv
  BY LinksBegin
<1>2. LinksInv /\ [LinksNext]_linkVars => LinksInv'
  BY LinksGoOn
<1>3. LinksInv => UnitsAreApart
  BY LinksApart
<1> QED
  BY <1>1, <1>2, <1>3, PTL DEF LinksSpec
=============================================================================
