----------------------------- MODULE AuditChain -----------------------------
(***************************************************************************)
(* The audit chain of a realm: saffui_append_audit_event, the one writer   *)
(* of the chain, called inside the units of work of every handler, and     *)
(* verify_chain, which walks the chain page by page in one snapshot while  *)
(* others append.  Rows can also be changed behind the back of the server, *)
(* which is what a verification is for.                                    *)
(*                                                                         *)
(* A hash is a value of Hash: nothing is assumed of it until a             *)
(* verification has to tell an altered chain from a whole one.             *)
(***************************************************************************)
EXTENDS UnitOfWork, Naturals, FiniteSets

CONSTANTS Verifiers,      \* verifications of the chain
          Envelopes,      \* what events say
          Hash(_, _, _),  \* of a previous hash, a sequence number, an envelope
          Genesis,        \* the hash before the first event
          HeadRow,        \* the key of the head of the chain
          Page,           \* how many events a verification reads at a time
          MostEvents,     \* bound on the length of the chain
          MostAltered     \* bound on the rows changed behind the server

ASSUME ChainAssumption == Rows = {HeadRow} /\ Page \in Nat \ {0}

VARIABLES events,    \* the committed rows of audit_events
          inserted,  \* the rows each unit of work inserted and did not commit
          step,      \* the next statement of each unit of work
          altered,   \* the rows changed behind the server
          walk       \* how far each verification is, and in which snapshot

chain == <<events, inserted, step>>
vars == <<storage, chain, altered, walk>>

Position(seq, hash) == [seq |-> seq, hash |-> hash]

Link(position, envelope) ==
  [seq |-> position.seq + 1, previous |-> position.hash,
   hash |-> Hash(position.hash, position.seq + 1, envelope), envelope |-> envelope]

Init ==
  /\ StorageInit([x \in Rows |-> None])
  /\ events = {}
  /\ inserted = [w \in Works |-> {}]
  /\ step = [w \in Works |-> "work"]
  /\ altered = 0
  /\ walk = [v \in Verifiers |-> [verdict |-> "not_begun"]]

-----------------------------------------------------------------------------
(* Appending, in the unit of work that makes the change.                   *)

\* INSERT ... ON CONFLICT DO NOTHING: the first append of a realm writes its
\* head.  A head another work inserted and did not commit is waited for.
EnsureHead(w) ==
  /\ step[w] = "work"
  /\ Cardinality(events) + Cardinality(UNION {inserted[u] : u \in Works}) < MostEvents
  /\ step' = [step EXCEPT ![w] = "link"]
  /\ IF Sees(w, HeadRow) = None
     THEN WriteRow(w, HeadRow, Position(0, Genesis))
     ELSE UNCHANGED storage
  /\ UNCHANGED <<events, inserted, altered, walk>>

\* Mutant: the head is read and written without waiting for its lock.
AppendEventUnlocked(w) ==
  /\ step[w] = "link"
  /\ \E envelope \in Envelopes :
       LET event == Link(Sees(w, HeadRow), envelope)
       IN /\ cur' = [cur EXCEPT ![HeadRow] = Position(event.seq, event.hash)]
          /\ writer' = [writer EXCEPT ![HeadRow] = w]
          /\ inserted' = [inserted EXCEPT ![w] = @ \cup {event}]
  /\ step' = [step EXCEPT ![w] = "work"]
  /\ UNCHANGED <<com, sharers, events, altered, walk>>

\* SELECT ... FOR UPDATE, then the event and the head that names it.
AppendEvent(w) ==
  /\ step[w] = "link"
  /\ \E envelope \in Envelopes :
       LET event == Link(Sees(w, HeadRow), envelope)
       IN /\ WriteRow(w, HeadRow, Position(event.seq, event.hash))
          /\ inserted' = [inserted EXCEPT ![w] = @ \cup {event}]
  /\ step' = [step EXCEPT ![w] = "work"]
  /\ UNCHANGED <<events, altered, walk>>

CommitWork(w) ==
  /\ step[w] = "work" /\ inserted[w] # {}
  /\ Commit(w)
  /\ events' = events \cup inserted[w]
  /\ inserted' = [inserted EXCEPT ![w] = {}]
  /\ UNCHANGED <<step, altered, walk>>

AbandonWork(w) ==
  /\ step[w] = "link" \/ inserted[w] # {}
  /\ Rollback(w)
  /\ inserted' = [inserted EXCEPT ![w] = {}]
  /\ step' = [step EXCEPT ![w] = "work"]
  /\ UNCHANGED <<events, altered, walk>>

-----------------------------------------------------------------------------
(* What the chain is verified for: a row changed or removed by hand.       *)

AlterEvent ==
  /\ altered < MostAltered
  /\ \E event \in events, envelope \in Envelopes :
       /\ envelope # event.envelope
       /\ events' = (events \ {event}) \cup {[event EXCEPT !.envelope = envelope]}
  /\ altered' = altered + 1
  /\ UNCHANGED <<storage, inserted, step, walk>>

RemoveEvent ==
  /\ altered < MostAltered
  /\ \E event \in events : events' = events \ {event}
  /\ altered' = altered + 1
  /\ UNCHANGED <<storage, inserted, step, walk>>

-----------------------------------------------------------------------------
(* verify_chain.                                                           *)

\* The snapshot is that of the first statement: events and head together.
BeginVerify(v) ==
  /\ walk[v].verdict = "not_begun"
  /\ walk' = [walk EXCEPT ![v] =
       [verdict |-> "walking", events |-> events, head |-> com[HeadRow],
        at |-> Position(0, Genesis), altered |-> altered]]
  /\ UNCHANGED <<storage, chain, altered>>

\* Mutant: the hash of an event is taken as it is stored.
CheckLinkUnhashed(position, event) ==
  event.seq = position.seq + 1 /\ event.previous = position.hash

CheckLink(position, event) ==
  /\ event.seq = position.seq + 1
  /\ event.previous = position.hash
  /\ event.hash = Hash(position.hash, event.seq, event.envelope)

\* The first Page events past a sequence number.
NextPage(rows, seq) ==
  {event \in rows : event.seq > seq
     /\ Cardinality({e \in rows : seq < e.seq /\ e.seq < event.seq}) < Page}

\* Where a walk is once it went over the rows that follow a position.
PositionAfter(position, rows) ==
  IF rows = {} THEN position
  ELSE LET last == CHOOSE e \in rows : \A f \in rows : f.seq <= e.seq
       IN Position(last.seq, last.hash)

\* Each event of a page is checked against the one before it, the first
\* against the last of the page before.
VerifyPage(v) ==
  /\ walk[v].verdict = "walking"
  /\ LET page == NextPage(walk[v].events, walk[v].at.seq)
         position(rows) == PositionAfter(walk[v].at, rows)
         before(event) == {e \in page : e.seq < event.seq}
         head == walk[v].head
     IN IF page # {}
        THEN IF \A event \in page : CheckLink(position(before(event)), event)
             THEN walk' = [walk EXCEPT ![v].at = position(page)]
             ELSE walk' = [walk EXCEPT ![v].verdict = "broken"]
        ELSE walk' = [walk EXCEPT ![v].verdict =
               IF (head = None /\ walk[v].at.seq = 0) \/ head = walk[v].at
               THEN "intact" ELSE "broken"]
  /\ UNCHANGED <<storage, chain, altered>>

Next ==
  \/ \E w \in Works : EnsureHead(w) \/ AppendEvent(w) \/ CommitWork(w) \/ AbandonWork(w)
  \/ AlterEvent
  \/ RemoveEvent
  \/ \E v \in Verifiers : BeginVerify(v) \/ VerifyPage(v)

Spec == Init /\ [][Next]_vars

-----------------------------------------------------------------------------
(* Properties.                                                             *)

\* Where a chain of these rows may stand.
Positions(rows) == {Position(0, Genesis)} \cup {Position(e.seq, e.hash) : e \in rows}

\* The rows are one chain that ends at head: numbered without a gap from one,
\* each linked to the one before.
IsWhole(rows, head) ==
  LET length == IF head = None THEN 0 ELSE head.seq
  IN /\ {e.seq : e \in rows} = 1 .. length
     /\ \A e, f \in rows : e.seq = f.seq => e = f
     /\ \A e \in rows : \E position \in Positions(rows) : CheckLink(position, e)
     /\ head # None => head \in Positions(rows)

\* However appends interleave, whichever commit and whichever are abandoned,
\* the committed events are one chain, and the committed head its end.
ChainIsWhole == altered = 0 => IsWhole(events, com[HeadRow])

\* A verification says what is so of its snapshot, wherever its pages fall:
\* a chain is never called broken because of an append that commits meanwhile,
\* nor called intact with a row changed or removed.
VerdictIsTrue ==
  \A v \in Verifiers :
    /\ walk[v].verdict = "intact" =>
         IsWhole(walk[v].events, walk[v].head) /\ walk[v].altered # 1
    /\ walk[v].verdict = "broken" =>
         ~IsWhole(walk[v].events, walk[v].head) /\ walk[v].altered # 0

\* A verification ends, however much is appended while it walks.
VerificationEnds ==
  \A v \in Verifiers : walk[v].verdict = "walking" ~> walk[v].verdict \in {"intact", "broken"}
=============================================================================
