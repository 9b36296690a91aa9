------------------------------ MODULE MCStorage ------------------------------
(***************************************************************************)
(* Small instances of the two components that stand on Postgres itself:    *)
(* the audit chain, and the links the units of work borrow.  A behaviour   *)
(* is one of the chain or one of the links.                                *)
(***************************************************************************)
EXTENDS AuditChain, Links, TLC

CONSTANTS w1, w2, a, b

VARIABLE part

\* A hash is the tuple of what it hashes: two different links never have the
\* same one.
MCHash(previous, seq, envelope) == <<previous, seq, envelope>>
MCRows == {HeadRow}

\* Two units of work, of two realms, the second of one statement at most.
MCScopeOf == (w1 :> a) @@ (w2 :> b)

MCInit ==
  /\ Init
  /\ LinksInit
  /\ part \in {"chain", "links"}

MCNext ==
  \/ part = "chain" /\ Next /\ UNCHANGED <<linkVars, part>>
  \/ part = "links" /\ LinksNext /\ call'[w2].sent <= 1 /\ UNCHANGED <<vars, part>>

Chain(A) == part = "chain" /\ A
Links(A) == part = "links" /\ A

\* A verification goes on to its end.  A handler goes on to its end, a wait for
\* a session is bounded, the server runs what it is sent and its idle timeout
\* fires.
MCFairness ==
  /\ \A v \in Verifiers : WF_vars(Chain(VerifyPage(v)))
  /\ \A c \in Callers : /\ WF_linkVars(Links(Borrowing(c)))
                        /\ WF_linkVars(Links(Recycled(c)))
  /\ \A w \in Units : /\ WF_linkVars(Links(Open(w)))
                      /\ WF_linkVars(Links(CommitUnit(w) \/ Abandon(w)))
  /\ \A p \in Probes : WF_linkVars(Links(Bound(p) \/ ProbeReads(p)))
  /\ \A s \in Sessions : /\ WF_linkVars(Links(Run(s)))
                         /\ WF_linkVars(Links(TaskEnds(s)))
                         /\ WF_linkVars(Links(EndIdle(s)))

MCSpec == MCInit /\ [][MCNext]_<<vars, linkVars, part>> /\ MCFairness

\* AuditChain!VerificationEnds, Links!EveryTransactionEnds: a verification ends
\* however much is appended, and a transaction though its call was cancelled.
EverythingEnds == VerificationEnds /\ EveryTransactionEnds
=============================================================================
