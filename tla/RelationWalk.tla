---------------------------- MODULE RelationWalk ----------------------------
(***************************************************************************)
(* Whether a subject stands in a member of an object                       *)
(* (authz/relations/check.rs): a depth-first walk over the relations kept, *)
(* under a compiled schema, bounded in depth, reads, fan-out, steps and    *)
(* time.  A question asks its unit of work one statement at a time, so the *)
(* relations may change between two reads of one walk: those of `before`   *)
(* are read first, and those of `after` once `change` reads were made.     *)
(*                                                                         *)
(* An object is [type, id].  A relation names a subject [object, member],  *)
(* member None for the object itself.  The members of a type are, in the   *)
(* schema, a relation with the subjects it admits or a permission with its *)
(* rule.  A storage that fails ends the walk with no answer.               *)
(***************************************************************************)
EXTENDS Integers, Sequences, SequencesExt, FiniteSets, FiniteSetsExt

CONSTANTS None,
          Objects,     \* the objects there are
          Members,     \* the names of members
          Schemas,     \* the schemas tried: [type -> [member -> kind]]
          Tuples,      \* the relations that may be kept
          Questions,   \* what is asked: [object, member, subject]
          MaxDepth, MaxReads, MaxFanout, MaxSteps,
          Deadlines,   \* how many times the clock is read before it is late
          Changes      \* after how many reads the relations change

WalkAssumption ==
  /\ {MaxDepth, MaxReads, MaxFanout, MaxSteps} \subseteq Nat
  /\ Deadlines \subseteq Nat /\ Changes \subseteq Nat

VARIABLES asked,   \* the question, the schema, the relations and the deadline
          walked   \* what the walk answered and spent, or None

vars == <<asked, walked>>

Init ==
  /\ asked \in [question : Questions, schema : Schemas, before : SUBSET Tuples,
                after : SUBSET Tuples, change : Changes, deadline : Deadlines]
  /\ asked.change = 0 => asked.before = asked.after
  /\ walked = None

-----------------------------------------------------------------------------
(* The schema and the relations.                                           *)

\* find_member
FindMember(q, object, member) ==
  IF object.type \in DOMAIN q.schema /\ member \in DOMAIN q.schema[object.type]
  THEN q.schema[object.type][member] ELSE None

IsRelation(kind) == kind # None /\ kind.kind = "relation"

\* The subjects a relation of an object names that the schema admits there.
Admitted(kind, tuples, object, relation) ==
  {t.subject : t \in {u \in tuples :
     /\ u.object = object /\ u.relation = relation
     /\ [type |-> u.subject.object.type, member |-> u.subject.member] \in kind.allowed}}

-----------------------------------------------------------------------------
(* The walk.  Each operator takes what the walk has spent and found so far, *)
(* and gives it back with its answer.                                       *)

Start == [answer |-> "NotFound", reads |-> 0, steps |-> 0, ticks |-> 0,
          known |-> <<>>, walking |-> {}]

Answer(w, answer) == [w EXCEPT !.answer = answer]

\* check_time: the clock is read, and may be past the deadline.
Late(q, w) == w.ticks >= q.deadline
Tick(w) == [w EXCEPT !.ticks = @ + 1]

\* read_subjects: the relations kept when the read is made, or a bound.
ReadSubjects(q, w0, object, relation) ==
  LET w == [w0 EXCEPT !.reads = @ + 1]
      tuples == IF w.reads <= q.change THEN q.before ELSE q.after
      named == {t \in tuples : t.object = object /\ t.relation = relation}
  IN IF w.reads > MaxReads THEN [walk |-> Answer(w, "Reads"), tuples |-> None]
     ELSE IF Late(q, w) THEN [walk |-> Answer(Tick(w), "Duration"), tuples |-> None]
     ELSE IF Cardinality(named) > MaxFanout
     THEN [walk |-> Answer(Tick(w), "Fanout"), tuples |-> None]
     ELSE IF Late(q, Tick(w)) THEN [walk |-> Answer(Tick(Tick(w)), "Duration"), tuples |-> None]
     ELSE [walk |-> Tick(Tick(w)), tuples |-> tuples]

At(object, member) == [rule |-> "at", object |-> object, member |-> member]

RECURSIVE WalkMember(_, _, _, _, _), WalkRelation(_, _, _, _, _), WalkRule(_, _, _, _, _),
          WalkUnion(_, _, _, _, _, _), WalkIntersection(_, _, _, _, _, _)

\* Mutant: a member met while it is walked is taken for one that does not hold.
WalkMemberOnce(q, w0, object, member, depth) ==
  LET w == Tick([w0 EXCEPT !.steps = @ + 1])
      key == <<object, member>>
      kind == FindMember(q, object, member)
      inside == [w EXCEPT !.walking = @ \cup {key}]
      done == CASE kind = None -> Answer(inside, "NotFound")
                [] IsRelation(kind) -> WalkRelation(q, inside, object, member, depth)
                [] OTHER -> WalkRule(q, inside, object, kind.body, depth)
  IN IF w.steps > MaxSteps THEN Answer(w, "Steps")
     ELSE IF Late(q, w0) THEN Answer(w, "Duration")
     ELSE IF depth > MaxDepth THEN Answer(w, "Depth")
     ELSE IF key \in DOMAIN w.known THEN Answer(w, w.known[key])
     ELSE IF key \in w.walking THEN Answer(w, "NotFound")
     ELSE [done EXCEPT !.walking = @ \ {key}, !.known = @ @@ (key :> done.answer)]

\* walk_member: no member is walked twice, and one met while it is walked is a
\* loop, which decides nothing.
WalkMember(q, w0, object, member, depth) ==
  LET w == Tick([w0 EXCEPT !.steps = @ + 1])
      key == <<object, member>>
      kind == FindMember(q, object, member)
      inside == [w EXCEPT !.walking = @ \cup {key}]
      done == CASE kind = None -> Answer(inside, "NotFound")
                [] IsRelation(kind) -> WalkRelation(q, inside, object, member, depth)
                [] OTHER -> WalkRule(q, inside, object, kind.body, depth)
  IN IF w.steps > MaxSteps THEN Answer(w, "Steps")
     ELSE IF Late(q, w0) THEN Answer(w, "Duration")
     ELSE IF depth > MaxDepth THEN Answer(w, "Depth")
     ELSE IF key \in DOMAIN w.known THEN Answer(w, w.known[key])
     ELSE IF key \in w.walking THEN Answer(w, "Cycle")
     ELSE [done EXCEPT !.walking = @ \ {key}, !.known = @ @@ (key :> done.answer)]

\* walk_relation: named itself, or as a member of what the relation names.
WalkRelation(q, w, object, relation, depth) ==
  LET kind == FindMember(q, object, relation)
      read == ReadSubjects(q, w, object, relation)
      named == Admitted(kind, read.tuples, object, relation)
      inner == {s \in named : s.member # None}
  IN IF read.tuples = None THEN read.walk
     ELSE IF [object |-> q.question.subject, member |-> None] \in named
     THEN Answer(read.walk, "Found")
     ELSE WalkUnion(q, read.walk, object,
                    [i \in 1..Cardinality(inner) |->
                       At(SetToSeq(inner)[i].object, SetToSeq(inner)[i].member)],
                    depth, "NotFound")

\* walk_rule, and the walk of one member it leads to.
WalkRule(q, w, object, rule, depth) ==
  CASE rule.rule = "at" -> WalkMember(q, w, rule.object, rule.member, depth + 1)
    [] rule.rule = "computed" -> WalkMember(q, w, object, rule.member, depth + 1)
    [] rule.rule = "arrow" ->
         LET kind == FindMember(q, object, rule.relation)
             read == ReadSubjects(q, w, object, rule.relation)
             named == SetToSeq({s.object : s \in
                        {n \in Admitted(kind, read.tuples, object, rule.relation) : n.member = None}})
         IN IF ~IsRelation(kind) THEN Answer(w, "NotFound")
            ELSE IF read.tuples = None THEN read.walk
            ELSE WalkUnion(q, read.walk, object,
                           [i \in DOMAIN named |-> At(named[i], rule.member)], depth, "NotFound")
    [] rule.rule = "union" -> WalkUnion(q, w, object, rule.rules, depth, "NotFound")
    [] rule.rule = "intersection" ->
         IF rule.rules = <<>> THEN Answer(w, "NotFound")
         ELSE WalkIntersection(q, w, object, rule.rules, depth, "Found")

\* An inner rule is walked one deeper; the member an arrow or a relation leads
\* to is one deeper than the rule itself.
InnerDepth(rule, depth) == IF rule.rule = "at" THEN depth ELSE depth + 1

\* fold_union: one found is enough, and what could not be told is kept.
WalkUnion(q, w, object, rules, depth, sofar) ==
  IF rules = <<>> THEN Answer(w, sofar)
  ELSE LET one == WalkRule(q, w, object, Head(rules), InnerDepth(Head(rules), depth))
       IN IF one.answer = "Found" THEN one
          ELSE WalkUnion(q, one, object, Tail(rules), depth,
                         IF one.answer = "NotFound" THEN sofar ELSE one.answer)

\* Every one must be found; one that is not is enough to refuse.
WalkIntersection(q, w, object, rules, depth, sofar) ==
  IF rules = <<>> THEN Answer(w, sofar)
  ELSE LET one == WalkRule(q, w, object, Head(rules), InnerDepth(Head(rules), depth))
       IN IF one.answer = "NotFound" THEN one
          ELSE WalkIntersection(q, one, object, Tail(rules), depth,
                                IF one.answer = "Found" THEN sofar ELSE one.answer)

\* walk_relations
WalkRelations(q) == WalkMember(q, Start, q.question.object, q.question.member, 0)

\* decide_by_relations: what the client is answered.
Decision(q, walk) ==
  CASE FindMember(q, q.question.object, q.question.member) = None -> "deny"
    [] walk.answer = "Found" -> "permit"
    [] OTHER -> "deny"

Ask == walked = None /\ walked' = WalkRelations(asked) /\ UNCHANGED asked

Next == Ask

Spec == Init /\ [][Next]_vars

-----------------------------------------------------------------------------
(* What the relations mean: the least set of members of objects that the   *)
(* subject stands in, whatever the order they are found in.                *)

RECURSIVE RuleHolds(_, _, _, _, _)
RuleHolds(q, tuples, found, object, rule) ==
  CASE rule.rule = "computed" -> <<object, rule.member>> \in found
    [] rule.rule = "arrow" ->
         LET kind == FindMember(q, object, rule.relation) IN
           /\ IsRelation(kind)
           /\ \E t \in tuples :
                /\ t.object = object /\ t.relation = rule.relation /\ t.subject.member = None
                /\ [type |-> t.subject.object.type, member |-> None] \in kind.allowed
                /\ <<t.subject.object, rule.member>> \in found
    [] rule.rule = "union" ->
         \E i \in DOMAIN rule.rules : RuleHolds(q, tuples, found, object, rule.rules[i])
    [] rule.rule = "intersection" ->
         /\ rule.rules # <<>>
         /\ \A i \in DOMAIN rule.rules : RuleHolds(q, tuples, found, object, rule.rules[i])

Stands(q, tuples, found, object, member) ==
  LET kind == FindMember(q, object, member) IN
    /\ kind # None
    /\ IF IsRelation(kind)
       THEN \E t \in tuples :
              /\ t.object = object /\ t.relation = member
              /\ [type |-> t.subject.object.type, member |-> t.subject.member] \in kind.allowed
              /\ IF t.subject.member = None THEN t.subject.object = q.question.subject
                 ELSE <<t.subject.object, t.subject.member>> \in found
       ELSE RuleHolds(q, tuples, found, object, kind.body)

RECURSIVE Closure(_, _, _)
Closure(q, tuples, found) ==
  LET more == {k \in Objects \X Members : Stands(q, tuples, found, k[1], k[2])}
  IN IF more = found THEN found ELSE Closure(q, tuples, more)

Holds(q, tuples) == <<q.question.object, q.question.member>> \in Closure(q, tuples, {})

\* The members the body of a member leads to, and how many times.
RECURSIVE Leads(_, _, _, _)
Leads(q, tuples, object, rule) ==
  CASE rule.rule = "computed" -> <<<<object, rule.member>>>>
    [] rule.rule = "arrow" ->
         [i \in 1..Cardinality({t \in tuples : t.object = object /\ t.relation = rule.relation}) |->
            <<SetToSeq({t \in tuples : t.object = object /\ t.relation = rule.relation})[i].subject.object,
              rule.member>>]
    [] OTHER -> FlattenSeq([i \in DOMAIN rule.rules |-> Leads(q, tuples, object, rule.rules[i])])

LeadsFrom(q, tuples, key) ==
  LET kind == FindMember(q, key[1], key[2])
      named == SetToSeq({t \in tuples : t.object = key[1] /\ t.relation = key[2]
                                        /\ t.subject.member # None})
  IN IF kind = None THEN <<>>
     ELSE IF IsRelation(kind)
     THEN [i \in DOMAIN named |-> <<named[i].subject.object, named[i].subject.member>>]
     ELSE Leads(q, tuples, key[1], kind.body)

RECURSIVE Reached(_, _, _)
Reached(q, tuples, keys) ==
  LET more == keys \cup UNION {ToSet(LeadsFrom(q, tuples, k)) : k \in keys}
  IN IF more = keys THEN keys ELSE Reached(q, tuples, more)

HasLoop(q, tuples) ==
  \E k \in Objects \X Members : k \in Reached(q, tuples, ToSet(LeadsFrom(q, tuples, k)))

-----------------------------------------------------------------------------
(* Properties.                                                             *)

Either == asked.before \cup asked.after
Both == asked.before \cap asked.after

\* A permit rests on relations that were kept during the walk: the subject
\* stands in the member by relations of which each was there before or after
\* the change, none that the schema refuses.
PermitWasKept ==
  walked # None /\ Decision(asked, walked) = "permit" => Holds(asked, Either)

\* A walk that says the subject does not stand says so of relations that stood
\* all along: a bound, a deadline or a loop is never taken for a no.
RefusalIsTrue ==
  walked # None /\ walked.answer = "NotFound" => ~Holds(asked, Both)

\* A walk that tells of a loop met one: no member reached twice by two ways is
\* taken for a loop.  One that tells of too many steps, of too many reads or of
\* no time left really made, read or waited as much; what it tells of depth and
\* of fanout is not judged here.
BoundIsReal ==
  walked # None =>
    /\ walked.answer = "Cycle" => HasLoop(asked, Either)
    /\ walked.answer = "Steps" => walked.steps > MaxSteps
    /\ walked.answer = "Reads" => walked.reads > MaxReads
    /\ walked.answer = "Duration" => walked.ticks > asked.deadline

\* No member is walked twice: the members entered grow with the relations kept,
\* never with the ways that lead to them.
WorkGrowsWithMembers ==
  walked # None =>
    walked.steps <= 1 + MapThenSumSet(LAMBDA k : Len(LeadsFrom(asked, Either, k)),
                                      Reached(asked, Either, {<<asked.question.object, asked.question.member>>}))

\* What a walk answers is true: a permit, a refusal, and a bound it met.
WalkIsTrue == PermitWasKept /\ RefusalIsTrue /\ BoundIsReal
=============================================================================
