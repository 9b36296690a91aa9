---------------------------- MODULE Disclosures ----------------------------
(***************************************************************************)
(* Selective disclosure (crypto/src/sd_jwt).  An issuer conceals claims    *)
(* and signs digests in their place; a holder presents some of the         *)
(* disclosures, and may bind what it presents to a verifier's request;     *)
(* whoever carries the presentation may lose, repeat, reorder or alter     *)
(* what is in it; a verifier puts what it received back in place.          *)
(*                                                                         *)
(* A claim is a tree of objects, arrays and leaves.  A digest is the       *)
(* disclosure it is of, as a hash without collisions makes it.             *)
(***************************************************************************)
EXTENDS Integers, FiniteSets, SequencesExt, TLC

CONSTANTS Issues,      \* what this issuer may be asked: claims, entries, decoys
          Elsewhere,   \* tokens signed by other issuers: payload, disclosures
          Policies,    \* what verifiers ask: binding, nonce, required
          Validity,    \* VALIDITY_CLAIMS
          Reserved,    \* RESERVED_NAMES
          MaxPresented,\* how many disclosures a presentation carries
          MaxBound,    \* how many selections the holder binds
          MaxAge,      \* how old a key binding token may be
          Lifetime,    \* when what is issued expires
          MaxClock     \* bound on the clock

ASSUME DisclosuresAssumption ==
  /\ MaxPresented \in Nat /\ MaxBound \in Nat /\ MaxAge \in Nat /\ Lifetime \in Nat /\ MaxClock \in Nat
  /\ \A p \in Policies : p.binding \in BOOLEAN

VARIABLES asked,    \* what the issuer was asked to conceal
          token,    \* the payload it signed
          handed,   \* the disclosures it handed the holder
          bound,    \* what the holder bound: over, nonce, at
          clock,
          presented,\* what reached the verifier, and the policy it had
          verdict   \* the claims it read, or that it refused

vars == <<asked, token, handed, bound, clock, presented, verdict>>

Leaf(x) == [t |-> "leaf", x |-> x]
Array(s) == [t |-> "array", s |-> s]
Carrier(d) == [t |-> "carrier", d |-> d]
\* f is the members, sd the digests, pad how many digests open nothing.
Object(f, sd, pad) == [t |-> "object", f |-> f, sd |-> sd, pad |-> pad]
Plain(f) == Object(f, <<>>, 0)

\* A disclosure: its salt, its name ("" for an element of an array), its value.
Disclosure(n, name, v) == [salt |-> n, name |-> name, value |-> v]

None == [t |-> "none"]
Refused == [t |-> "refused"]

-----------------------------------------------------------------------------
(* The issuer.  An entry is a path of names and, for an element of the     *)
(* array there, its index; 0 for a property.                               *)

Property(path) == [path |-> path, index |-> 0]
Element(path, i) == [path |-> path, index |-> i]
Depth(e) == IF e.index = 0 THEN Len(e.path) ELSE Len(e.path) + 1

\* Stable: entries of one depth keep their order.
DeepestFirst(entries) ==
  FlattenSeq([k \in 1..4 |-> SelectSeq(entries, LAMBDA e : Depth(e) = 5 - k)])

RECURSIVE ValueAt(_, _)
ValueAt(v, path) ==
  CASE path = <<>> -> v
    [] v.t # "object" -> None
    [] Head(path) \notin DOMAIN v.f -> None
    [] OTHER -> ValueAt(v.f[Head(path)], Tail(path))

RECURSIVE PutAt(_, _, _)
PutAt(v, path, new) ==
  IF path = <<>> THEN new
  ELSE [v EXCEPT !.f[Head(path)] = PutAt(@, Tail(path), new)]

RECURSIVE HasReservedName(_)
HasReservedName(v) ==
  CASE v.t = "object" ->
         \/ DOMAIN v.f \cap Reserved # {}
         \/ \E n \in DOMAIN v.f : HasReservedName(v.f[n])
    [] v.t = "array" -> \E i \in DOMAIN v.s : HasReservedName(v.s[i])
    [] OTHER -> FALSE

\* Pads every object of v that carries digests.
RECURSIVE SealDigests(_, _)
SealDigests(v, decoys) ==
  CASE v.t = "object" ->
         Object([n \in DOMAIN v.f |-> SealDigests(v.f[n], decoys)], v.sd,
                IF v.sd = <<>> THEN v.pad ELSE v.pad + decoys)
    [] v.t = "array" -> Array([i \in DOMAIN v.s |-> SealDigests(v.s[i], decoys)])
    [] OTHER -> v

Failed == [payload |-> None, out |-> <<>>]

ConcealProperty(state, e, decoys) ==
  LET parents == Front(e.path)
      name == Last(e.path)
      parent == ValueAt(state.payload, parents)
  IN IF \/ e.path = <<>>
        \/ parents = <<>> /\ name \in Validity
        \/ parent.t # "object"
     THEN Failed
     ELSE IF name \notin DOMAIN parent.f THEN Failed
     ELSE LET d == Disclosure(Len(state.out) + 1, name, SealDigests(parent.f[name], decoys))
              rest == [n \in DOMAIN parent.f \ {name} |-> parent.f[n]]
          IN [payload |-> PutAt(state.payload, parents,
                                Object(rest, Append(parent.sd, d), parent.pad)),
              out |-> Append(state.out, d)]

\* Mutant: the carrier of a digest is put at the end of the array.
ConcealElementLast(state, e, decoys) ==
  LET array == ValueAt(state.payload, e.path)
  IN IF array.t # "array" THEN Failed
     ELSE IF e.index \notin DOMAIN array.s THEN Failed
     ELSE IF array.s[e.index].t = "carrier" THEN Failed
     ELSE LET d == Disclosure(Len(state.out) + 1, "", SealDigests(array.s[e.index], decoys))
          IN [payload |-> PutAt(state.payload, e.path,
                                Array(Append(RemoveAt(array.s, e.index), Carrier(d)))),
              out |-> Append(state.out, d)]

ConcealElement(state, e, decoys) ==
  LET array == ValueAt(state.payload, e.path)
  IN IF array.t # "array" THEN Failed
     ELSE IF e.index \notin DOMAIN array.s THEN Failed
     ELSE IF array.s[e.index].t = "carrier" THEN Failed
     ELSE LET d == Disclosure(Len(state.out) + 1, "", SealDigests(array.s[e.index], decoys))
          IN [payload |-> PutAt(state.payload, e.path,
                                Array([array.s EXCEPT ![e.index] = Carrier(d)])),
              out |-> Append(state.out, d)]

Conceal(state, e, decoys) ==
  CASE state.payload = None -> Failed
    [] e.index = 0 -> ConcealProperty(state, e, decoys)
    [] OTHER -> ConcealElement(state, e, decoys)

\* The payload to sign, and the disclosures; or Failed.
ConcealClaims(claims, entries, decoys) ==
  IF HasReservedName(claims) THEN Failed
  ELSE LET done == FoldLeft(LAMBDA state, e : Conceal(state, e, decoys),
                            [payload |-> claims, out |-> <<>>], DeepestFirst(entries))
       IN IF done.payload = None THEN Failed
          ELSE [done EXCEPT !.payload = SealDigests(@, decoys)]

-----------------------------------------------------------------------------
(* The verifier.  D is the set of disclosures presented.                   *)

\* The digests met, in order, as what is presented of v is unfolded.
RECURSIVE Noted(_, _)
Noted(D, v) ==
  LET NotedAt(d) == <<d>> \o (IF d \in D THEN Noted(D, d.value) ELSE <<>>)
  IN CASE v.t = "object" ->
            LET names == SetToSeq(DOMAIN v.f)
            IN FlattenSeq([i \in DOMAIN names |-> Noted(D, v.f[names[i]])])
                 \o FlattenSeq([i \in DOMAIN v.sd |-> NotedAt(v.sd[i])])
       [] v.t = "array" -> FlattenSeq([i \in DOMAIN v.s |-> Noted(D, v.s[i])])
       [] v.t = "carrier" -> NotedAt(v.d)
       [] OTHER -> <<>>

\* What is disclosed in v itself is what may stand there: a property with a
\* name of its own in an object, an element in an array.
Fits(D, v) ==
  \/ /\ v.t = "object"
     /\ \A i \in DOMAIN v.sd : v.sd[i] \in D =>
          /\ v.sd[i].name \notin Reserved \cup {""} \cup DOMAIN v.f
          /\ \A j \in 1..i - 1 : v.sd[j] \in D => v.sd[j].name # v.sd[i].name
  \/ v.t = "array" /\ \A i \in DOMAIN v.s : v.s[i].t = "carrier" /\ v.s[i].d \in D => v.s[i].d.name = ""

RECURSIVE FitsWhole(_, _)
FitsWhole(D, v) ==
  CASE v.t = "object" ->
         /\ DOMAIN v.f \cap Reserved = {}
         /\ Fits(D, v)
         /\ \A n \in DOMAIN v.f : FitsWhole(D, v.f[n])
         /\ \A i \in DOMAIN v.sd : v.sd[i] \in D => FitsWhole(D, v.sd[i].value)
    [] v.t = "array" ->
         /\ Fits(D, v)
         /\ \A i \in DOMAIN v.s :
              IF v.s[i].t = "carrier"
              THEN v.s[i].d \in D => FitsWhole(D, v.s[i].d.value)
              ELSE FitsWhole(D, v.s[i])
    [] OTHER -> v.t # "carrier"

\* What is disclosed put back in place.  A withheld element leaves its array.
RECURSIVE Unfold(_, _)
Unfold(D, v) ==
  CASE v.t = "object" ->
         LET open == ToSet(v.sd) \cap D
             named(n) == CHOOSE d \in open : d.name = n
             names == {d.name : d \in open} \ DOMAIN v.f
         IN Plain([n \in DOMAIN v.f |-> Unfold(D, v.f[n])] @@ [n \in names |-> Unfold(D, named(n).value)])
    [] v.t = "array" ->
         LET kept == SelectSeq(v.s, LAMBDA x : x.t = "carrier" => x.d \in D)
         IN Array([i \in DOMAIN kept |-> Unfold(D, IF kept[i].t = "carrier" THEN kept[i].d.value ELSE kept[i])])
    [] OTHER -> v

\* The holder key the issuer named, cnf.jwk.
HolderKey(claims) ==
  LET cnf == IF "cnf" \in DOMAIN claims.f THEN claims.f["cnf"] ELSE None
  IN IF cnf.t = "object" /\ "jwk" \in DOMAIN cnf.f THEN cnf.f["jwk"] ELSE None

\* check_key_binding: by the holder key, of this request, fresh, and over
\* exactly what was presented.
BindingAnswers(p) ==
  /\ p.key # None /\ p.key.by = HolderKey(Unfold(ToSet(p.shown), token))
  /\ p.key.nonce = p.policy.nonce /\ clock - p.key.at <= MaxAge
  /\ p.key.over = p.shown

\* No disclosure twice, no digest twice, no disclosure without its digest.
PresentedOnce(p) ==
  LET noted == Noted(ToSet(p.shown), token)
  IN /\ IsInjective(p.shown) /\ IsInjective(noted)
     /\ ToSet(p.shown) \subseteq ToSet(noted)

\* check_validity: the claims asked for are there, and the token has not expired.
IsValid(claims, policy) == policy.required \subseteq DOMAIN claims.f /\ clock < Lifetime

\* verify_presentation: what the verifier reads, or Refused.
VerifyPresentation(p) ==
  LET D == ToSet(p.shown)
      claims == Unfold(D, token)
  IN IF /\ p.policy.binding = (p.key # None)
        /\ PresentedOnce(p)
        /\ FitsWhole(D, token)
        /\ IsValid(claims, p.policy)
        /\ p.policy.binding => BindingAnswers(p)
     THEN claims ELSE Refused

-----------------------------------------------------------------------------
(* Who does what.                                                          *)

NotAsked == [claims |-> None, entries |-> <<>>, decoys |-> 0]

Init ==
  /\ asked = NotAsked /\ token = None /\ handed = <<>>
  /\ bound = {} /\ clock = 0
  /\ presented = None /\ verdict = None

\* The issuer conceals what it is asked to, and signs; or refuses to.
Issue(i) ==
  /\ LET done == ConcealClaims(i.claims, i.entries, i.decoys)
     IN token' = done.payload /\ handed' = done.out
  /\ asked' = i
  /\ UNCHANGED <<bound, clock, presented, verdict>>

\* Another issuer signed a token of its own making.
IssueElsewhere(i) ==
  /\ token' = i.payload /\ handed' = i.disclosures
  /\ UNCHANGED <<asked, bound, clock, presented, verdict>>

\* What the holder selects of what it was handed, in that order.
Selections == {SelectSeq(handed, LAMBDA d : d \in keep) : keep \in SUBSET ToSet(handed)}

\* select_disclosures, bind_presentation: the holder binds a selection to a
\* verifier's request.  The key is the one the issuer named it by.
Bind(shown, policy, key) ==
  /\ Cardinality(bound) < MaxBound
  /\ bound' = bound \cup {[t |-> "key", over |-> shown, nonce |-> policy.nonce, at |-> clock, by |-> key]}
  /\ UNCHANGED <<asked, token, handed, clock, presented, verdict>>

Tick ==
  /\ clock < MaxClock
  /\ clock' = clock + 1
  /\ UNCHANGED <<asked, token, handed, bound, presented, verdict>>

\* Disclosures that are not the issuer's: one of them altered on the way.
Altered == {[d EXCEPT !.value = Leaf("altered")] : d \in ToSet(handed)}

\* What reaches the verifier: disclosures in any order, any number of times,
\* one of them altered, with a key binding token the holder made, or none.
Verify(shown, key, policy) ==
  /\ presented' = [t |-> "presented", shown |-> shown, key |-> key, policy |-> policy]
  /\ verdict' = VerifyPresentation(presented')
  /\ UNCHANGED <<asked, token, handed, bound, clock>>

\* A token is issued once, and presented once.
Next ==
  \/ /\ asked = NotAsked /\ token = None
     /\ \/ \E i \in Issues : Issue(i)
        \/ \E i \in Elsewhere : IssueElsewhere(i)
  \/ /\ token # None /\ presented = None
     /\ \/ \E shown \in Selections, policy \in Policies :
             policy.binding /\ Bind(shown, policy, Leaf("holder key"))
        \/ Tick
        \/ \E shown \in BoundedSeq(ToSet(handed) \cup Altered, MaxPresented),
              key \in bound \cup {None}, policy \in Policies : Verify(shown, key, policy)

Spec == Init /\ [][Next]_vars

-----------------------------------------------------------------------------
(* Properties.                                                             *)

Accepted == verdict \notin {None, Refused}

\* The claims of an issuer less the entries withheld, read off the claims it
\* was given: nothing of how they were concealed is used.
RECURSIVE Less(_, _, _)
Less(v, path, withheld) ==
  CASE v.t = "object" ->
         LET names == {n \in DOMAIN v.f : Property(Append(path, n)) \notin withheld}
         IN Plain([n \in names |-> Less(v.f[n], Append(path, n), withheld)])
    [] v.t = "array" ->
         LET kept == SelectSeq([i \in DOMAIN v.s |-> i], LAMBDA i : Element(path, i) \notin withheld)
         IN Array([i \in DOMAIN kept |-> v.s[kept[i]]])
    [] OTHER -> v

Entries == ToSet(asked.entries)

IsWithin(inner, outer) ==
  /\ inner # outer /\ outer.index = 0
  /\ IsPrefix(outer.path, inner.path)

\* The disclosure of an entry: names, and the leaves of arrays, are given once.
Opens(d, e) ==
  IF e.index = 0 THEN d.name = Last(e.path)
  ELSE d.name = "" /\ d.value = ValueAt(asked.claims, e.path).s[e.index]

Withheld == {e \in Entries : ~\E d \in ToSet(presented.shown) : Opens(d, e)}

\* No entry that is shown stands in one that is withheld.
IsClosed == \A e \in Entries \ Withheld, o \in Withheld : ~IsWithin(e, o)

\* Whatever is concealed, in objects in objects or in arrays, whatever is
\* presented of it and in whatever order: the verifier reads the claims the
\* issuer was given, less what is withheld, and none that is not there; a
\* disclosure whose parent is withheld is refused.
OpensAsIssued ==
  Accepted /\ asked # NotAsked =>
    /\ verdict = Less(asked.claims, <<>>, Withheld)
    /\ ToSet(presented.shown) \subseteq ToSet(handed)
    /\ IsClosed

\* What may be concealed is, whatever the order it is asked in; and a holder
\* who presents each thing once with what it stands in, in time and bound as
\* asked, is not refused.
HonestIsServed ==
  asked # NotAsked =>
    LET top == Less(asked.claims, <<>>, Withheld)
        key == presented.key
    IN IF token = None
       THEN \/ HasReservedName(asked.claims)
            \/ Cardinality(Entries) < Len(asked.entries)
            \/ \E e \in Entries :
                 \/ e.index = 0 /\ Len(e.path) = 1 /\ e.path[1] \in Validity
                 \/ ValueAt(asked.claims, e.path) = None
                 \/ e.index > 0 /\ e.index \notin DOMAIN ValueAt(asked.claims, e.path).s
       ELSE presented = None
            \/ (/\ IsInjective(presented.shown) /\ ToSet(presented.shown) \subseteq ToSet(handed)
                /\ IsClosed
                /\ presented.policy.required \subseteq DOMAIN top.f
                /\ clock < Lifetime
                /\ IF presented.policy.binding
                   THEN /\ key # None /\ HolderKey(top) # None
                        /\ key.over = presented.shown /\ key.nonce = presented.policy.nonce
                        /\ clock <= key.at + MaxAge
                   ELSE key = None
                => Accepted)

\* A verifier that requires key binding reads only what the holder bound, all
\* of it and in the order it bound it, to that request and not long before: a
\* binding of other disclosures, or of another request, does not serve.
BoundIsPresented ==
  Accepted =>
    IF presented.policy.binding
    THEN \E b \in bound : b.over = presented.shown /\ b.nonce = presented.policy.nonce /\ clock - b.at <= MaxAge
    ELSE presented.key = None

RECURSIVE Leaves(_)
Leaves(v) ==
  CASE v.t = "object" ->
         LET names == SetToSeq(DOMAIN v.f)
         IN FlattenSeq([i \in DOMAIN names |-> Leaves(v.f[names[i]])])
    [] v.t = "array" -> FlattenSeq([i \in DOMAIN v.s |-> Leaves(v.s[i])])
    [] v.t = "leaf" -> <<v.x>>
    [] OTHER -> <<>>

\* Of any issuer's token, one that repeats a digest or names a claim twice
\* included: what is read holds each plain claim, and each claim disclosed,
\* once, and nothing takes the place of another.
DisclosedOnce ==
  Accepted =>
    /\ IsInjective(Leaves(verdict))
    /\ \A v \in {token} \cup {d.value : d \in ToSet(presented.shown)} :
         ToSet(Leaves(v)) \subseteq ToSet(Leaves(verdict))

\* The verifier reads what was issued, once, as it was bound for it, and does
\* not refuse who did everything right.
DisclosedAsIssued == OpensAsIssued /\ DisclosedOnce /\ BoundIsPresented /\ HonestIsServed
=============================================================================
