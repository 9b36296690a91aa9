--------------------------- MODULE MCDisclosures ---------------------------
(* Claims with an object, an array and the key of a holder, and what may   *)
(* be presented of them.                                                   *)
EXTENDS Disclosures

MCValidity == {"iss", "cnf"}
MCReserved == {"_sd", "...", "_sd_alg"}

MCClaims ==
  Plain(("iss" :> Leaf("issuer")) @@ ("cnf" :> Plain("jwk" :> Leaf("holder key")))
        @@ ("address" :> Plain(("street" :> Leaf("a street")) @@ ("city" :> Leaf("a city"))))
        @@ ("langs" :> Array(<<Leaf("one"), Leaf("two")>>)))

MCEntries ==
  {Property(<<"iss">>), Property(<<"cnf", "jwk">>), Property(<<"address">>),
   Property(<<"address", "street">>), Property(<<"address", "city">>),
   Property(<<"langs">>), Property(<<"missing">>), Element(<<"langs">>, 1), Element(<<"langs">>, 3)}

\* Every list of up to three entries, repeated ones too; and claims that use a
\* name of the format.
MCIssues ==
  {[claims |-> MCClaims, entries |-> s, decoys |-> 2] : s \in BoundedSeq(MCEntries, 3)}
    \cup {[claims |-> Plain("x" :> Plain("_sd" :> Leaf("mine"))), entries |-> <<>>, decoys |-> 0]}

\* An element, and a property within another; and the key of the holder.
FewIssues ==
  {[claims |-> MCClaims, decoys |-> 0,
    entries |-> <<Property(<<"address">>), Property(<<"address", "street">>), Element(<<"langs">>, 1)>>],
   [claims |-> MCClaims, decoys |-> 0, entries |-> <<Property(<<"cnf", "jwk">>)>>]}

OpenPolicies == {[binding |-> FALSE, nonce |-> "none", required |-> {}],
                 [binding |-> FALSE, nonce |-> "none", required |-> {"address"}]}
BoundPolicies == {[binding |-> TRUE, nonce |-> "first", required |-> {}],
                  [binding |-> TRUE, nonce |-> "second", required |-> {}],
                  [binding |-> FALSE, nonce |-> "none", required |-> {}]}

\* Tokens of other issuers: a digest in two places, twice in one, or again
\* inside a disclosure; a name that is there, or is disclosed twice; a property
\* in an array, an element in an object; a name of the format; a carrier where
\* none may stand.
Da == Disclosure(1, "a", Leaf("a"))
Da2 == Disclosure(2, "a", Leaf("a again"))
De == Disclosure(3, "", Leaf("element"))
Dn == Disclosure(4, "n", Object("m" :> Leaf("m"), <<Da>>, 0))
Dr == Disclosure(5, "_sd", Leaf("r"))
Dc == Disclosure(6, "", Carrier(De))
Top(f, sd) == Object(f, sd, 0)
With(payload, ds) == [payload |-> payload, disclosures |-> ds]
MCElsewhere ==
  {With(Top("x" :> Top("y" :> Leaf("y"), <<Da>>), <<Da>>), <<Da>>),
   With(Top("x" :> Leaf("x"), <<Da, Da>>), <<Da>>),
   With(Top("x" :> Leaf("x"), <<Da, Dn>>), <<Da, Dn>>),
   With(Top("a" :> Leaf("plain"), <<Da>>), <<Da>>),
   With(Top("x" :> Leaf("x"), <<Da, Da2>>), <<Da, Da2>>),
   With(Top("x" :> Array(<<Carrier(Da), Carrier(De)>>), <<>>), <<Da, De>>),
   With(Top("x" :> Array(<<Carrier(Dc)>>), <<>>), <<Dc, De>>),
   With(Top("x" :> Leaf("x"), <<De>>), <<De>>),
   With(Top("x" :> Leaf("x"), <<Dr, Dn>>), <<Da, Dn, Dr>>),
   With(Top("x" :> Carrier(De), <<>>), <<De>>)}
=============================================================================
