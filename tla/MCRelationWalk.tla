--------------------------- MODULE MCRelationWalk ---------------------------
(* Objects, schemas and relations small enough to walk in every way.       *)
CONSTANT NoMember

Obj(t, i) == [type |-> t, id |-> i]
alice == Obj("user", "alice")
d1 == Obj("doc", "1")
d2 == Obj("doc", "2")
team == Obj("team", "t")

Ref(o, m) == [object |-> o, member |-> m]
Tuple(o, r, s) == [object |-> o, relation |-> r, subject |-> s]
Rel(allowed) == [kind |-> "relation", allowed |-> allowed]
Perm(body) == [kind |-> "permission", body |-> body]
Computed(m) == [rule |-> "computed", member |-> m]
Arrow(r, m) == [rule |-> "arrow", relation |-> r, member |-> m]
Sum(rules) == [rule |-> "union", rules |-> rules]
Meet(rules) == [rule |-> "intersection", rules |-> rules]
Type(t, m) == [type |-> t, member |-> m]

Team == [member |-> Rel({Type("user", NoMember), Type("team", "member")})]

\* A document is seen by who owns it, itself or by a team, and by who sees the
\* one above it.
Shared == [doc |-> [owner |-> Rel({Type("user", NoMember), Type("team", "member")}),
                    parent |-> Rel({Type("doc", NoMember)}),
                    view |-> Perm(Sum(<<Computed("owner"), Arrow("parent", "view")>>))],
           team |-> Team]

\* A document is seen by who edits it and reads the one above it: two ways lead
\* to the same members, and loops cross permissions.  No team owns a document.
Strict == [doc |-> [owner |-> Rel({Type("user", NoMember)}),
                    parent |-> Rel({Type("doc", NoMember)}),
                    edit |-> Perm(Sum(<<Arrow("parent", "read"), Computed("owner")>>)),
                    read |-> Perm(Sum(<<Arrow("parent", "edit"), Meet(<<>>)>>)),
                    view |-> Perm(Meet(<<Computed("edit"), Arrow("parent", "read"),
                                         Arrow("parent", "edit")>>))],
           team |-> Team]

MCObjects == {alice, d1, d2, team}
MCMembers == {"owner", "parent", "edit", "read", "view", "member"}
BothSchemas == {Shared, Strict}

FewTuples ==
  {Tuple(d1, "owner", Ref(alice, NoMember)), Tuple(d1, "owner", Ref(team, "member")),
   Tuple(d1, "parent", Ref(d2, NoMember)), Tuple(d2, "owner", Ref(alice, NoMember)),
   Tuple(d2, "parent", Ref(d1, NoMember)), Tuple(team, "member", Ref(alice, NoMember))}
MoreTuples ==
  FewTuples \cup {Tuple(team, "member", Ref(team, "member")), Tuple(d2, "owner", Ref(team, "member")),
                   Tuple(d1, "parent", Ref(d1, NoMember)), Tuple(d2, "parent", Ref(d2, NoMember))}

SeesFirst == {[object |-> d1, member |-> "view", subject |-> alice]}
=============================================================================
