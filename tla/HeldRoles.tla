----------------------------- MODULE HeldRoles ------------------------------
(***************************************************************************)
(* Who holds a role, and what a token or an introspection says of it: the  *)
(* grants of roles and the memberships of one person, which stand for a    *)
(* while, and the roles read from them (saffui-core/src/authz/grants.rs    *)
(* and roles.rs, tokens/mint.rs, oidc/token.rs and introspect.rs, store/   *)
(* src/stores/roles.rs).                                                   *)
(*                                                                         *)
(* Instants are finer than the seconds a token is written in, and the      *)
(* clock is read before the statements that use what it said.              *)
(***************************************************************************)
EXTENDS Naturals, FiniteSets, FiniteSetsExt

CONSTANTS Roles, Groups,
          Owner,      \* the client a role is said to, or Realm
          Realm,
          Client,     \* the client the tokens are for
          Admins,     \* calls of the administration plane
          Terms,      \* what they ask of a grant: a start and an end
          Given,      \* the grants and memberships there may be at the start
          Instants,   \* the instants of a second
          Lifetime,   \* of an access token, in seconds
          Readers,    \* who reads the roles: "token", and "introspection" or not
          MaxHeld,    \* the ways of holding a role that are read, at most
          LastInstant

HeldRolesAssumption ==
  /\ Owner \in [Roles -> {Realm, Client} \union {Owner[r] : r \in Roles}]
  /\ "token" \in Readers /\ Readers \subseteq {"token", "introspection"}
  /\ {Instants, Lifetime, MaxHeld} \subseteq Nat \ {0} /\ LastInstant \in Nat

\* An end that is not given comes after every instant.
Never == LastInstant + 1
Second(t) == t \div Instants

VARIABLES now,
          roles, groups, \* the roles and the groups that are
          rows,          \* the grants and memberships kept
          admin,         \* each call of an administrator
          asked,         \* each reader: what it has read
          said           \* what was last said, in a token and in an introspection

vars == <<now, roles, groups, rows, admin, asked, said>>

-----------------------------------------------------------------------------
(* The rows.                                                               *)

GrantKeys == {<<"person", r>> : r \in Roles} \union {<<"member", g>> : g \in Groups}
          \union {<<"role", r, g>> : r \in Roles, g \in Groups}
NoGrant == [from |-> 0, until |-> 0]

\* The roles and the groups a row refers to.
RolesOf(row) == IF row[1] = "member" THEN {} ELSE {row[2]}
GroupsOf(row) == CASE row[1] = "person" -> {} [] row[1] = "member" -> {row[2]} [] OTHER -> {row[3]}
IsThere(row) == RolesOf(row) \subseteq roles /\ GroupsOf(row) \subseteq groups

StandsAt(grant, t) == grant.from <= t /\ t < grant.until

\* One way of holding a role: the rows it rests on, and the first of their ends.
Way(r, rests) ==
  [role |-> r, grants |-> [row \in rests |-> rows[row]], until |-> Min({rows[row].until : row \in rests})]

\* Each way that stands: by a grant, or through a group.
WaysAt(t) ==
  {Way(r, {<<"person", r>>}) : r \in {q \in Roles : StandsAt(rows[<<"person", q>>], t)}}
    \union {Way(p[1], {<<"member", p[2]>>, <<"role", p[1], p[2]>>}) :
              p \in {q \in Roles \X Groups : /\ StandsAt(rows[<<"member", q[2]>>], t)
                                             /\ StandsAt(rows[<<"role", q[1], q[2]>>], t)}}

-----------------------------------------------------------------------------
(* The administration plane.                                               *)

NoCall == [step |-> "idle", row |-> <<>>, grant |-> NoGrant]
Done(a) == admin' = [admin EXCEPT ![a] = [NoCall EXCEPT !.step = "done"]]
NotAsked == [step |-> "idle", at |-> 0, exp |-> 0, ways |-> {}, held |-> {}]

Init ==
  /\ now = 0 /\ roles = Roles /\ groups = Groups
  /\ rows \in Given
  /\ admin = [a \in Admins |-> NoCall]
  /\ asked = [q \in Readers |-> NotAsked]
  /\ said = [q \in Readers |-> [roles |-> {}, held |-> {}, exp |-> 0, ways |-> {}]]

\* settle_grant: a start in the past is now, and an end comes after the start.
Settle(a, row, terms) ==
  /\ admin[a].step = "idle"
  /\ LET from == Max({terms.from, now})
     IN /\ from < terms.until
        /\ admin' = [admin EXCEPT ![a] = [step |-> "settled", row |-> row,
                                          grant |-> [from |-> from, until |-> terms.until]]]
  /\ UNCHANGED <<now, roles, groups, rows, asked, said>>

\* grant_role, add_member: the role and the holder are looked for.
RequireThere(a) ==
  /\ admin[a].step = "settled"
  /\ IF IsThere(admin[a].row) THEN admin' = [admin EXCEPT ![a].step = "checked"] ELSE Done(a)
  /\ UNCHANGED <<now, roles, groups, rows, asked, said>>

\* One statement keeps the grant, or replaces the one there was; the keys it
\* refers to are checked by the table.
WriteGrant(a) ==
  /\ admin[a].step = "checked"
  /\ Done(a)
  /\ rows' = IF IsThere(admin[a].row) THEN [rows EXCEPT ![admin[a].row] = admin[a].grant] ELSE rows
  /\ UNCHANGED <<now, roles, groups, asked, said>>

\* revoke_role, remove_member.
Revoke(a, row) ==
  /\ admin[a].step = "idle" /\ rows[row] # NoGrant
  /\ rows' = [rows EXCEPT ![row] = NoGrant]
  /\ Done(a)
  /\ UNCHANGED <<now, roles, groups, asked, said>>

\* Its grants go with it.
DeleteRole(a, r) ==
  /\ admin[a].step = "idle" /\ r \in roles
  /\ roles' = roles \ {r}
  /\ rows' = [row \in GrantKeys |-> IF r \in RolesOf(row) THEN NoGrant ELSE rows[row]]
  /\ Done(a)
  /\ UNCHANGED <<now, groups, asked, said>>

DeleteGroup(a, g) ==
  /\ admin[a].step = "idle" /\ g \in groups
  /\ groups' = groups \ {g}
  /\ rows' = [row \in GrantKeys |-> IF g \in GroupsOf(row) THEN NoGrant ELSE rows[row]]
  /\ Done(a)
  /\ UNCHANGED <<now, roles, asked, said>>

\* The unit of work fails, and nothing is kept.
Fail(a) ==
  /\ admin[a].step \in {"settled", "checked"}
  /\ Done(a)
  /\ UNCHANGED <<now, roles, groups, rows, asked, said>>

-----------------------------------------------------------------------------
(* What is said.                                                           *)

\* The roles of another client are not said.
Said(ways) == {w \in ways : Owner[w.role] \in {Realm, Client}}
RolesIn(ways) == {w.role : w \in Said(ways)}

\* A role held two ways lasts as long as the longer; what says several lasts
\* as long as the first of them.
FirstEnd(ways) ==
  Min({Never} \union {Max({w.until : w \in {v \in Said(ways) : v.role = r}}) : r \in RolesIn(ways)})

\* The clock is read, for an introspection before the token is verified.
ReadClock(q) ==
  /\ asked[q].step = "idle"
  /\ asked' = [asked EXCEPT ![q].step = "clock", ![q].at = now]
  /\ UNCHANGED <<now, roles, groups, rows, admin, said>>

\* A token that expired says nothing; of one that stands the claims are kept.
Verify ==
  /\ "introspection" \in Readers /\ asked["introspection"].step = "clock"
  /\ asked' = [asked EXCEPT !["introspection"] =
                 IF Second(now) < said["token"].exp
                 THEN [@ EXCEPT !.step = "verified", !.exp = said["token"].exp]
                 ELSE NotAsked]
  /\ UNCHANGED <<now, roles, groups, rows, admin, said>>

\* One statement, cut one way past what is admitted: past it, whichever ways
\* were read, the person holds too many and nothing is said.
ListHeldRoles(q) ==
  /\ asked[q].step = (IF q = "token" THEN "clock" ELSE "verified")
  /\ LET there == WaysAt(asked[q].at)
     IN \E read \in SUBSET there :
          /\ Cardinality(read) = Min({Cardinality(there), MaxHeld + 1})
          /\ asked' = [asked EXCEPT ![q] = IF Cardinality(read) > MaxHeld
                                           THEN NotAsked
                                           ELSE [@ EXCEPT !.step = "read", !.ways = read,
                                                          !.held = RolesIn(there)]]
  /\ UNCHANGED <<now, roles, groups, rows, admin, said>>

\* An introspection another client asks for leaves out the roles of the
\* application, and stands as long as if it did not: its asker is not modelled.
Says(q, exp) ==
  /\ said' = [said EXCEPT ![q] = [roles |-> RolesIn(asked[q].ways), held |-> asked[q].held,
                                  exp |-> exp, ways |-> Said(asked[q].ways)]]
  /\ asked' = [asked EXCEPT ![q] = NotAsked]
  /\ UNCHANGED <<now, roles, groups, rows, admin>>

\* Mutant: the end of a role is written as the second after it.
MintRoundedUp ==
  /\ asked["token"].step = "read"
  /\ LET until == FirstEnd(asked["token"].ways)
         ends == Second(now) + Lifetime
     IN Says("token", IF until = Never THEN ends ELSE Min({Second(until + Instants - 1), ends}))

\* The clock is read again: a token that says a role lives no longer than it.
Mint ==
  /\ asked["token"].step = "read"
  /\ LET until == FirstEnd(asked["token"].ways)
         ends == Second(now) + Lifetime
     IN Says("token", IF until = Never THEN ends ELSE Min({Second(until), ends}))

\* The answer stands no longer than the token, nor than the first of the roles.
Answer ==
  /\ "introspection" \in Readers /\ asked["introspection"].step = "read"
  /\ LET until == FirstEnd(asked["introspection"].ways)
         claimed == asked["introspection"].exp
     IN Says("introspection", IF until = Never THEN claimed ELSE Min({Second(until), claimed}))

Tick ==
  /\ now < LastInstant
  /\ now' = now + 1
  /\ UNCHANGED <<roles, groups, rows, admin, asked, said>>

Next ==
  \/ \E a \in Admins :
       \/ \E row \in GrantKeys : Revoke(a, row) \/ \E terms \in Terms : Settle(a, row, terms)
       \/ \E r \in Roles : DeleteRole(a, r)
       \/ \E g \in Groups : DeleteGroup(a, g)
       \/ RequireThere(a) \/ WriteGrant(a) \/ Fail(a)
  \/ \E q \in Readers : ReadClock(q) \/ ListHeldRoles(q)
  \/ Verify \/ Mint \/ Answer
  \/ Tick

Spec == Init /\ [][Next]_vars

-----------------------------------------------------------------------------
(* Properties.                                                             *)

\* While a token, or the answer to an introspection, stands, every role it says
\* is held still by a way it was read from, unless such a way was changed.
NoRoleOutlived ==
  \A q \in Readers : Second(now) < said[q].exp =>
    \A r \in said[q].roles :
      LET ways == {w \in said[q].ways : w.role = r}
      IN (\A w \in ways : \A row \in DOMAIN w.grants : rows[row] = w.grants[row])
           => \E w \in ways : \A row \in DOMAIN w.grants : StandsAt(w.grants[row], now)

\* What is said is all that was held when it was read: a person of too many
\* ways is refused, and never told a part.
SaidInFull == \A q \in Readers : said[q].roles = said[q].held

\* No grant is kept of a role or a group that is gone.
GrantsNameWhatIs == \A row \in GrantKeys : rows[row] # NoGrant => IsThere(row)

\* What is said of the roles of a person is theirs, all of it, while it is said.
RolesAreSaid == NoRoleOutlived /\ SaidInFull /\ GrantsNameWhatIs
=============================================================================
