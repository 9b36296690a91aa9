--------------------------- MODULE MCDefinitions ----------------------------
(***************************************************************************)
(* Small instances of what an administrator writes and of what is said of  *)
(* it: relations under a schema that is replaced, policies under a schema  *)
(* that takes their type, and the roles a person holds.  A behaviour is    *)
(* one of these; the variables of the others stay still.                   *)
(***************************************************************************)
EXTENDS Definitions, TLC

CONSTANTS r1, r2, r3, r4, web, app, t1, t2, approver, na, nb, nc, nd, ne,
          g1, a1, a2, a3

VARIABLES part,
          now, roles, groups, rows, admin, asked, said

held == <<now, roles, groups, rows, admin, asked, said>>

-----------------------------------------------------------------------------
(* Writers and removers of relations while the schema is replaced twice.   *)

Schema(types, kinds, readable) == [types |-> types, kinds |-> kinds, readable |-> readable]
Narrow == Schema({"doc"}, {"doc#reader@user"}, TRUE)
Wide == Schema({"doc", "team"}, {"doc#reader@user", "doc#reader@team#member"}, TRUE)
Other == Schema({"team"}, {"team#member@user"}, TRUE)
Unread == Schema({"doc"}, {"doc#reader@user"}, FALSE)

MCKind == (t1 :> "doc#reader@user") @@ (t2 :> "doc#reader@team#member")

Relating ==
  [schemas |-> {Narrow, Wide}, first |-> {None, Narrow, Wide, Unread}, relations |-> {t1, t2},
   calls |-> (r1 :> {"schema"}) @@ (r2 :> {"schema", "relate"}) @@ (r3 :> {"relate"})
             @@ (r4 :> {"unrelate"})]

-----------------------------------------------------------------------------
(* Policies for a type a schema is about to define, and a role about to    *)
(* go, or just created by a request.                                       *)

Policy(c, n, t, a, role) == [client |-> c, name |-> n, type |-> t, action |-> a, role |-> role]
MCPolicies == {Policy(web, na, "doc", "read", approver), Policy(app, nb, "team", "read", r1),
               Policy(web, nc, "team", "read", approver), Policy(web, nd, "team", "read", approver),
               Policy(web, ne, "doc", "edit", approver)}

Guarding ==
  [schemas |-> {Other}, first |-> {None, Narrow}, relations |-> {},
   last |-> {p \in MCPolicies : p.name \in {nc, ne}},   \* what r4 writes: the third of web
   calls |-> (r1 :> {"policy", "role"}) @@ (r2 :> {"policy", "unpolicy"})
             @@ (r3 :> {"schema", "unrole"}) @@ (r4 :> {"policy"})]

-----------------------------------------------------------------------------
(* The constants of Definitions, and what of them each of the two uses.    *)

MCRows == {"definitions", "schema", approver} \cup Relations \cup Names \cup Requests
MCSchemas == Relating.schemas \cup Guarding.schemas
MCFirst == Relating.first \cup Guarding.first
MCOperations == [r \in Requests |-> Relating.calls[r] \cup Guarding.calls[r]]

Defining == {"relating", "guarding"}
Uses == IF part = "relating" THEN Relating ELSE Guarding

Within ==
  part \in Defining =>
    \A r \in Requests :
      /\ mine[r].op \in Uses.calls[r] \cup {"none"}
      /\ mine[r].op = "schema" => mine[r].ask \in Uses.schemas \cup {None}
      /\ r = r4 /\ mine[r].op = "policy" => mine[r].ask \in Uses.last \cup {None}
      /\ com[r] # None => "role" \in Uses.calls[r]

-----------------------------------------------------------------------------
(* A role of the realm and one of the client, held by the person or        *)
(* through a group.  A grant ends at a whole second, between two, or never.*)

Grant(from, until) == [from |-> from, until |-> until]
NoGrant == Grant(0, 0)
GrantRows(some) == {<<"person", r>> : r \in some} \union {<<"role", r, g1>> : r \in some}
                     \union {<<"member", g1>>}

Given ==
  {given \in [GrantRows({r1, r2}) -> {NoGrant, Grant(0, 2), Grant(0, 3), Grant(0, 4)}] :
     /\ given[<<"person", r2>>].until \in {0, 2}
     /\ given[<<"role", r2, g1>>].until \in {0, 4}
     /\ given[<<"member", g1>>].until \in {0, 3}}

Held == INSTANCE HeldRoles
  WITH Roles <- {r1, r2}, Groups <- {g1}, Owner <- (r1 :> Realm) @@ (r2 :> app), Client <- app,
       Admins <- {a1}, Given <- Given, Terms <- {Grant(0, 3), Grant(2, 4)},
       Instants <- 2, Lifetime <- 2, Readers <- {"token"}, MaxHeld <- 2, LastInstant <- 3

\* One role, said by tokens and by introspections of them.
Introspected == INSTANCE HeldRoles
  WITH Roles <- {r1}, Groups <- {g1}, Owner <- (r1 :> Realm), Client <- app,
       Admins <- {a1},
       Given <- {given \in [GrantRows({r1}) -> {NoGrant, Grant(0, 3), Grant(0, 4)}] :
                   given[<<"person", r1>>].until \in {0, 3} /\ given[<<"member", g1>>].until \in {0, 3}},
       Terms <- {Grant(0, 3), Grant(2, 4)},
       Instants <- 2, Lifetime <- 2, Readers <- {"token", "introspection"}, MaxHeld <- 2,
       LastInstant <- 3

\* Three calls give what two of them remove, and one role is all a person may
\* hold.
Removed == INSTANCE HeldRoles
  WITH Roles <- {r1, r2}, Groups <- {g1}, Owner <- (r1 :> Realm) @@ (r2 :> app), Client <- app,
       Admins <- {a1, a2, a3}, Given <- {[row \in GrantRows({r1, r2}) |-> NoGrant]},
       Terms <- {Grant(0, 2)},
       Instants <- 2, Lifetime <- 2, Readers <- {"token"}, MaxHeld <- 1, LastInstant <- 1

ASSUME HeldAssumption ==
  /\ Held!HeldRolesAssumption
  /\ Introspected!HeldRolesAssumption
  /\ Removed!HeldRolesAssumption

-----------------------------------------------------------------------------
(* While roles are held, nothing is defined; while definitions are written, *)
(* no role is read.                                                        *)

NoDefs == Init /\ com["schema"] = None /\ \A t \in Relations : com[t] = None
NoRoles ==
  /\ now = None /\ roles = None /\ groups = None /\ rows = None
  /\ admin = None /\ asked = None /\ said = None

MCInit ==
  \/ /\ part \in Defining /\ Init /\ NoRoles
     /\ com["schema"] \in Uses.first /\ \A t \in Relations \ Uses.relations : com[t] = None
  \/ part = "held" /\ Held!Init /\ NoDefs
  \/ part = "introspected" /\ Introspected!Init /\ NoDefs
  \/ part = "removed" /\ Removed!Init /\ NoDefs

MCNext ==
  /\ UNCHANGED part
  /\ \/ part \in Defining /\ Next /\ UNCHANGED held
     \/ part = "held" /\ Held!Next /\ UNCHANGED vars
     \/ part = "introspected" /\ Introspected!Next /\ UNCHANGED vars
     \/ part = "removed" /\ Removed!Next /\ UNCHANGED vars

MCSpec == MCInit /\ [][MCNext]_<<part, vars, held>>

-----------------------------------------------------------------------------
(* Properties.                                                             *)

\* HeldRoles!RolesAreSaid: no token, and no answer to an introspection, stands
\* longer than a role it says or says a part of them, and no grant is kept of a
\* role or a group that went.
RolesAreSaid ==
  /\ part = "held" => Held!RolesAreSaid
  /\ part = "introspected" => Introspected!RolesAreSaid
  /\ part = "removed" => Removed!RolesAreSaid
=============================================================================
