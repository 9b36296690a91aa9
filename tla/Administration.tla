--------------------------- MODULE Administration ---------------------------
(***************************************************************************)
(* How realms and their clients come to be, and who may act on them: the   *)
(* provisioning of a realm with its keys and first client, the tokens a    *)
(* client asks for as itself, the guard of the administration plane and    *)
(* the clients created behind it (saffui-core/src/tenancy/realm.rs and     *)
(* resolve.rs, keys/generate.rs and jwks.rs, clients/register.rs and       *)
(* manage.rs, oidc/token.rs, tokens/verify.rs, authz/admin.rs).            *)
(*                                                                         *)
(* A unit of work publishes what it wrote when it commits.  The names of   *)
(* realms and the identifiers of clients are unique: an insert of one that *)
(* another work has inserted waits for that work to end.                   *)
(***************************************************************************)
EXTENDS Naturals, Sequences, FiniteSets

CONSTANTS Calls,        \* the calls, each answered once
          Founded,      \* the realms there are at the start
          NameOf,       \* their names
          Names,        \* the names of realms that are asked for
          Ids,          \* the identifiers of clients
          Root,         \* the one of the client a realm is founded with
          Capabilities, \* of the administration plane
          Scopes,       \* that a client may be allowed
          Wanted,       \* the clients that are asked for
          Roots,        \* the capabilities an operator founds a realm with
          Asks,         \* what is asked: "realm", "token", "call", "client"
          Hands,        \* what an operator changes: "realm", "client", "capability"
          None

ASSUME AdministrationAssumption ==
  /\ Founded \intersect Calls = {} /\ None \notin Calls \union Founded
  /\ Root \in Ids /\ "admin" \in Scopes /\ "client:write" \in Capabilities
  /\ NameOf \in [Founded -> Names]
  /\ \A r, q \in Founded : NameOf[r] = NameOf[q] => r = q
  /\ Wanted \subseteq [id : Ids, scopes : SUBSET Scopes, capabilities : SUBSET Capabilities,
                       app : BOOLEAN, public : BOOLEAN, people : BOOLEAN]
  /\ Roots \subseteq SUBSET Capabilities

\* A realm provisioned by a call has the identifier that call minted.
Realms == Founded \union Calls
Keys == ({"name"} \X Names) \union ({"client"} \X Realms \X Ids)

\* A client, as its row is.
Clients == [scopes : SUBSET Scopes, capabilities : SUBSET Capabilities, app : BOOLEAN,
            service : BOOLEAN, secret : Realms \union {None}, enabled : BOOLEAN]

\* What is absent is no name and no client.
ASSUME SomeAssumption == None \notin Names \union Clients

VARIABLES kept,    \* each realm that is
          holder,  \* the work that has inserted a unique key and not ended
          call,    \* each call
          told,    \* the secrets that were told to who asked for the client
          tokens   \* the access tokens that were given

vars == <<kept, holder, call, told, tokens>>

-----------------------------------------------------------------------------
(* A client, as register_client writes it.                                 *)

\* What is refused before anything is written: people to send back or to ask
\* without an address to return to, a public client without one, and an
\* application that holds a capability.
Sound(w) == /\ w.people \/ w.public => w.app
            /\ w.app => w.capabilities = {}

\* The secret is made for this very registration; a public client has none.
NewClient(c, w) ==
  [scopes |-> w.scopes, capabilities |-> w.capabilities, app |-> w.app,
   service |-> ~w.public /\ ~w.app, secret |-> IF w.public THEN None ELSE c, enabled |-> TRUE]

FirstClient(caps) == [id |-> Root, scopes |-> {"admin"}, capabilities |-> caps,
                      app |-> FALSE, public |-> FALSE, people |-> FALSE]

-----------------------------------------------------------------------------
(* A realm: its tenant, its keys, its clients and its chain.  The root is  *)
(* what its operator granted when it was founded, for the properties.      *)

Nothing == [tenant |-> FALSE, name |-> None, enabled |-> FALSE, data |-> 0, signing |-> {},
            clients |-> [i \in Ids |-> None], chain |-> <<>>, root |-> {}]

\* The private half of a key is sealed under a generation of the data key, for
\* its own realm and row.
SigningKeyOf(r) == [place |-> r, under |-> 1]

WithKeys(r, realm) ==
  [realm EXCEPT !.data = 1, !.signing = {SigningKeyOf(r)}, !.chain = Append(@, "signing_key.created")]

WithClient(realm, i, client) ==
  [realm EXCEPT !.clients[i] = client, !.chain = Append(@, "client.created")]

FoundedRealm(r, caps) ==
  WithClient(WithKeys(r, [Nothing EXCEPT !.tenant = TRUE, !.name = NameOf[r], !.enabled = TRUE,
                                         !.chain = <<"realm.created">>, !.root = caps]),
             Root, NewClient(r, FirstClient(caps)))

\* open_signing_key: the key opens where it is stored.
Opens(r) == \E k \in kept[r].signing : k.place = r /\ k.under = kept[r].data

\* Where a name leads, from the directory the triggers keep.
LocateRealm(n) == {r \in Realms : kept[r].name = n /\ kept[r].enabled}

IsTaken(u) == IF u[1] = "name" THEN \E r \in Realms : kept[r].name = u[2]
                               ELSE kept[u[2]].clients[u[3]] # None

\* What an access token says, and the realm whose key signed it.
AccessToken(r, i, scopes, session) ==
  [realm |-> r, issuer |-> kept[r].name, client |-> i, scopes |-> scopes, session |-> session]

-----------------------------------------------------------------------------
Idle == [step |-> "idle", kind |-> None, realm |-> None, name |-> None, wrote |-> Nothing,
         token |-> None, wanted |-> None, client |-> None, asked |-> {}, caps |-> {},
         stood |-> FALSE, required |-> None, taken |-> None]

Init ==
  /\ \E caps \in [Founded -> Roots] :
       kept = [r \in Realms |-> IF r \in Founded THEN FoundedRealm(r, caps[r]) ELSE Nothing]
  /\ holder = [u \in Keys |-> None]
  /\ call = [c \in Calls |-> Idle]
  /\ told = Founded
  /\ tokens = {AccessToken(r, Root, {"admin"}, FALSE) : r \in Founded}

Go(c, r) == call' = [call EXCEPT ![c] = r]
At(c, step) == call[c].step = step

\* The call is answered, and its unit of work, if it has one, ends: with a
\* refusal it is dropped.  What is remembered is a key it was told is taken.
Answer(c, taken) == /\ Go(c, [Idle EXCEPT !.step = "done", !.taken = taken])
                    /\ holder' = [u \in Keys |-> IF holder[u] = c THEN None ELSE holder[u]]
Refuse(c) == Answer(c, None) /\ UNCHANGED <<kept, told, tokens>>
RefuseTaken(c, u) == Answer(c, u) /\ UNCHANGED <<kept, told, tokens>>

\* An insert of a unique key: waits for a work that has inserted it, and is
\* refused when it is there.
Insert(c, u, wrote, next) ==
  /\ holder[u] = None
  /\ IF IsTaken(u)
     THEN RefuseTaken(c, u)
     ELSE /\ holder' = [holder EXCEPT ![u] = c]
          /\ Go(c, [call[c] EXCEPT !.wrote = wrote, !.step = next])
          /\ UNCHANGED <<kept, told, tokens>>

-----------------------------------------------------------------------------
(* provision_realm_with_client: one unit of work, bound to the tenant and  *)
(* the realm it creates.                                                   *)

Provision(c, n, first) ==
  /\ At(c, "idle")
  /\ Go(c, [Idle EXCEPT !.kind = "provision", !.step = "tenant", !.realm = c, !.name = n, !.asked = first])
  /\ UNCHANGED <<kept, holder, told, tokens>>

InsertTenant(c) ==
  /\ At(c, "tenant")
  /\ Go(c, [call[c] EXCEPT !.step = "realm", !.wrote.tenant = TRUE])
  /\ UNCHANGED <<kept, holder, told, tokens>>

InsertRealm(c) ==
  /\ At(c, "realm")
  /\ Insert(c, <<"name", call[c].name>>,
            [call[c].wrote EXCEPT !.name = call[c].name, !.enabled = TRUE, !.chain = <<"realm.created">>],
            "keys")

\* Mutant: the realm is committed, and its keys are left to a later work.
CreateKeysLater(c) ==
  /\ At(c, "keys")
  /\ kept' = [kept EXCEPT ![c] = call[c].wrote]
  /\ Go(c, [call[c] EXCEPT !.step = "first", !.wrote = WithKeys(c, @)])
  /\ UNCHANGED <<holder, told, tokens>>

CreateFirstKeys(c) ==
  /\ At(c, "keys")
  /\ Go(c, [call[c] EXCEPT !.step = "first", !.wrote = WithKeys(c, @)])
  /\ UNCHANGED <<kept, holder, told, tokens>>

\* The realm is this work's alone until it commits: its first client waits for
\* nobody.
RegisterFirst(c) ==
  /\ At(c, "first")
  /\ LET caps == call[c].asked
     IN  Go(c, [call[c] EXCEPT !.step = "commit",
                  !.wrote = IF caps = None THEN @
                            ELSE WithClient([@ EXCEPT !.root = caps], Root, NewClient(c, FirstClient(caps)))])
  /\ UNCHANGED <<kept, holder, told, tokens>>

\* The commit holds and its answer is heard or lost; the secret is told with it.
CommitRealm(c) ==
  /\ At(c, "commit") /\ call[c].kind = "provision"
  /\ kept' = [kept EXCEPT ![c] = call[c].wrote]
  /\ \E heard \in BOOLEAN :
       /\ Answer(c, None)
       /\ told' = IF heard /\ call[c].asked # None THEN told \union {c} ELSE told
  /\ UNCHANGED tokens

-----------------------------------------------------------------------------
(* resolve_realm: what a call that names a realm does first.               *)

ResolveRealm(c) ==
  /\ At(c, "resolve")
  /\ LET found == LocateRealm(call[c].name)
     IN  IF found = {}
         THEN Refuse(c)
         ELSE /\ \E r \in found : Go(c, [call[c] EXCEPT !.realm = r, !.step = call[c].kind])
              /\ UNCHANGED <<kept, holder, told, tokens>>

-----------------------------------------------------------------------------
(* The client credentials grant: grant_to_service.                         *)

\* A client presents a secret it was told, asks for scopes or (None) for all.
AskToken(c, n, i, secret, scopes) ==
  /\ At(c, "idle") /\ secret \in told
  /\ Go(c, [Idle EXCEPT !.kind = "grant", !.step = "resolve", !.name = n, !.client = i,
                        !.token = secret, !.asked = scopes])
  /\ UNCHANGED <<kept, holder, told, tokens>>

\* narrow_scopes.
Narrowed(asked, allowed) == IF asked = None THEN allowed ELSE asked

\* The client is authenticated, the scopes narrowed, the token signed and told.
GrantToService(c) ==
  /\ At(c, "grant")
  /\ LET r == call[c].realm
         client == kept[r].clients[call[c].client]
         granted == Narrowed(call[c].asked, client.scopes)
     IN  IF client = None \/ client.secret # call[c].token \/ ~client.enabled
         THEN Refuse(c)
         ELSE IF ~client.service \/ ~granted \subseteq client.scopes \/ ~Opens(r)
         THEN Refuse(c)
         ELSE /\ tokens' = tokens \union {AccessToken(r, call[c].client, granted, FALSE)}
              /\ Answer(c, None)
              /\ UNCHANGED <<kept, told>>

\* A person signs in through an application: the token carries their session,
\* and any scope the application is allowed.
GrantToPerson(r, i, scopes) ==
  /\ kept[r].clients[i] # None /\ kept[r].clients[i].app /\ Opens(r)
  /\ scopes \subseteq kept[r].clients[i].scopes
  /\ tokens' = tokens \union {AccessToken(r, i, scopes, TRUE)}
  /\ UNCHANGED <<kept, holder, call, told>>

-----------------------------------------------------------------------------
(* A call of the administration plane.                                     *)

\* Whether the client of a token may do as required, in the realm named.
StandsNow(n, t, required) ==
  /\ n = t.issuer /\ t.realm \in LocateRealm(n)
  /\ kept[t.realm].clients[t.client].enabled
  /\ required \in kept[t.realm].clients[t.client].capabilities

AskAdministration(c, n, t, required, w) ==
  /\ At(c, "idle") /\ t \in tokens
  /\ Go(c, [Idle EXCEPT !.kind = "admin", !.step = "resolve", !.name = n, !.token = t,
                        !.required = required, !.wanted = w, !.stood = StandsNow(n, t, required)])
  /\ UNCHANGED <<kept, holder, told, tokens>>

\* verify_access_token: signed by a key of the realm, for its issuer.
Verifies(r, t) == t.realm = r /\ t.issuer = kept[r].name

\* authorize_admin_call, once the realm is resolved.  The token may also have
\* expired.
AuthorizeAdminCall(c) ==
  /\ At(c, "admin")
  /\ LET t == call[c].token
         r == call[c].realm
         client == kept[r].clients[t.client]
     IN  \/ Refuse(c)
         \/ /\ Verifies(r, t) /\ ~t.session /\ "admin" \in t.scopes /\ client # None
            /\ client.enabled
            /\ IF call[c].required \in client.capabilities
               THEN /\ Go(c, [call[c] EXCEPT !.step = "admitted", !.client = t.client,
                                             !.caps = client.capabilities])
                    /\ UNCHANGED <<kept, holder, told, tokens>>
               ELSE Refuse(c)

\* A call that asks for no client is served: what it does is not of this module.
ServeCall(c) == At(c, "admitted") /\ call[c].wanted = None /\ Refuse(c)

\* Mutant: whoever may write clients grants what it likes.
CreateClientFreely(c) ==
  /\ At(c, "admitted") /\ call[c].wanted # None
  /\ LET w == call[c].wanted
     IN  IF ~Sound(w)
         THEN Refuse(c)
         ELSE Insert(c, <<"client", call[c].realm, w.id>>, Nothing, "commit")

\* create_client: nobody hands out more than they held when they were let in.
CreateClient(c) ==
  /\ At(c, "admitted") /\ call[c].wanted # None
  /\ LET w == call[c].wanted
         r == call[c].realm
     IN  IF ~w.capabilities \subseteq call[c].caps
         THEN Refuse(c)
         ELSE IF ~Sound(w)
         THEN Refuse(c)
         ELSE Insert(c, <<"client", r, w.id>>, Nothing, "commit")

CommitClient(c) ==
  /\ At(c, "commit") /\ call[c].kind = "admin"
  /\ LET w == call[c].wanted
         new == NewClient(c, w)
     IN  /\ kept' = [kept EXCEPT ![call[c].realm] = WithClient(@, w.id, new)]
         /\ \E heard \in BOOLEAN :
              /\ Answer(c, None)
              /\ told' = IF heard /\ ~w.public THEN told \union {c} ELSE told
  /\ UNCHANGED tokens

\* A statement fails, a wait reaches its bound, or the caller goes.
Fail(c) == call[c].step \notin {"idle", "done"} /\ Refuse(c)

-----------------------------------------------------------------------------
(* An operator changes rows by hand: no call of the program does.          *)

DisableRealm(r) ==
  /\ kept[r].enabled
  /\ kept' = [kept EXCEPT ![r].enabled = FALSE]
  /\ UNCHANGED <<holder, call, told, tokens>>

TakeAway(r, i, capability) ==
  /\ kept[r].clients[i] # None /\ capability \in kept[r].clients[i].capabilities
  /\ kept' = [kept EXCEPT ![r].clients[i].capabilities = @ \ {capability}]
  /\ UNCHANGED <<holder, call, told, tokens>>

DisableClient(r, i) ==
  /\ kept[r].clients[i] # None /\ kept[r].clients[i].enabled
  /\ kept' = [kept EXCEPT ![r].clients[i].enabled = FALSE]
  /\ UNCHANGED <<holder, call, told, tokens>>

ByHand == \E r \in Realms :
            \/ "realm" \in Hands /\ DisableRealm(r)
            \/ "client" \in Hands /\ \E i \in Ids : DisableClient(r, i)
            \/ "capability" \in Hands /\ \E i \in Ids, x \in Capabilities : TakeAway(r, i, x)

Step(c) ==
  \/ InsertTenant(c) \/ InsertRealm(c) \/ CreateFirstKeys(c) \/ RegisterFirst(c) \/ CommitRealm(c)
  \/ ResolveRealm(c) \/ GrantToService(c)
  \/ AuthorizeAdminCall(c) \/ ServeCall(c) \/ CreateClient(c) \/ CommitClient(c) \/ Fail(c)

Ask(c) ==
  /\ At(c, "idle")
  /\ \/ "realm" \in Asks /\ \E n \in Names, first \in Roots \union {None} : Provision(c, n, first)
     \/ "token" \in Asks /\ \E n \in Names, i \in Ids, s \in told, scopes \in {None} \union SUBSET Scopes :
                               AskToken(c, n, i, s, scopes)
     \/ "call" \in Asks /\ \E n \in Names, t \in tokens, x \in Capabilities : AskAdministration(c, n, t, x, None)
     \/ "client" \in Asks /\ \E n \in Names, t \in tokens, w \in Wanted : AskAdministration(c, n, t, "client:write", w)

SignedIn == \E r \in Realms, i \in Ids, scopes \in SUBSET Scopes : GrantToPerson(r, i, scopes)

Next == (\E c \in Calls : Ask(c) \/ Step(c)) \/ SignedIn \/ ByHand
Spec == Init /\ [][Next]_vars

-----------------------------------------------------------------------------
(* Properties.                                                             *)

\* A realm that a name leads to is whole, whatever failed, raced or was not
\* heard: it has its tenant, a key that opens, and a chain that begins with
\* its creation and the one of its key (tenancy/realm.rs, provision_first_realm).
RealmIsWhole ==
  \A r \in Realms : kept[r].name # None =>
    /\ kept[r].tenant /\ Opens(r)
    /\ SubSeq(kept[r].chain, 1, 2) = <<"realm.created", "signing_key.created">>

\* One name leads to one realm, and a call is told that a name or an
\* identifier is taken only when it is, for good: never for a work that had
\* inserted it and was rolled back (tenancy/realm.rs, clients/register.rs).
TakenIsTaken ==
  /\ \A r, q \in Realms : kept[r].name # None /\ kept[r].name = kept[q].name => r = q
  /\ \A c \in Calls : call[c].taken # None => IsTaken(call[c].taken)

\* However clients create clients, and whatever was taken away meanwhile, no
\* client of a realm holds more than its operator granted at its founding,
\* and an application holds nothing (clients/manage.rs, clients/register.rs).
NoneBeyondTheRoot ==
  \A r \in Realms, i \in Ids : LET client == kept[r].clients[i] IN
    client # None => /\ client.capabilities \subseteq kept[r].root
                     /\ client.app => client.capabilities = {}

\* A call is let through for a client acting as itself in the realm that
\* signed its token, and never on a right that was gone when the call was
\* made, the token being still good (authz/admin.rs, authorize_admin_call).
AdmittedOnItsOwnRight ==
  \A c \in Calls : call[c].kind = "admin" /\ call[c].client # None =>
    /\ call[c].stood
    /\ ~call[c].token.session /\ call[c].token.realm = call[c].realm

\* A realm is whole or absent, and its name leads to it alone.
RealmsAreWhole == RealmIsWhole /\ TakenIsTaken

\* Nobody holds, and nobody is let through on, a right that was not given.
RightsAreHeld == NoneBeyondTheRoot /\ AdmittedOnItsOwnRight
=============================================================================
