------------------------ MODULE AdministrationProofs -------------------------
(***************************************************************************)
(* For any realms, clients, capabilities and calls, whatever fails, races  *)
(* or is taken away meanwhile: a realm is whole or absent, its name leads  *)
(* to it alone, and nobody holds or is let through on a right that was not *)
(* given.                                                                  *)
(***************************************************************************)
EXTENDS Administration, SequenceTheorems, TLAPS

-----------------------------------------------------------------------------
(* The inductive invariant.                                                *)

Events == {"realm.created", "signing_key.created", "client.created"}

Realm == [tenant : BOOLEAN, name : Names \cup {None}, enabled : BOOLEAN, data : {0, 1},
          signing : SUBSET [place : Realms, under : {1}],
          clients : [Ids -> Clients \cup {None}], chain : Seq(Events), root : SUBSET Capabilities]

Token == [realm : Realms, issuer : Names, client : Ids, scopes : SUBSET Scopes, session : BOOLEAN]

\* A realm as it is committed.
IsWhole(r, realm) ==
  /\ realm \in Realm /\ realm.name \in Names /\ realm.tenant
  /\ realm.data = 1 /\ SigningKeyOf(r) \in realm.signing
  /\ Len(realm.chain) >= 2 /\ realm.chain[1] = "realm.created" /\ realm.chain[2] = "signing_key.created"

\* No client of a realm holds more than its root.
IsRooted(realm) ==
  \A i \in Ids : realm.clients[i] # None =>
    /\ realm.clients[i].capabilities \subseteq realm.root
    /\ realm.clients[i].app => realm.clients[i].capabilities = {}

RealmFits(r) == kept[r] = Nothing \/ (IsWhole(r, kept[r]) /\ IsRooted(kept[r]))

NamesApart == \A r, q \in Realms : kept[r].name # None /\ kept[r].name = kept[q].name => r = q

\* A token was given to a client that is there, in the realm it names.
TokenFits(t) ==
  /\ t \in Token /\ kept[t.realm].name = t.issuer /\ kept[t.realm].clients[t.client] # None

-----------------------------------------------------------------------------
(* A call.                                                                 *)

IsCall(q) ==
  q = [step |-> q.step, kind |-> q.kind, realm |-> q.realm, name |-> q.name, wrote |-> q.wrote,
       token |-> q.token, wanted |-> q.wanted, client |-> q.client, asked |-> q.asked,
       caps |-> q.caps, stood |-> q.stood, required |-> q.required, taken |-> q.taken]

\* What a provisioning has written by its step.
Begun(n) == [Nothing EXCEPT !.tenant = TRUE, !.name = n, !.enabled = TRUE, !.chain = <<"realm.created">>]

Provisions(c) == \/ call[c].step \in {"tenant", "realm", "keys", "first"}
                 \/ call[c].step = "commit" /\ call[c].kind = "provision"

ProvisionFits(c) ==
  /\ call[c].kind = "provision" /\ call[c].name \in Names /\ call[c].asked \in Roots \cup {None}
  /\ call[c].step = "tenant" => call[c].wrote = Nothing
  /\ call[c].step = "realm" => call[c].wrote = [Nothing EXCEPT !.tenant = TRUE]
  /\ call[c].step = "keys" => call[c].wrote = Begun(call[c].name)
  /\ call[c].step = "first" => call[c].wrote = WithKeys(c, Begun(call[c].name))
  /\ call[c].step = "commit" =>
       IsWhole(c, call[c].wrote) /\ IsRooted(call[c].wrote) /\ call[c].wrote.name = call[c].name

GrantFits(c) ==
  /\ call[c].kind = "grant" /\ call[c].name \in Names /\ call[c].client \in Ids
  /\ call[c].asked \in {None} \cup SUBSET Scopes
  /\ call[c].step = "grant" => call[c].realm \in Realms /\ kept[call[c].realm].name = call[c].name

\* Whether the client of the token still may as required, its realm enabled or not.
MayStill(c) ==
  LET t == call[c].token
      client == kept[call[c].realm].clients[t.client]
  IN t.realm = call[c].realm /\ t.issuer = call[c].name /\ client.enabled /\ call[c].required \in client.capabilities

AdminFits(c) ==
  LET q == call[c] IN
  /\ q.kind = "admin" /\ q.name \in Names /\ TokenFits(q.token) /\ q.wanted \in Wanted \cup {None}
  /\ q.step = "resolve" => q.client = None /\ (StandsNow(q.name, q.token, q.required) => q.stood)
  /\ q.step # "resolve" => q.realm \in Realms /\ kept[q.realm].name = q.name
  /\ q.step = "admin" => q.client = None /\ (MayStill(c) => q.stood)
  /\ q.step = "admitted" => q.caps \subseteq kept[q.realm].root
  /\ q.step \in {"admitted", "commit"} => q.stood /\ ~q.token.session /\ q.token.realm = q.realm
  /\ q.step = "commit" => /\ q.wanted \in Wanted /\ Sound(q.wanted)
                          /\ q.wanted.capabilities \subseteq kept[q.realm].root

CallFits(c) ==
  /\ IsCall(call[c])
  /\ call[c].step \in {"idle", "tenant", "realm", "keys", "first", "commit", "resolve", "grant",
                       "admin", "admitted", "done"}
  /\ call[c].step # "done" => kept[c] = Nothing
  /\ call[c].step \in {"idle", "done"} => call[c].client = None
  /\ Provisions(c) => ProvisionFits(c)
  /\ call[c].step = "grant" \/ (call[c].step = "resolve" /\ call[c].kind # "admin") => GrantFits(c)
  /\ \/ call[c].step \in {"admin", "admitted"}
     \/ call[c].step = "resolve" /\ call[c].kind # "grant"
     \/ call[c].step = "commit" /\ call[c].kind # "provision"
     => AdminFits(c)
  /\ call[c].taken # None => call[c].taken \in Keys /\ IsTaken(call[c].taken)

-----------------------------------------------------------------------------
(* Unique keys.                                                            *)

\* The key a call has inserted.
Writing == {"keys", "first", "commit"}
KeyOf(c) == IF call[c].kind = "provision" THEN <<"name", call[c].name>>
                                          ELSE <<"client", call[c].realm, call[c].wanted.id>>

HoldFits(u) == holder[u] # None => /\ holder[u] \in Calls /\ ~IsTaken(u)
                                   /\ call[holder[u]].step \in Writing /\ u = KeyOf(holder[u])

HasKey(c) == call[c].step \in Writing => holder[KeyOf(c)] = c

AdminInv ==
  /\ DOMAIN kept = Realms /\ DOMAIN call = Calls /\ DOMAIN holder = Keys
  /\ \A r \in Realms : RealmFits(r)
  /\ NamesApart
  /\ \A t \in tokens : TokenFits(t)
  /\ \A c \in Calls : CallFits(c) /\ HasKey(c)
  /\ \A u \in Keys : HoldFits(u)

-----------------------------------------------------------------------------
(* What a step leaves alone.                                               *)

\* A realm that is there keeps its name and its root; a client that is there
\* stays, and is given nothing more.
Grown ==
  \A r \in Realms : kept[r] # Nothing =>
    /\ kept'[r].name = kept[r].name /\ kept'[r].root = kept[r].root
    /\ kept'[r].enabled => kept[r].enabled
    /\ \A i \in Ids : kept[r].clients[i] # None =>
         /\ kept'[r].clients[i] # None
         /\ kept'[r].clients[i].capabilities \subseteq kept[r].clients[i].capabilities
         /\ kept'[r].clients[i].enabled => kept[r].clients[i].enabled

\* What a realm that is not there has.
LEMMA NothingIs ==
  /\ Nothing \in Realm /\ Nothing.name = None /\ ~Nothing.enabled /\ ~Nothing.tenant
  /\ Nothing.root = {} /\ Nothing.clients = [i \in Ids |-> None] /\ Nothing.chain = <<>>
  /\ Nothing.data = 0 /\ Nothing.signing = {}
  /\ \A i \in Ids : Nothing.clients[i] = None
<1>1. <<>> \in Seq(Events)
  OBVIOUS
<1> QED
  BY <1>1 DEF Nothing, Realm

\* A realm there is named, one that is not has nothing.
LEMMA ThereIs ==
  ASSUME AdminInv, NEW r \in Realms
  PROVE  /\ kept[r] \in Realm /\ RealmFits(r)
         /\ kept[r].name \in Names \cup {None} /\ kept[r].name # None => kept[r] # Nothing
         /\ kept[r] # Nothing => kept[r].name \in Names /\ IsWhole(r, kept[r]) /\ IsRooted(kept[r])
         /\ kept[r].enabled => kept[r] # Nothing
         /\ \A i \in Ids : /\ kept[r].clients[i] \in Clients \cup {None}
                           /\ kept[r].clients[i] # None => kept[r] # Nothing
<1>1. RealmFits(r)
  BY DEF AdminInv
<1>2. kept[r] \in Realm
  BY <1>1, NothingIs DEF RealmFits, IsWhole
<1>3. kept[r] # Nothing => kept[r].name \in Names /\ IsWhole(r, kept[r]) /\ IsRooted(kept[r])
  BY <1>1 DEF RealmFits, IsWhole
<1>4. kept[r].clients \in [Ids -> Clients \cup {None}] /\ kept[r].name \in Names \cup {None}
  BY <1>2 DEF Realm
<1> QED
  BY <1>1, <1>2, <1>3, <1>4, NothingIs

\* What was taken stays so.
LEMMA TakenStays ==
  ASSUME AdminInv, Grown, NEW u \in Keys, IsTaken(u)
  PROVE  IsTaken(u)'
<1>1. CASE u[1] = "name"
  <2>1. u[2] \in Names
    BY <1>1 DEF Keys
  <2>2. PICK r \in Realms : kept[r].name = u[2]
    BY <1>1 DEF IsTaken
  <2>3. kept[r] # Nothing
    BY <2>1, <2>2, NothingIs, SomeAssumption
  <2> QED
    BY <1>1, <2>2, <2>3 DEF IsTaken, Grown
<1>2. CASE u[1] # "name"
  <2>1. u[2] \in Realms /\ u[3] \in Ids
    BY <1>2 DEF Keys
  <2>2. kept[u[2]].clients[u[3]] # None
    BY <1>2 DEF IsTaken
  <2>3. kept[u[2]] # Nothing
    BY <2>1, <2>2, ThereIs
  <2> QED
    BY <1>2, <2>1, <2>2, <2>3 DEF IsTaken, Grown
<1> QED
  BY <1>1, <1>2

\* A token stays one of a client that is there.
LEMMA TokenStays ==
  ASSUME AdminInv, Grown, NEW t, TokenFits(t)
  PROVE  TokenFits(t)'
<1>1. t \in Token /\ t.realm \in Realms /\ t.client \in Ids /\ kept[t.realm].clients[t.client] # None
  BY DEF TokenFits, Token
<1>2. kept[t.realm] # Nothing
  BY <1>1, ThereIs
<1> QED
  BY <1>1, <1>2 DEF TokenFits, Grown

\* A right that stands was there before.
LEMMA RightsStood ==
  ASSUME AdminInv, Grown, NEW t, TokenFits(t), NEW n, NEW x, StandsNow(n, t, x)'
  PROVE  StandsNow(n, t, x)
<1>1. t.realm \in Realms /\ t.client \in Ids /\ kept[t.realm].clients[t.client] # None
  BY DEF TokenFits, Token
<1>2. kept[t.realm] # Nothing
  BY <1>1, ThereIs
<1> QED
  BY <1>1, <1>2 DEF StandsNow, LocateRealm, Grown

\* What fits a call that a step leaves alone.
LEMMA CallStands ==
  ASSUME AdminInv, Grown, NEW d \in Calls, call'[d] = call[d], kept[d] = Nothing => kept'[d] = Nothing
  PROVE  CallFits(d)'
<1>1. CallFits(d)
  BY DEF AdminInv
<1>2. call[d].taken # None => call[d].taken \in Keys /\ IsTaken(call[d].taken)'
  BY <1>1, TakenStays DEF CallFits
<1>3. Provisions(d) <=> Provisions(d)'
  BY DEF Provisions
<1>4. ProvisionFits(d) => ProvisionFits(d)'
  BY DEF ProvisionFits
<1>5. ASSUME NEW r \in Realms, NEW n \in Names, kept[r].name = n PROVE kept'[r].name = n /\ kept'[r].root = kept[r].root
  <2>1. kept[r] # Nothing
    BY <1>5, NothingIs, SomeAssumption
  <2> QED
    BY <1>5, <2>1 DEF Grown
<1>6. GrantFits(d) => GrantFits(d)'
  BY <1>5 DEF GrantFits
<1>7. AdminFits(d) => AdminFits(d)'
  <2> SUFFICES ASSUME AdminFits(d) PROVE AdminFits(d)'
    OBVIOUS
  <2>1. TokenFits(call[d].token) /\ call[d].name \in Names
    BY DEF AdminFits
  <2>2. TokenFits(call[d].token)'
    BY <2>1, TokenStays
  <2>3. StandsNow(call[d].name, call[d].token, call[d].required)'
          => StandsNow(call[d].name, call[d].token, call[d].required)
    BY <2>1, RightsStood
  <2>4. call[d].step = "admin" /\ MayStill(d)' => MayStill(d)
    <3>1. /\ call[d].token.realm \in Realms /\ call[d].token.client \in Ids
          /\ kept[call[d].token.realm].clients[call[d].token.client] # None
      BY <2>1 DEF TokenFits, Token
    <3>2. kept[call[d].token.realm] # Nothing
      BY <3>1, ThereIs
    <3> QED
      BY <3>1, <3>2 DEF MayStill, Grown
  <2>5. call[d].step # "resolve" =>
          /\ call[d].realm \in Realms /\ kept'[call[d].realm].name = call[d].name
          /\ kept'[call[d].realm].root = kept[call[d].realm].root
    BY <1>5, <2>1 DEF AdminFits
  <2> QED
    BY <2>1, <2>2, <2>3, <2>4, <2>5 DEF AdminFits
<1> QED
  BY <1>1, <1>2, <1>3, <1>4, <1>6, <1>7 DEF CallFits, IsCall

-----------------------------------------------------------------------------
(* A call that is answered, and what it held.                              *)

\* The key a call has inserted is one.
LEMMA KeyIs ==
  ASSUME AdminInv, NEW c \in Calls, call[c].step \in Writing
  PROVE  KeyOf(c) \in Keys /\ holder[KeyOf(c)] = c
<1>1. CallFits(c) /\ HasKey(c)
  BY DEF AdminInv
<1>2. CASE call[c].kind = "provision"
  <2>1. call[c].name \in Names
    BY <1>1, <1>2 DEF CallFits, Provisions, ProvisionFits, Writing
  <2> QED
    BY <1>1, <1>2, <2>1 DEF KeyOf, Keys, HasKey
<1>3. CASE call[c].kind # "provision"
  <2>1. call[c].step = "commit"
    BY <1>1, <1>3 DEF CallFits, Provisions, ProvisionFits, Writing
  <2>2. AdminFits(c)
    BY <1>1, <1>3, <2>1 DEF CallFits
  <2>3. call[c].realm \in Realms /\ call[c].wanted \in Wanted
    BY <2>1, <2>2 DEF AdminFits
  <2>4. call[c].wanted.id \in Ids
    BY <2>3, AdministrationAssumption
  <2> QED
    BY <1>1, <1>3, <2>3, <2>4 DEF KeyOf, Keys, HasKey
<1> QED
  BY <1>2, <1>3

\* An answered call fits: all it remembers is a key it was told is taken.
LEMMA AnsweredFits ==
  ASSUME AdminInv, NEW c \in Calls, NEW u, u = None \/ (u \in Keys /\ IsTaken(u)'), Answer(c, u)
  PROVE  /\ CallFits(c)' /\ call'[c].step = "done" /\ DOMAIN call' = Calls
         /\ \A d \in Calls : d # c => call'[d] = call[d]
<1>1. PICK q : q = [Idle EXCEPT !.step = "done", !.taken = u]
  OBVIOUS
<1>2. IsCall(q) /\ q.step = "done" /\ q.taken = u /\ q.client = None
  BY <1>1 DEF IsCall, Idle
<1>3. call' = [call EXCEPT ![c] = q] /\ DOMAIN call = Calls /\ call'[c] = q
  BY <1>1 DEF Answer, Go, AdminInv
<1>4. IsCall(call[c])' /\ call'[c].step = "done" /\ call'[c].taken = u /\ call'[c].client = None
  BY <1>2, <1>3 DEF IsCall
<1>5. call'[c].taken # None => call'[c].taken \in Keys /\ IsTaken(call[c].taken)'
  BY <1>4
<1>6. ~Provisions(c)'
  BY <1>4 DEF Provisions
<1>7. CallFits(c)'
  BY <1>4, <1>5, <1>6 DEF CallFits
<1> QED
  BY <1>3, <1>4, <1>7

\* Answering a call: what is left is that the realms and the tokens fit, and
\* that no key another call holds is taken by it.
LEMMA AnswerStep ==
  ASSUME AdminInv, Grown, NEW c \in Calls, NEW u, u = None \/ (u \in Keys /\ IsTaken(u)'), Answer(c, u),
         DOMAIN kept' = Realms, \A r \in Realms : RealmFits(r)', NamesApart', \A t \in tokens' : TokenFits(t)',
         \A d \in Calls : d # c /\ kept[d] = Nothing => kept'[d] = Nothing,
         \A v \in Keys : holder[v] # None /\ holder[v] # c /\ IsTaken(v)' => IsTaken(v)
  PROVE  AdminInv'
<1>1. /\ CallFits(c)' /\ call'[c].step = "done" /\ DOMAIN call' = Calls
      /\ \A d \in Calls : d # c => call'[d] = call[d]
  BY AnsweredFits
<1>2. holder' = [v \in Keys |-> IF holder[v] = c THEN None ELSE holder[v]]
  BY DEF Answer
<1>3. ASSUME NEW d \in Calls PROVE CallFits(d)' /\ HasKey(d)'
  <2>1. CASE d = c
    BY <1>1, <2>1 DEF HasKey, Writing
  <2>2. CASE d # c
    <3>1. call'[d] = call[d] /\ CallFits(d)'
      BY <1>1, <2>2, CallStands
    <3>2. KeyOf(d)' = KeyOf(d)
      BY <3>1 DEF KeyOf
    <3>3. call[d].step \in Writing => KeyOf(d) \in Keys /\ holder[KeyOf(d)] = d
      BY KeyIs
    <3> QED
      BY <1>2, <2>2, <3>1, <3>2, <3>3 DEF HasKey
  <2> QED
    BY <2>1, <2>2
<1>4. ASSUME NEW v \in Keys PROVE HoldFits(v)'
  <2>1. HoldFits(v)
    BY DEF AdminInv
  <2>2. SUFFICES ASSUME holder'[v] # None
                 PROVE  /\ holder'[v] \in Calls /\ ~IsTaken(v)'
                        /\ call'[holder'[v]].step \in Writing /\ v = KeyOf(holder[v])'
    BY DEF HoldFits
  <2>3. holder'[v] = holder[v] /\ holder[v] # c /\ holder[v] # None
    BY <1>2, <2>2
  <2>4. PICK d \in Calls : d = holder[v] /\ d # c
    BY <2>1, <2>3 DEF HoldFits
  <2>5. call'[d] = call[d] /\ KeyOf(d)' = KeyOf(d)
    BY <1>1, <2>4 DEF KeyOf
  <2> QED
    BY <2>1, <2>3, <2>4, <2>5 DEF HoldFits
<1> QED
  BY <1>1, <1>2, <1>3, <1>4 DEF AdminInv

\* When the realms are left alone, so is everything they decide.
LEMMA SameRealms ==
  ASSUME AdminInv, kept' = kept
  PROVE  /\ Grown /\ DOMAIN kept' = Realms /\ \A r \in Realms : RealmFits(r)'
         /\ NamesApart' /\ \A t : TokenFits(t)' <=> TokenFits(t)
         /\ \A v \in Keys : IsTaken(v)' <=> IsTaken(v)
<1>1. /\ DOMAIN kept' = Realms /\ \A r \in Realms : RealmFits(r)
      /\ NamesApart
  BY DEF AdminInv
<1>2. Grown
  BY DEF Grown
<1>3. \A r \in Realms : RealmFits(r)'
  BY <1>1 DEF RealmFits
<1>4. NamesApart'
  BY <1>1 DEF NamesApart
<1>5. \A t : TokenFits(t)' <=> TokenFits(t)
  BY DEF TokenFits
<1>6. \A v \in Keys : IsTaken(v)' <=> IsTaken(v)
  BY DEF IsTaken
<1> QED
  BY <1>1, <1>2, <1>3, <1>4, <1>5, <1>6

\* A refusal leaves everything in its place.
LEMMA RefuseStep ==
  ASSUME AdminInv, NEW c \in Calls, NEW u, u = None \/ (u \in Keys /\ IsTaken(u)), RefuseTaken(c, u)
  PROVE  AdminInv'
<1>1. kept' = kept /\ tokens' = tokens /\ Answer(c, u)
  BY DEF RefuseTaken
<1>2. /\ Grown /\ DOMAIN kept' = Realms /\ \A r \in Realms : RealmFits(r)'
      /\ NamesApart' /\ \A t : TokenFits(t)' <=> TokenFits(t)
      /\ \A v \in Keys : IsTaken(v)' <=> IsTaken(v)
  BY <1>1, SameRealms
<1>3. \A t \in tokens' : TokenFits(t)'
  BY <1>1, <1>2 DEF AdminInv
<1>4. u = None \/ (u \in Keys /\ IsTaken(u)')
  BY <1>2
<1>5. \A d \in Calls : d # c /\ kept[d] = Nothing => kept'[d] = Nothing
  BY <1>1
<1>6. \A v \in Keys : holder[v] # None /\ holder[v] # c /\ IsTaken(v)' => IsTaken(v)
  BY <1>2
<1> QED
  BY <1>1, <1>2, <1>3, <1>4, <1>5, <1>6, AnswerStep

\* A call that moves on without a key more or less.
LEMMA MoveStep ==
  ASSUME AdminInv, NEW c \in Calls, NEW q, call' = [call EXCEPT ![c] = q], UNCHANGED <<kept, holder, tokens>>,
         CallFits(c)', q.step \in Writing <=> call[c].step \in Writing,
         q.step \in Writing => KeyOf(c)' = KeyOf(c)
  PROVE  AdminInv'
<1>1. /\ Grown /\ DOMAIN kept' = Realms /\ \A r \in Realms : RealmFits(r)'
      /\ NamesApart' /\ \A t : TokenFits(t)' <=> TokenFits(t)
      /\ \A v \in Keys : IsTaken(v)' <=> IsTaken(v)
  BY SameRealms
<1>2. /\ DOMAIN call' = Calls /\ call'[c] = q
      /\ \A d \in Calls : d # c => call'[d] = call[d]
  BY DEF AdminInv
<1>3. \A d \in Calls : /\ call'[d].step \in Writing <=> call[d].step \in Writing
                       /\ call'[d].step \in Writing => KeyOf(d)' = KeyOf(d)
  BY <1>2 DEF KeyOf
<1>4. ASSUME NEW d \in Calls PROVE CallFits(d)' /\ HasKey(d)'
  <2>1. CallFits(d)'
    BY <1>1, <1>2, CallStands
  <2>2. HasKey(d)
    BY DEF AdminInv
  <2> QED
    BY <1>3, <2>1, <2>2 DEF HasKey
<1>5. ASSUME NEW v \in Keys PROVE HoldFits(v)'
  <2>1. HoldFits(v) /\ (IsTaken(v)' <=> IsTaken(v))
    BY <1>1 DEF AdminInv
  <2> QED
    BY <1>3, <2>1 DEF HoldFits
<1>6. \A t \in tokens' : TokenFits(t)'
  BY <1>1 DEF AdminInv
<1> QED
  BY <1>1, <1>2, <1>4, <1>5, <1>6 DEF AdminInv

-----------------------------------------------------------------------------
(* A realm as it is written.                                               *)

\* An event more on a chain.
LEMMA ChainGrows ==
  ASSUME NEW chain \in Seq(Events), NEW e \in Events, NEW longer, longer = Append(chain, e)
  PROVE  /\ longer \in Seq(Events) /\ Len(longer) = Len(chain) + 1 /\ longer[Len(chain) + 1] = e
         /\ \A k \in 1 .. Len(chain) : longer[k] = chain[k]
OBVIOUS

\* What a client's row is when it is written.
LEMMA NewClientIs ==
  ASSUME NEW c \in Realms, NEW w, w.scopes \in SUBSET Scopes, w.capabilities \in SUBSET Capabilities,
         w.app \in BOOLEAN, w.public \in BOOLEAN
  PROVE  /\ NewClient(c, w) \in Clients /\ NewClient(c, w) # None
         /\ NewClient(c, w).capabilities = w.capabilities /\ NewClient(c, w).app = w.app
<1>1. NewClient(c, w) \in Clients
  BY DEF NewClient, Clients
<1>2. NewClient(c, w).capabilities = w.capabilities /\ NewClient(c, w).app = w.app
  BY DEF NewClient
<1> QED
  BY <1>1, <1>2, SomeAssumption

\* A client more leaves a realm whole, and within its root when it is.
LEMMA WithClientFits ==
  ASSUME NEW r \in Realms, NEW realm, IsWhole(r, realm), IsRooted(realm), NEW i \in Ids, NEW client \in Clients,
         client.capabilities \subseteq realm.root, client.app => client.capabilities = {},
         NEW new, new = WithClient(realm, i, client)
  PROVE  /\ IsWhole(r, new) /\ IsRooted(new) /\ new.name = realm.name /\ new.root = realm.root
         /\ new.enabled = realm.enabled
         /\ new.clients[i] = client /\ \A j \in Ids : j # i => new.clients[j] = realm.clients[j]
<1>1. /\ realm \in Realm /\ realm.chain \in Seq(Events) /\ Len(realm.chain) \in Nat
      /\ realm.clients \in [Ids -> Clients \cup {None}]
  BY DEF IsWhole, Realm
<1>2. /\ new.tenant = realm.tenant /\ new.name = realm.name /\ new.enabled = realm.enabled
      /\ new.data = realm.data /\ new.signing = realm.signing /\ new.root = realm.root
      /\ new.clients = [realm.clients EXCEPT ![i] = client]
      /\ new.chain = Append(realm.chain, "client.created")
  BY <1>1 DEF WithClient, Realm
<1>3. /\ new.chain \in Seq(Events) /\ Len(new.chain) = Len(realm.chain) + 1
      /\ \A k \in 1 .. Len(realm.chain) : new.chain[k] = realm.chain[k]
  <2>1. "client.created" \in Events
    BY DEF Events
  <2> QED
    BY <1>1, <1>2, <2>1, ChainGrows
<1>4. new.clients \in [Ids -> Clients \cup {None}]
  BY <1>1, <1>2
<1>5. new \in Realm
  BY <1>1, <1>3, <1>4 DEF WithClient, Realm
<1>6. 1 \in 1 .. Len(realm.chain) /\ 2 \in 1 .. Len(realm.chain)
  BY <1>1 DEF IsWhole
<1>7. IsWhole(r, new)
  BY <1>1, <1>2, <1>3, <1>5, <1>6 DEF IsWhole
<1>8. new.clients[i] = client /\ \A j \in Ids : j # i => new.clients[j] = realm.clients[j]
  BY <1>1, <1>2
<1>9. IsRooted(new)
  BY <1>2, <1>8 DEF IsRooted
<1> QED
  BY <1>2, <1>7, <1>8, <1>9

\* A realm with its keys is whole.
LEMMA WithKeysFits ==
  ASSUME NEW r \in Realms, NEW n \in Names, NEW new, new = WithKeys(r, Begun(n))
  PROVE  /\ IsWhole(r, new) /\ IsRooted(new) /\ new.name = n /\ new.root = {}
         /\ new.clients = [i \in Ids |-> None] /\ new.enabled
<1>1. PICK b : b = Begun(n)
  OBVIOUS
<1>2. /\ b \in Realm /\ b.tenant /\ b.name = n /\ b.enabled /\ b.chain = <<"realm.created">>
      /\ b.root = {} /\ b.clients = [i \in Ids |-> None] /\ b.data = 0 /\ b.signing = {}
  <2>0. "realm.created" \in Events
    BY DEF Events
  <2>1. <<"realm.created">> \in Seq(Events)
    BY <2>0
  <2> QED
    BY <1>1, <2>1 DEF Begun, Nothing, Realm
<1>3. /\ new.tenant = b.tenant /\ new.name = n /\ new.enabled = b.enabled /\ new.data = 1
      /\ new.signing = {SigningKeyOf(r)} /\ new.clients = b.clients /\ new.root = b.root
      /\ new.chain = Append(b.chain, "signing_key.created")
  BY <1>1, <1>2 DEF WithKeys, Realm
<1>4. /\ new.chain \in Seq(Events) /\ Len(new.chain) = 2
      /\ new.chain[1] = "realm.created" /\ new.chain[2] = "signing_key.created"
  <2>0. Len(b.chain) = 1 /\ b.chain[1] = "realm.created"
    BY <1>2
  <2>1. b.chain \in Seq(Events) /\ Len(b.chain) = 1 /\ b.chain[1] = "realm.created"
    BY <1>2, <2>0 DEF Realm
  <2>2. "signing_key.created" \in Events
    BY DEF Events
  <2>3. /\ new.chain \in Seq(Events) /\ Len(new.chain) = 1 + 1 /\ new.chain[1 + 1] = "signing_key.created"
        /\ \A k \in 1 .. 1 : new.chain[k] = b.chain[k]
    BY <1>3, <2>1, <2>2, ChainGrows
  <2>4. 1 + 1 = 2 /\ 1 \in 1 .. 1
    OBVIOUS
  <2> QED
    BY <2>1, <2>3, <2>4
<1>5. {SigningKeyOf(r)} \subseteq [place : Realms, under : {1}]
  BY DEF SigningKeyOf
<1>6. new \in Realm
  BY <1>1, <1>2, <1>3, <1>4, <1>5 DEF WithKeys, Realm
<1>7. IsWhole(r, new)
  BY <1>2, <1>3, <1>4, <1>6 DEF IsWhole
<1>8. IsRooted(new)
  BY <1>2, <1>3 DEF IsRooted
<1> QED
  BY <1>2, <1>3, <1>7, <1>8

\* And so it is with its first client, which holds what its root is.
LEMMA FirstClientFits ==
  ASSUME NEW r \in Realms, NEW n \in Names, NEW caps \in SUBSET Capabilities, NEW new,
         new = WithClient([WithKeys(r, Begun(n)) EXCEPT !.root = caps], Root, NewClient(r, FirstClient(caps)))
  PROVE  /\ IsWhole(r, new) /\ IsRooted(new) /\ new.name = n /\ new.root = caps
         /\ new.clients[Root] # None /\ new.enabled
<1>1. PICK k : k = WithKeys(r, Begun(n))
  OBVIOUS
<1>2. IsWhole(r, k) /\ IsRooted(k) /\ k.name = n /\ k.clients = [i \in Ids |-> None] /\ k.enabled
  BY <1>1, WithKeysFits
<1>3. PICK b : b = [k EXCEPT !.root = caps]
  OBVIOUS
<1>4. k \in Realm
  BY <1>2 DEF IsWhole
<1>5. /\ b \in Realm /\ b.tenant = k.tenant /\ b.name = n /\ b.enabled = k.enabled /\ b.data = k.data
      /\ b.signing = k.signing /\ b.clients = k.clients /\ b.chain = k.chain /\ b.root = caps
  BY <1>2, <1>3, <1>4 DEF Realm
<1>6. IsWhole(r, b)
  BY <1>2, <1>5 DEF IsWhole
<1>7. IsRooted(b)
  BY <1>2, <1>5 DEF IsRooted
<1>8. PICK w : w = FirstClient(caps)
  OBVIOUS
<1>9. /\ w.scopes \in SUBSET Scopes /\ w.capabilities = caps /\ w.app \in BOOLEAN /\ ~w.app
      /\ w.public \in BOOLEAN
  BY <1>8, AdministrationAssumption DEF FirstClient
<1>10. PICK client : client = NewClient(r, w)
  OBVIOUS
<1>11. client \in Clients /\ client # None /\ client.capabilities = caps /\ client.app = w.app
  BY <1>9, <1>10, NewClientIs
<1>12. new = WithClient(b, Root, client) /\ Root \in Ids
  BY <1>1, <1>3, <1>8, <1>10, AdministrationAssumption
<1>13. client.capabilities \subseteq b.root /\ (client.app => client.capabilities = {})
  BY <1>5, <1>9, <1>11
<1>14. /\ IsWhole(r, new) /\ IsRooted(new) /\ new.name = b.name /\ new.root = b.root
       /\ new.enabled = b.enabled /\ new.clients[Root] = client
  BY <1>6, <1>7, <1>11, <1>12, <1>13, WithClientFits
<1> QED
  BY <1>2, <1>5, <1>11, <1>14

-----------------------------------------------------------------------------
(* The calls as they move on.                                              *)

\* What a call was told is taken still is.
LEMMA ToldIsTaken ==
  ASSUME AdminInv, kept' = kept, NEW c \in Calls, call'[c].taken \in {None, call[c].taken}
  PROVE  call'[c].taken # None => call'[c].taken \in Keys /\ IsTaken(call[c].taken)'
<1>1. call[c].taken # None => call[c].taken \in Keys /\ IsTaken(call[c].taken)
  BY DEF AdminInv, CallFits
<1>2. \A v \in Keys : IsTaken(v)' <=> IsTaken(v)
  BY SameRealms
<1>3. SUFFICES ASSUME call'[c].taken # None PROVE call'[c].taken \in Keys /\ IsTaken(call[c].taken)'
  OBVIOUS
<1>4. PICK v \in Keys : v = call'[c].taken /\ IsTaken(v)
  BY <1>1, <1>3
<1>5. IsTaken(v)'
  BY <1>2, <1>4
<1> QED
  BY <1>4, <1>5

\* A provisioning moves on.
LEMMA FitsProvision ==
  ASSUME AdminInv, kept' = kept, NEW c \in Calls, call'[c].taken \in {None, call[c].taken},
         call[c].step # "done", IsCall(call[c])', ProvisionFits(c)',
         call'[c].step \in {"tenant", "realm", "keys", "first", "commit"}
  PROVE  CallFits(c)'
<1>1. call'[c].taken # None => call'[c].taken \in Keys /\ IsTaken(call[c].taken)'
  BY ToldIsTaken
<1>2. kept'[c] = Nothing
  BY DEF AdminInv, CallFits
<1>3. call'[c].kind = "provision"
  BY DEF ProvisionFits
<1> QED
  BY <1>1, <1>2, <1>3 DEF CallFits

\* A grant moves on.
LEMMA FitsGrant ==
  ASSUME AdminInv, kept' = kept, NEW c \in Calls, call'[c].taken \in {None, call[c].taken},
         call[c].step # "done", IsCall(call[c])', GrantFits(c)', call'[c].step \in {"resolve", "grant"}
  PROVE  CallFits(c)'
<1>1. call'[c].taken # None => call'[c].taken \in Keys /\ IsTaken(call[c].taken)'
  BY ToldIsTaken
<1>2. kept'[c] = Nothing
  BY DEF AdminInv, CallFits
<1>3. call'[c].kind = "grant" /\ ~Provisions(c)'
  BY DEF GrantFits, Provisions
<1> QED
  BY <1>1, <1>2, <1>3 DEF CallFits

\* A call of the administration plane moves on.
LEMMA FitsAdmin ==
  ASSUME AdminInv, kept' = kept, NEW c \in Calls, call'[c].taken \in {None, call[c].taken},
         call[c].step # "done", IsCall(call[c])', AdminFits(c)',
         call'[c].step \in {"resolve", "admin", "admitted", "commit"}
  PROVE  CallFits(c)'
<1>1. call'[c].taken # None => call'[c].taken \in Keys /\ IsTaken(call[c].taken)'
  BY ToldIsTaken
<1>2. kept'[c] = Nothing
  BY DEF AdminInv, CallFits
<1>3. call'[c].kind = "admin"
  BY DEF AdminFits
<1>4. ~Provisions(c)'
  BY <1>3 DEF Provisions
<1> QED
  BY <1>1, <1>2, <1>3, <1>4 DEF CallFits

-----------------------------------------------------------------------------
(* The steps of a provisioning.                                            *)

\* A realm is asked for: nothing is written.
LEMMA ProvisionStep ==
  ASSUME AdminInv, NEW c \in Calls, NEW n \in Names, NEW first \in Roots \cup {None}, Provision(c, n, first)
  PROVE  AdminInv'
<1>1. PICK q : q = [Idle EXCEPT !.kind = "provision", !.step = "tenant", !.realm = c, !.name = n, !.asked = first]
  OBVIOUS
<1>2. /\ IsCall(q) /\ q.step = "tenant" /\ q.kind = "provision" /\ q.name = n /\ q.asked = first
      /\ q.wrote = Nothing /\ q.taken = None
  BY <1>1 DEF IsCall, Idle
<1>3. /\ call' = [call EXCEPT ![c] = q] /\ UNCHANGED <<kept, holder, tokens>> /\ call[c].step = "idle"
      /\ call'[c] = q
  BY <1>1 DEF Provision, Go, At, AdminInv
<1>4. IsCall(call[c])' /\ call'[c].taken \in {None, call[c].taken}
  BY <1>2, <1>3 DEF IsCall
<1>5. ProvisionFits(c)'
  BY <1>2, <1>3 DEF ProvisionFits
<1>6. CallFits(c)'
  BY <1>2, <1>3, <1>4, <1>5, FitsProvision
<1> QED
  BY <1>2, <1>3, <1>6, MoveStep DEF Writing

\* The tenant of the new realm is written, for its own work alone.
LEMMA InsertTenantStep ==
  ASSUME AdminInv, NEW c \in Calls, InsertTenant(c)
  PROVE  AdminInv'
<1>1. PICK q : q = [call[c] EXCEPT !.step = "realm", !.wrote.tenant = TRUE]
  OBVIOUS
<1>2. /\ call' = [call EXCEPT ![c] = q] /\ UNCHANGED <<kept, holder, tokens>> /\ call[c].step = "tenant"
      /\ call'[c] = q
  BY <1>1 DEF InsertTenant, Go, At, AdminInv
<1>3. IsCall(call[c]) /\ ProvisionFits(c)
  BY <1>2 DEF AdminInv, CallFits, Provisions
<1>4. call[c].wrote = Nothing
  BY <1>2, <1>3 DEF ProvisionFits
<1>5. /\ IsCall(q) /\ q.step = "realm" /\ q.kind = call[c].kind /\ q.name = call[c].name
      /\ q.asked = call[c].asked /\ q.wrote = [call[c].wrote EXCEPT !.tenant = TRUE]
      /\ q.taken = call[c].taken
  BY <1>1, <1>3 DEF IsCall
<1>6. IsCall(call[c])' /\ call'[c].taken \in {None, call[c].taken}
  BY <1>2, <1>5 DEF IsCall
<1>7. ProvisionFits(c)'
  BY <1>2, <1>3, <1>4, <1>5 DEF ProvisionFits
<1>8. CallFits(c)'
  BY <1>2, <1>5, <1>6, <1>7, FitsProvision
<1> QED
  BY <1>2, <1>5, <1>8, MoveStep DEF Writing

\* The keys of the new realm are written, for its own work alone.
LEMMA CreateFirstKeysStep ==
  ASSUME AdminInv, NEW c \in Calls, CreateFirstKeys(c)
  PROVE  AdminInv'
<1>1. PICK q : q = [call[c] EXCEPT !.step = "first", !.wrote = WithKeys(c, call[c].wrote)]
  OBVIOUS
<1>2. /\ call' = [call EXCEPT ![c] = q] /\ UNCHANGED <<kept, holder, tokens>> /\ call[c].step = "keys"
      /\ call'[c] = q
  BY <1>1 DEF CreateFirstKeys, Go, At, AdminInv
<1>3. IsCall(call[c]) /\ ProvisionFits(c)
  BY <1>2 DEF AdminInv, CallFits, Provisions
<1>4. call[c].wrote = Begun(call[c].name)
  BY <1>2, <1>3 DEF ProvisionFits
<1>5. /\ IsCall(q) /\ q.step = "first" /\ q.kind = call[c].kind /\ q.name = call[c].name
      /\ q.asked = call[c].asked /\ q.wrote = WithKeys(c, call[c].wrote)
      /\ q.taken = call[c].taken
  BY <1>1, <1>3 DEF IsCall
<1>6. IsCall(call[c])' /\ call'[c].taken \in {None, call[c].taken}
  BY <1>2, <1>5 DEF IsCall
<1>7. ProvisionFits(c)'
  BY <1>2, <1>3, <1>4, <1>5 DEF ProvisionFits
<1>8. CallFits(c)'
  BY <1>2, <1>5, <1>6, <1>7, FitsProvision
<1>9. KeyOf(c)' = KeyOf(c)
  BY <1>2, <1>3, <1>5 DEF KeyOf, ProvisionFits
<1> QED
  BY <1>2, <1>5, <1>8, <1>9, MoveStep DEF Writing

\* The first client of the new realm is written with what was asked, for its own work alone.
LEMMA RegisterFirstStep ==
  ASSUME AdminInv, NEW c \in Calls, RegisterFirst(c)
  PROVE  AdminInv'
<1>1. PICK new : new = IF call[c].asked = None THEN call[c].wrote
                       ELSE WithClient([call[c].wrote EXCEPT !.root = call[c].asked], Root,
                                       NewClient(c, FirstClient(call[c].asked)))
  OBVIOUS
<1>2. PICK q : q = [call[c] EXCEPT !.step = "commit", !.wrote = new]
  OBVIOUS
<1>3. /\ call' = [call EXCEPT ![c] = q] /\ UNCHANGED <<kept, holder, tokens>> /\ call[c].step = "first"
      /\ call'[c] = q
  BY <1>1, <1>2 DEF RegisterFirst, Go, At, AdminInv
<1>4. IsCall(call[c]) /\ ProvisionFits(c)
  BY <1>3 DEF AdminInv, CallFits, Provisions
<1>5. /\ call[c].wrote = WithKeys(c, Begun(call[c].name)) /\ call[c].name \in Names /\ c \in Realms
      /\ call[c].asked \in Roots \cup {None}
  BY <1>3, <1>4 DEF ProvisionFits, Realms
<1>6. IsWhole(c, new) /\ IsRooted(new) /\ new.name = call[c].name
  <2>1. CASE call[c].asked = None
    BY <1>1, <1>5, <2>1, WithKeysFits
  <2>2. CASE call[c].asked # None
    <3>1. call[c].asked \in SUBSET Capabilities
      BY <1>5, <2>2, AdministrationAssumption
    <3> QED
      BY <1>1, <1>5, <2>2, <3>1, FirstClientFits
  <2> QED
    BY <2>1, <2>2
<1>7. /\ IsCall(q) /\ q.step = "commit" /\ q.kind = call[c].kind /\ q.name = call[c].name
      /\ q.asked = call[c].asked /\ q.wrote = new
      /\ q.taken = call[c].taken
  BY <1>2, <1>4 DEF IsCall
<1>8. IsCall(call[c])' /\ call'[c].taken \in {None, call[c].taken}
  BY <1>3, <1>7 DEF IsCall
<1>9. ProvisionFits(c)'
  BY <1>3, <1>4, <1>6, <1>7 DEF ProvisionFits
<1>10. CallFits(c)'
  BY <1>3, <1>7, <1>8, <1>9, FitsProvision
<1>11. KeyOf(c)' = KeyOf(c)
  BY <1>3, <1>4, <1>7 DEF KeyOf, ProvisionFits
<1> QED
  BY <1>3, <1>7, <1>10, <1>11, MoveStep DEF Writing

\* A key is inserted that was not taken and that nobody held.
LEMMA InsertStep ==
  ASSUME AdminInv, NEW c \in Calls, NEW u \in Keys, holder[u] = None, ~IsTaken(u), NEW q,
         call' = [call EXCEPT ![c] = q], holder' = [holder EXCEPT ![u] = c], UNCHANGED <<kept, tokens>>,
         CallFits(c)', call[c].step \notin Writing, q.step \in Writing, KeyOf(c)' = u
  PROVE  AdminInv'
<1>1. /\ Grown /\ DOMAIN kept' = Realms /\ \A r \in Realms : RealmFits(r)'
      /\ NamesApart' /\ \A t : TokenFits(t)' <=> TokenFits(t)
      /\ \A v \in Keys : IsTaken(v)' <=> IsTaken(v)
  BY SameRealms
<1>2. /\ DOMAIN call' = Calls /\ call'[c] = q
      /\ \A d \in Calls : d # c => call'[d] = call[d]
  BY DEF AdminInv
<1>3. /\ DOMAIN holder' = Keys /\ holder'[u] = c
      /\ \A v \in Keys : v # u => holder'[v] = holder[v]
  BY DEF AdminInv
<1>4. ASSUME NEW d \in Calls PROVE CallFits(d)' /\ HasKey(d)'
  <2>1. CASE d = c
    BY <1>3, <2>1 DEF HasKey
  <2>2. CASE d # c
    <3>1. call'[d] = call[d] /\ CallFits(d)'
      BY <1>1, <1>2, <2>2, CallStands
    <3>2. KeyOf(d)' = KeyOf(d)
      BY <3>1 DEF KeyOf
    <3>3. call[d].step \in Writing => KeyOf(d) \in Keys /\ holder[KeyOf(d)] = d
      BY KeyIs
    <3>4. d # None
      BY AdministrationAssumption
    <3> QED
      BY <1>3, <3>1, <3>2, <3>3, <3>4 DEF HasKey
  <2> QED
    BY <2>1, <2>2
<1>5. ASSUME NEW v \in Keys PROVE HoldFits(v)'
  <2>1. HoldFits(v) /\ (IsTaken(v)' <=> IsTaken(v))
    BY <1>1 DEF AdminInv
  <2>2. CASE v = u
    BY <1>2, <1>3, <2>1, <2>2 DEF HoldFits
  <2>3. CASE v # u
    <3>1. SUFFICES ASSUME holder[v] # None
                   PROVE  /\ holder[v] \in Calls /\ ~IsTaken(v)'
                          /\ call'[holder[v]].step \in Writing /\ v = KeyOf(holder[v])'
      BY <1>3, <2>3 DEF HoldFits
    <3>2. PICK d \in Calls : d = holder[v] /\ call[d].step \in Writing /\ v = KeyOf(d) /\ ~IsTaken(v)
      BY <2>1, <3>1 DEF HoldFits
    <3>3. d # c /\ call'[d] = call[d]
      BY <1>2, <3>2
    <3>4. KeyOf(d)' = KeyOf(d)
      BY <3>3 DEF KeyOf
    <3> QED
      BY <1>3, <2>1, <2>3, <3>2, <3>3, <3>4
  <2> QED
    BY <2>2, <2>3
<1>6. \A t \in tokens' : TokenFits(t)'
  BY <1>1 DEF AdminInv
<1> QED
  BY <1>1, <1>2, <1>3, <1>4, <1>5, <1>6 DEF AdminInv

\* The name of the new realm is held by one work, or another has it.
LEMMA InsertRealmStep ==
  ASSUME AdminInv, NEW c \in Calls, InsertRealm(c)
  PROVE  AdminInv'
<1>1. call[c].step = "realm"
  BY DEF InsertRealm, At
<1>2. IsCall(call[c]) /\ ProvisionFits(c)
  BY <1>1 DEF AdminInv, CallFits, Provisions
<1>3. /\ call[c].name \in Names /\ call[c].kind = "provision"
      /\ call[c].wrote = [Nothing EXCEPT !.tenant = TRUE]
  BY <1>1, <1>2 DEF ProvisionFits
<1>4. PICK u : u = <<"name", call[c].name>>
  OBVIOUS
<1>5. u \in Keys
  BY <1>3, <1>4 DEF Keys
<1>6. PICK b : b = [call[c].wrote EXCEPT !.name = call[c].name, !.enabled = TRUE, !.chain = <<"realm.created">>]
  OBVIOUS
<1>7. b = Begun(call[c].name)
  BY <1>3, <1>6 DEF Begun, Nothing
<1>8. holder[u] = None /\ Insert(c, u, b, "keys")
  BY <1>4, <1>6 DEF InsertRealm, Insert
<1>9. CASE IsTaken(u)
  BY <1>5, <1>8, <1>9, RefuseStep DEF Insert
<1>10. CASE ~IsTaken(u)
  <2>1. PICK q : q = [call[c] EXCEPT !.wrote = b, !.step = "keys"]
    OBVIOUS
  <2>2. /\ call' = [call EXCEPT ![c] = q] /\ UNCHANGED <<kept, tokens>> /\ holder' = [holder EXCEPT ![u] = c]
        /\ call'[c] = q
    BY <1>8, <1>10, <2>1 DEF Insert, Go, AdminInv
  <2>3. /\ IsCall(q) /\ q.step = "keys" /\ q.kind = call[c].kind /\ q.name = call[c].name
        /\ q.asked = call[c].asked /\ q.wrote = b /\ q.taken = call[c].taken
    BY <1>2, <2>1 DEF IsCall
  <2>4. IsCall(call[c])' /\ call'[c].taken \in {None, call[c].taken}
    BY <2>2, <2>3 DEF IsCall
  <2>5. ProvisionFits(c)'
    BY <1>2, <1>3, <1>7, <2>2, <2>3 DEF ProvisionFits
  <2>6. CallFits(c)'
    BY <1>1, <2>2, <2>3, <2>4, <2>5, FitsProvision
  <2>7. KeyOf(c)' = u
    BY <1>3, <1>4, <2>2, <2>3 DEF KeyOf
  <2> QED
    BY <1>1, <1>5, <1>8, <1>10, <2>2, <2>3, <2>6, <2>7, InsertStep DEF Writing
<1> QED
  BY <1>9, <1>10

\* The commit of a realm: its name was held for it, and nobody else has a
\* client to write in it.
LEMMA CommitRealmStep ==
  ASSUME AdminInv, NEW c \in Calls, CommitRealm(c)
  PROVE  AdminInv'
<1>1. PICK w : w = call[c].wrote
  OBVIOUS
<1>2. /\ call[c].step = "commit" /\ call[c].kind = "provision" /\ kept' = [kept EXCEPT ![c] = w]
      /\ Answer(c, None) /\ tokens' = tokens
  BY <1>1 DEF CommitRealm, At
<1>3. CallFits(c) /\ ProvisionFits(c)
  BY <1>2 DEF AdminInv, CallFits, Provisions
<1>4. IsWhole(c, w) /\ IsRooted(w) /\ w.name = call[c].name /\ w.name \in Names /\ c \in Realms
  BY <1>1, <1>2, <1>3 DEF ProvisionFits, Realms
<1>5. kept[c] = Nothing
  BY <1>2, <1>3 DEF CallFits
<1>6. DOMAIN kept' = Realms /\ kept'[c] = w /\ \A r \in Realms : r # c => kept'[r] = kept[r]
  BY <1>2, <1>4 DEF AdminInv
<1>7. Grown
  BY <1>5, <1>6 DEF Grown
<1>8. \A r \in Realms : RealmFits(r)'
  BY <1>4, <1>6 DEF AdminInv, RealmFits
<1>9. KeyOf(c) = <<"name", w.name>> /\ KeyOf(c) \in Keys /\ holder[KeyOf(c)] = c
  BY <1>2, <1>4, KeyIs DEF Writing, KeyOf
<1>10. \A r \in Realms : kept[r].name # w.name
  <2>1. ~IsTaken(<<"name", w.name>>)
    BY <1>9, AdministrationAssumption DEF AdminInv, HoldFits
  <2> QED
    BY <2>1 DEF IsTaken
<1>11. NamesApart'
  <2>1. NamesApart
    BY DEF AdminInv
  <2> QED
    BY <1>6, <1>10, <2>1 DEF NamesApart
<1>12. \A t \in tokens' : TokenFits(t)'
  BY <1>2, <1>7, TokenStays DEF AdminInv
<1>13. ASSUME NEW v \in Keys, holder[v] # None, holder[v] # c, IsTaken(v)' PROVE IsTaken(v)
  <2>1. PICK d \in Calls : d = holder[v] /\ d # c /\ call[d].step \in Writing /\ v = KeyOf(d)
    BY <1>13 DEF AdminInv, HoldFits
  <2>2. CASE v[1] = "name"
    <3>1. v = <<"name", v[2]>>
      BY <2>2 DEF Keys
    <3>2. PICK r \in Realms : kept'[r].name = v[2]
      BY <1>13, <2>2 DEF IsTaken
    <3>3. r # c
      BY <1>6, <1>9, <1>13, <3>1, <3>2
    <3> QED
      BY <1>6, <2>2, <3>2, <3>3 DEF IsTaken
  <2>3. CASE v[1] # "name"
    <3>1. call[d].kind # "provision"
      BY <2>1, <2>3 DEF KeyOf
    <3>2. CallFits(d)
      BY DEF AdminInv
    <3>3. call[d].step = "commit"
      BY <2>1, <3>1, <3>2 DEF CallFits, Provisions, ProvisionFits, Writing
    <3>4. AdminFits(d)
      BY <3>1, <3>2, <3>3 DEF CallFits
    <3>5. call[d].realm \in Realms /\ kept[call[d].realm].name \in Names
      BY <3>3, <3>4 DEF AdminFits
    <3>6. call[d].realm # c
      BY <1>5, <3>5, NothingIs, SomeAssumption
    <3>7. v[2] = call[d].realm
      BY <2>1, <3>1 DEF KeyOf
    <3> QED
      BY <1>6, <1>13, <2>3, <3>5, <3>6, <3>7 DEF IsTaken
  <2> QED
    BY <2>2, <2>3
<1>14. \A d \in Calls : d # c /\ kept[d] = Nothing => kept'[d] = Nothing
  BY <1>6 DEF Realms
<1> QED
  BY <1>2, <1>6, <1>7, <1>8, <1>11, <1>12, <1>13, <1>14, AnswerStep

-----------------------------------------------------------------------------
(* The steps of a call that names a realm.                                 *)

\* A call that is refused leaves every row as it was committed.
LEMMA RefusedStep ==
  ASSUME AdminInv, NEW c \in Calls, Refuse(c)
  PROVE  AdminInv'
<1>1. RefuseTaken(c, None)
  BY DEF Refuse, RefuseTaken
<1> QED
  BY <1>1, RefuseStep

\* A client asks for a token with a secret it was told.
LEMMA AskTokenStep ==
  ASSUME AdminInv, NEW c \in Calls, NEW n \in Names, NEW i \in Ids, NEW s,
         NEW scopes \in {None} \cup SUBSET Scopes, AskToken(c, n, i, s, scopes)
  PROVE  AdminInv'
<1>1. PICK q : q = [Idle EXCEPT !.kind = "grant", !.step = "resolve", !.name = n, !.client = i,
                                !.token = s, !.asked = scopes]
  OBVIOUS
<1>2. /\ IsCall(q) /\ q.step = "resolve" /\ q.kind = "grant" /\ q.name = n /\ q.asked = scopes
      /\ q.client = i /\ q.taken = None
  BY <1>1 DEF IsCall, Idle
<1>3. /\ call' = [call EXCEPT ![c] = q] /\ UNCHANGED <<kept, holder, tokens>> /\ call[c].step = "idle"
      /\ call'[c] = q
  BY <1>1 DEF AskToken, Go, At, AdminInv
<1>4. IsCall(call[c])' /\ call'[c].taken \in {None, call[c].taken}
  BY <1>2, <1>3 DEF IsCall
<1>5. GrantFits(c)'
  BY <1>2, <1>3 DEF GrantFits
<1>6. CallFits(c)'
  BY <1>2, <1>3, <1>4, <1>5, FitsGrant
<1> QED
  BY <1>2, <1>3, <1>6, MoveStep DEF Writing

\* A call of the administration plane begins, with a token that was given.
LEMMA AskAdministrationStep ==
  ASSUME AdminInv, NEW c \in Calls, NEW n \in Names, NEW t \in tokens, NEW x, NEW w \in Wanted \cup {None},
         AskAdministration(c, n, t, x, w)
  PROVE  AdminInv'
<1>1. PICK q : q = [Idle EXCEPT !.kind = "admin", !.step = "resolve", !.name = n, !.token = t,
                                !.required = x, !.wanted = w, !.stood = StandsNow(n, t, x)]
  OBVIOUS
<1>2. /\ IsCall(q) /\ q.step = "resolve" /\ q.kind = "admin" /\ q.name = n /\ q.token = t
      /\ q.required = x /\ q.wanted = w /\ q.stood = StandsNow(n, t, x) /\ q.client = None /\ q.taken = None
  BY <1>1 DEF IsCall, Idle
<1>3. /\ call' = [call EXCEPT ![c] = q] /\ UNCHANGED <<kept, holder, tokens>> /\ call[c].step = "idle"
      /\ call'[c] = q
  BY <1>1 DEF AskAdministration, Go, At, AdminInv
<1>4. IsCall(call[c])' /\ call'[c].taken \in {None, call[c].taken}
  BY <1>2, <1>3 DEF IsCall
<1>5. TokenFits(t)'
  BY <1>3, SameRealms DEF AdminInv
<1>6. StandsNow(n, t, x)' <=> StandsNow(n, t, x)
  BY <1>3 DEF StandsNow, LocateRealm
<1>7. AdminFits(c)'
  BY <1>2, <1>3, <1>5, <1>6 DEF AdminFits
<1>8. CallFits(c)'
  BY <1>2, <1>3, <1>4, <1>7, FitsAdmin
<1> QED
  BY <1>2, <1>3, <1>8, MoveStep DEF Writing

\* The realm a call names is found enabled, or the call is refused.
LEMMA ResolveRealmStep ==
  ASSUME AdminInv, NEW c \in Calls, ResolveRealm(c)
  PROVE  AdminInv'
<1>1. call[c].step = "resolve"
  BY DEF ResolveRealm, At
<1>2. CASE Refuse(c)
  BY <1>2, RefusedStep
<1>3. CASE ~Refuse(c)
  <2>1. PICK r \in LocateRealm(call[c].name) :
          /\ call' = [call EXCEPT ![c] = [call[c] EXCEPT !.realm = r, !.step = call[c].kind]]
          /\ UNCHANGED <<kept, holder, tokens>>
    BY <1>3 DEF ResolveRealm, Go
  <2>2. r \in Realms /\ kept[r].name = call[c].name /\ kept[r].enabled
    BY <2>1 DEF LocateRealm
  <2>3. PICK q : q = [call[c] EXCEPT !.realm = r, !.step = call[c].kind]
    OBVIOUS
  <2>4. call' = [call EXCEPT ![c] = q] /\ call'[c] = q
    BY <2>1, <2>3 DEF AdminInv
  <2>5. CallFits(c) /\ IsCall(call[c])
    BY DEF AdminInv, CallFits
  <2>6. /\ IsCall(q) /\ q.step = call[c].kind /\ q.kind = call[c].kind /\ q.name = call[c].name
        /\ q.realm = r /\ q.token = call[c].token /\ q.required = call[c].required
        /\ q.wanted = call[c].wanted /\ q.stood = call[c].stood
        /\ q.client = call[c].client /\ q.asked = call[c].asked /\ q.taken = call[c].taken
    BY <2>3, <2>5 DEF IsCall
  <2>7. IsCall(call[c])' /\ call'[c].taken \in {None, call[c].taken}
    BY <2>4, <2>6 DEF IsCall
  <2>8. kept' = kept
    BY <2>1
  <2>9. CASE call[c].kind = "grant"
    <3>1. GrantFits(c)
      BY <1>1, <2>5, <2>9 DEF CallFits
    <3>2. GrantFits(c)'
      BY <2>2, <2>4, <2>6, <2>8, <2>9, <3>1 DEF GrantFits
    <3>3. CallFits(c)'
      BY <1>1, <2>4, <2>6, <2>7, <2>8, <2>9, <3>2, FitsGrant
    <3> QED
      BY <1>1, <2>1, <2>4, <2>6, <2>9, <3>3, MoveStep DEF Writing
  <2>10. CASE call[c].kind # "grant"
    <3>1. AdminFits(c)
      BY <1>1, <2>5, <2>10 DEF CallFits
    <3>2. /\ call[c].kind = "admin" /\ TokenFits(call[c].token) /\ call[c].client = None
          /\ StandsNow(call[c].name, call[c].token, call[c].required) => call[c].stood
      BY <1>1, <3>1 DEF AdminFits
    <3>3. TokenFits(call[c].token)'
      <4>1. call'[c].token = call[c].token
        BY <2>4, <2>6
      <4> QED
        BY <2>8, <3>2, <4>1, SameRealms
    <3>4. MayStill(c)' => call'[c].stood
      <4>1. SUFFICES ASSUME MayStill(c)' PROVE call[c].stood
        BY <2>4, <2>6
      <4>2. StandsNow(call[c].name, call[c].token, call[c].required)
        BY <2>2, <2>4, <2>6, <2>8, <4>1 DEF MayStill, StandsNow, LocateRealm
      <4> QED
        BY <3>2, <4>2
    <3>5. AdminFits(c)'
      BY <2>2, <2>4, <2>6, <2>8, <3>1, <3>2, <3>3, <3>4 DEF AdminFits
    <3>6. CallFits(c)'
      BY <1>1, <2>4, <2>6, <2>7, <2>8, <3>2, <3>5, FitsAdmin
    <3> QED
      BY <1>1, <2>1, <2>4, <2>6, <3>2, <3>6, MoveStep DEF Writing
  <2> QED
    BY <2>9, <2>10
<1> QED
  BY <1>2, <1>3

\* A call is let in for a capability its client holds then.
LEMMA AuthorizeAdminCallStep ==
  ASSUME AdminInv, NEW c \in Calls, AuthorizeAdminCall(c)
  PROVE  AdminInv'
<1>1. call[c].step = "admin"
  BY DEF AuthorizeAdminCall, At
<1>2. CASE Refuse(c)
  BY <1>2, RefusedStep
<1>3. CASE ~Refuse(c)
  <2>1. PICK t, r, client : t = call[c].token /\ r = call[c].realm /\ client = kept[r].clients[t.client]
    OBVIOUS
  <2>2. PICK q : q = [call[c] EXCEPT !.step = "admitted", !.client = t.client, !.caps = client.capabilities]
    OBVIOUS
  <2>3. /\ Verifies(r, t) /\ ~t.session /\ client # None /\ client.enabled
        /\ call[c].required \in client.capabilities
        /\ call' = [call EXCEPT ![c] = q] /\ UNCHANGED <<kept, holder, tokens>>
    <3>1. /\ Verifies(call[c].realm, call[c].token) /\ ~call[c].token.session
          /\ kept[call[c].realm].clients[call[c].token.client] # None
          /\ kept[call[c].realm].clients[call[c].token.client].enabled
      BY <1>3 DEF AuthorizeAdminCall
    <3>2. /\ call[c].required \in kept[call[c].realm].clients[call[c].token.client].capabilities
          /\ Go(c, [call[c] EXCEPT !.step = "admitted", !.client = call[c].token.client,
                                   !.caps = kept[call[c].realm].clients[call[c].token.client].capabilities])
          /\ UNCHANGED <<kept, holder, told, tokens>>
      BY <1>3 DEF AuthorizeAdminCall
    <3> QED
      BY <2>1, <2>2, <3>1, <3>2 DEF Go
  <2>4. call'[c] = q /\ kept' = kept
    BY <2>3 DEF AdminInv
  <2>5. IsCall(call[c]) /\ AdminFits(c)
    BY <1>1 DEF AdminInv, CallFits
  <2>6. /\ IsCall(q) /\ q.step = "admitted" /\ q.kind = call[c].kind /\ q.name = call[c].name
        /\ q.realm = r /\ q.token = t /\ q.required = call[c].required
        /\ q.wanted = call[c].wanted /\ q.stood = call[c].stood
        /\ q.caps = client.capabilities /\ q.taken = call[c].taken
    BY <2>1, <2>2, <2>5 DEF IsCall
  <2>7. IsCall(call[c])' /\ call'[c].taken \in {None, call[c].taken}
    BY <2>4, <2>6 DEF IsCall
  <2>8. /\ r \in Realms /\ kept[r].name = call[c].name /\ TokenFits(t) /\ (MayStill(c) => call[c].stood)
        /\ call[c].kind = "admin" /\ call[c].wanted \in Wanted \cup {None} /\ call[c].name \in Names
    BY <1>1, <2>1, <2>5 DEF AdminFits
  <2>9. t.client \in Ids /\ TokenFits(t)' /\ t.realm = r /\ t.issuer = kept[r].name
    BY <2>3, <2>4, <2>8, SameRealms DEF TokenFits, Token, Verifies
  <2>10. MayStill(c)
    BY <2>1, <2>3, <2>8, <2>9 DEF MayStill
  <2>11. client.capabilities \subseteq kept[r].root
    <3>1. IsRooted(kept[r])
      BY <2>1, <2>3, <2>8, <2>9, ThereIs
    <3> QED
      BY <2>1, <2>3, <2>9, <3>1 DEF IsRooted
  <2>12. AdminFits(c)'
    BY <2>3, <2>4, <2>6, <2>8, <2>9, <2>10, <2>11 DEF AdminFits
  <2>13. CallFits(c)'
    BY <1>1, <2>4, <2>6, <2>7, <2>12, FitsAdmin
  <2> QED
    BY <1>1, <2>3, <2>6, <2>13, MoveStep DEF Writing
<1> QED
  BY <1>2, <1>3

\* A client is written that holds no more than its maker did, for its own work alone.
LEMMA CreateClientStep ==
  ASSUME AdminInv, NEW c \in Calls, CreateClient(c)
  PROVE  AdminInv'
<1>1. call[c].step = "admitted" /\ call[c].wanted # None
  BY DEF CreateClient, At
<1>2. CASE Refuse(c)
  BY <1>2, RefusedStep
<1>3. CASE ~Refuse(c)
  <2>1. PICK w, r : w = call[c].wanted /\ r = call[c].realm
    OBVIOUS
  <2>2. w.capabilities \subseteq call[c].caps /\ Sound(w) /\ Insert(c, <<"client", r, w.id>>, Nothing, "commit")
    BY <1>3, <2>1 DEF CreateClient
  <2>3. IsCall(call[c]) /\ AdminFits(c)
    BY <1>1 DEF AdminInv, CallFits
  <2>4. /\ call[c].kind = "admin" /\ call[c].name \in Names /\ TokenFits(call[c].token) /\ w \in Wanted
        /\ r \in Realms /\ kept[r].name = call[c].name /\ call[c].caps \subseteq kept[r].root
        /\ call[c].stood /\ ~call[c].token.session /\ call[c].token.realm = r
    BY <1>1, <2>1, <2>3 DEF AdminFits
  <2>5. PICK u : u = <<"client", r, w.id>>
    OBVIOUS
  <2>6. u \in Keys
    BY <2>4, <2>5, AdministrationAssumption DEF Keys
  <2>7. holder[u] = None
    BY <2>2, <2>5 DEF Insert
  <2>8. CASE IsTaken(u)
    BY <2>2, <2>5, <2>6, <2>8, RefuseStep DEF Insert
  <2>9. CASE ~IsTaken(u)
    <3>1. PICK q : q = [call[c] EXCEPT !.wrote = Nothing, !.step = "commit"]
      OBVIOUS
    <3>2. /\ call' = [call EXCEPT ![c] = q] /\ UNCHANGED <<kept, tokens>> /\ holder' = [holder EXCEPT ![u] = c]
          /\ call'[c] = q
      BY <2>2, <2>5, <2>9, <3>1 DEF Insert, Go, AdminInv
    <3>3. /\ IsCall(q) /\ q.step = "commit" /\ q.kind = call[c].kind /\ q.name = call[c].name
          /\ q.realm = r /\ q.token = call[c].token /\ q.wanted = w
          /\ q.stood = call[c].stood /\ q.taken = call[c].taken
      BY <2>1, <2>3, <3>1 DEF IsCall
    <3>4. IsCall(call[c])' /\ call'[c].taken \in {None, call[c].taken}
      BY <3>2, <3>3 DEF IsCall
    <3>5. TokenFits(call[c].token)'
      <4>1. call'[c].token = call[c].token
        BY <3>2, <3>3
      <4> QED
        BY <2>4, <3>2, <4>1, SameRealms
    <3>6. AdminFits(c)'
      BY <2>2, <2>4, <3>2, <3>3, <3>5 DEF AdminFits
    <3>7. CallFits(c)'
      BY <1>1, <3>2, <3>3, <3>4, <3>6, FitsAdmin
    <3>8. KeyOf(c)' = u
      BY <2>4, <2>5, <3>2, <3>3 DEF KeyOf
    <3> QED
      BY <1>1, <2>6, <2>7, <2>9, <3>2, <3>3, <3>7, <3>8, InsertStep DEF Writing
  <2> QED
    BY <2>8, <2>9
<1> QED
  BY <1>2, <1>3

\* The commit of a client: its identifier was held for it, and it is given
\* no more than the one who asked was let in with.
LEMMA CommitClientStep ==
  ASSUME AdminInv, NEW c \in Calls, CommitClient(c)
  PROVE  AdminInv'
<1>1. PICK w, r : w = call[c].wanted /\ r = call[c].realm
  OBVIOUS
<1>2. PICK client : client = NewClient(c, w)
  OBVIOUS
<1>3. PICK new : new = WithClient(kept[r], w.id, client)
  OBVIOUS
<1>4. call[c].step = "commit" /\ call[c].kind = "admin"
  BY DEF CommitClient, At
<1>5. AdminFits(c)
  BY <1>4 DEF AdminInv, CallFits
<1>6. /\ r \in Realms /\ kept[r].name = call[c].name /\ call[c].name \in Names /\ c \in Realms
      /\ w \in Wanted /\ Sound(w) /\ w.capabilities \subseteq kept[r].root
  BY <1>1, <1>4, <1>5 DEF AdminFits, Realms
<1>7. kept' = [kept EXCEPT ![r] = new] /\ Answer(c, None) /\ tokens' = tokens
  BY <1>1, <1>2, <1>3, <1>6 DEF CommitClient, AdminInv
<1>8. /\ w.scopes \in SUBSET Scopes /\ w.capabilities \in SUBSET Capabilities /\ w.id \in Ids
      /\ w.app \in BOOLEAN /\ w.public \in BOOLEAN
  BY <1>6, AdministrationAssumption
<1>9. /\ client \in Clients /\ client # None /\ client.capabilities = w.capabilities
      /\ client.app = w.app
  BY <1>2, <1>6, <1>8, NewClientIs
<1>10. kept[r] # Nothing /\ IsWhole(r, kept[r]) /\ IsRooted(kept[r])
  BY <1>6, ThereIs, SomeAssumption
<1>11. client.capabilities \subseteq kept[r].root /\ (client.app => client.capabilities = {})
  BY <1>6, <1>9 DEF Sound
<1>12. /\ IsWhole(r, new) /\ IsRooted(new) /\ new.name = kept[r].name /\ new.root = kept[r].root
       /\ new.enabled = kept[r].enabled /\ new.clients[w.id] = client
       /\ \A j \in Ids : j # w.id => new.clients[j] = kept[r].clients[j]
  BY <1>3, <1>6, <1>8, <1>9, <1>10, <1>11, WithClientFits
<1>13. DOMAIN kept' = Realms /\ kept'[r] = new /\ \A q \in Realms : q # r => kept'[q] = kept[q]
  BY <1>6, <1>7 DEF AdminInv
<1>14. KeyOf(c) = <<"client", r, w.id>> /\ KeyOf(c) \in Keys /\ holder[KeyOf(c)] = c
  BY <1>1, <1>4, KeyIs DEF Writing, KeyOf
<1>15. kept[r].clients[w.id] = None
  <2>1. ~IsTaken(<<"client", r, w.id>>)
    BY <1>14, AdministrationAssumption DEF AdminInv, HoldFits
  <2> QED
    BY <2>1 DEF IsTaken
<1>16. Grown
  BY <1>12, <1>13, <1>15 DEF Grown
<1>17. \A q \in Realms : RealmFits(q)'
  BY <1>12, <1>13 DEF AdminInv, RealmFits
<1>18. NamesApart'
  <2>1. NamesApart
    BY DEF AdminInv
  <2>2. \A q \in Realms : kept'[q].name = kept[q].name
    BY <1>12, <1>13
  <2> QED
    BY <2>1, <2>2 DEF NamesApart
<1>19. \A t \in tokens' : TokenFits(t)'
  BY <1>7, <1>16, TokenStays DEF AdminInv
<1>20. ASSUME NEW v \in Keys, holder[v] # None, holder[v] # c, IsTaken(v)' PROVE IsTaken(v)
  <2>1. CASE v[1] = "name"
    BY <1>12, <1>13, <1>20, <2>1 DEF IsTaken
  <2>2. CASE v[1] # "name"
    <3>1. v = <<"client", v[2], v[3]>> /\ v[2] \in Realms /\ v[3] \in Ids
      BY <2>2 DEF Keys
    <3>2. ~(v[2] = r /\ v[3] = w.id)
      BY <1>14, <1>20, <3>1
    <3>3. kept'[v[2]].clients[v[3]] # None
      BY <1>20, <2>2 DEF IsTaken
    <3>4. kept[v[2]].clients[v[3]] # None
      BY <1>12, <1>13, <3>1, <3>2, <3>3
    <3> QED
      BY <2>2, <3>4 DEF IsTaken
  <2> QED
    BY <2>1, <2>2
<1>21. \A d \in Calls : d # c /\ kept[d] = Nothing => kept'[d] = Nothing
  BY <1>10, <1>13 DEF Realms
<1> QED
  BY <1>7, <1>13, <1>16, <1>17, <1>18, <1>19, <1>20, <1>21, AnswerStep

-----------------------------------------------------------------------------
(* Tokens, and what an operator changes by hand.                           *)

\* A token given to a client that is there, of scopes it is allowed.
LEMMA GivenFits ==
  ASSUME AdminInv, NEW r \in Realms, NEW i \in Ids, kept[r].clients[i] # None, NEW scopes,
         scopes \subseteq kept[r].clients[i].scopes, NEW session \in BOOLEAN
  PROVE  TokenFits(AccessToken(r, i, scopes, session))
<1>1. kept[r].clients[i] \in Clients /\ kept[r].name \in Names
  BY ThereIs
<1>2. scopes \in SUBSET Scopes
  BY <1>1 DEF Clients
<1>3. PICK t : t = AccessToken(r, i, scopes, session)
  OBVIOUS
<1>4. /\ t.realm = r /\ t.issuer = kept[r].name /\ t.client = i
      /\ t \in Token
  BY <1>1, <1>2, <1>3 DEF AccessToken, Token
<1> QED
  BY <1>3, <1>4 DEF TokenFits

\* A service is given a token of the scopes its client is allowed.
LEMMA GrantToServiceStep ==
  ASSUME AdminInv, NEW c \in Calls, GrantToService(c)
  PROVE  AdminInv'
<1>1. CASE Refuse(c)
  BY <1>1, RefusedStep
<1>2. CASE ~Refuse(c)
  <2>1. PICK r, i : r = call[c].realm /\ i = call[c].client
    OBVIOUS
  <2>2. PICK granted : granted = Narrowed(call[c].asked, kept[r].clients[i].scopes)
    OBVIOUS
  <2>3. /\ call[c].step = "grant" /\ kept[r].clients[i] # None
        /\ granted \subseteq kept[r].clients[i].scopes
        /\ tokens' = tokens \cup {AccessToken(r, i, granted, FALSE)}
        /\ Answer(c, None) /\ kept' = kept
    BY <1>2, <2>1, <2>2 DEF GrantToService, At
  <2>4. GrantFits(c)
    BY <2>3 DEF AdminInv, CallFits
  <2>5. r \in Realms /\ i \in Ids
    BY <2>1, <2>3, <2>4 DEF GrantFits
  <2>6. TokenFits(AccessToken(r, i, granted, FALSE))
    <3>1. PICK session \in BOOLEAN : session = FALSE
      OBVIOUS
    <3>2. TokenFits(AccessToken(r, i, granted, session))
      BY <2>3, <2>5, GivenFits
    <3> QED
      BY <3>1, <3>2
  <2>7. /\ Grown /\ DOMAIN kept' = Realms /\ \A q \in Realms : RealmFits(q)'
        /\ NamesApart' /\ \A t : TokenFits(t)' <=> TokenFits(t)
        /\ \A v \in Keys : IsTaken(v)' <=> IsTaken(v)
    BY <2>3, SameRealms
  <2>8. \A t \in tokens' : TokenFits(t)'
    BY <2>3, <2>6, <2>7 DEF AdminInv
  <2>9. \A d \in Calls : d # c /\ kept[d] = Nothing => kept'[d] = Nothing
    BY <2>3
  <2>10. \A v \in Keys : holder[v] # None /\ holder[v] # c /\ IsTaken(v)' => IsTaken(v)
    BY <2>7
  <2> QED
    BY <2>3, <2>7, <2>8, <2>9, <2>10, AnswerStep
<1> QED
  BY <1>1, <1>2

\* A step of no call.
LEMMA StandStep ==
  ASSUME AdminInv, Grown, call' = call, holder' = holder, DOMAIN kept' = Realms,
         \A r \in Realms : RealmFits(r)', NamesApart', \A t \in tokens' : TokenFits(t)',
         \A d \in Calls : kept[d] = Nothing => kept'[d] = Nothing,
         \A v \in Keys : IsTaken(v)' => IsTaken(v)
  PROVE  AdminInv'
<1>1. \A d \in Calls : KeyOf(d)' = KeyOf(d)
  BY DEF KeyOf
<1>2. ASSUME NEW d \in Calls PROVE CallFits(d)' /\ HasKey(d)'
  <2>1. CallFits(d)'
    BY CallStands
  <2>2. HasKey(d)
    BY DEF AdminInv
  <2> QED
    BY <1>1, <2>1, <2>2 DEF HasKey
<1>3. ASSUME NEW v \in Keys PROVE HoldFits(v)'
  <2>1. HoldFits(v)
    BY DEF AdminInv
  <2> QED
    BY <1>1, <2>1 DEF HoldFits
<1>4. DOMAIN call' = Calls /\ DOMAIN holder' = Keys
  BY DEF AdminInv
<1> QED
  BY <1>2, <1>3, <1>4 DEF AdminInv

\* A person is given a token, which carries their session.
LEMMA GrantToPersonStep ==
  ASSUME AdminInv, NEW r \in Realms, NEW i \in Ids, NEW scopes \in SUBSET Scopes, GrantToPerson(r, i, scopes)
  PROVE  AdminInv'
<1>1. /\ kept[r].clients[i] # None /\ scopes \subseteq kept[r].clients[i].scopes
      /\ tokens' = tokens \cup {AccessToken(r, i, scopes, TRUE)}
      /\ kept' = kept /\ holder' = holder /\ call' = call
  BY DEF GrantToPerson
<1>2. TokenFits(AccessToken(r, i, scopes, TRUE))
  <2>1. PICK session \in BOOLEAN : session = TRUE
    OBVIOUS
  <2>2. TokenFits(AccessToken(r, i, scopes, session))
    BY <1>1, GivenFits
  <2> QED
    BY <2>1, <2>2
<1>3. /\ Grown /\ DOMAIN kept' = Realms /\ \A q \in Realms : RealmFits(q)'
      /\ NamesApart' /\ \A t : TokenFits(t)' <=> TokenFits(t)
      /\ \A v \in Keys : IsTaken(v)' <=> IsTaken(v)
  BY <1>1, SameRealms
<1>4. \A t \in tokens' : TokenFits(t)'
  BY <1>1, <1>2, <1>3 DEF AdminInv
<1> QED
  BY <1>1, <1>3, <1>4, StandStep

\* A realm or a client that is there is given less.
LEMMA LessenStep ==
  ASSUME AdminInv, NEW r \in Realms, NEW new, kept' = [kept EXCEPT ![r] = new], UNCHANGED <<holder, call, tokens>>,
         kept[r] # Nothing, IsWhole(r, new), IsRooted(new), new.name = kept[r].name, new.root = kept[r].root,
         new.enabled => kept[r].enabled,
         \A i \in Ids : /\ kept[r].clients[i] = None => new.clients[i] = None
                        /\ kept[r].clients[i] # None =>
                             /\ new.clients[i] # None
                             /\ new.clients[i].capabilities \subseteq kept[r].clients[i].capabilities
                             /\ new.clients[i].enabled => kept[r].clients[i].enabled
  PROVE  AdminInv'
<1>1. DOMAIN kept' = Realms /\ kept'[r] = new /\ \A q \in Realms : q # r => kept'[q] = kept[q]
  BY DEF AdminInv
<1>2. Grown
  BY <1>1 DEF Grown
<1>3. \A q \in Realms : RealmFits(q)'
  BY <1>1 DEF AdminInv, RealmFits
<1>4. \A q \in Realms : kept'[q].name = kept[q].name
  BY <1>1
<1>5. NamesApart'
  <2>1. NamesApart
    BY DEF AdminInv
  <2> QED
    BY <1>4, <2>1 DEF NamesApart
<1>6. \A t \in tokens' : TokenFits(t)'
  BY <1>2, TokenStays DEF AdminInv
<1>7. ASSUME NEW v \in Keys, IsTaken(v)' PROVE IsTaken(v)
  <2>1. CASE v[1] = "name"
    BY <1>4, <1>7, <2>1 DEF IsTaken
  <2>2. CASE v[1] # "name"
    <3>1. v[2] \in Realms /\ v[3] \in Ids
      BY <2>2 DEF Keys
    <3>2. kept'[v[2]].clients[v[3]] # None
      BY <1>7, <2>2 DEF IsTaken
    <3> QED
      BY <1>1, <2>2, <3>1, <3>2 DEF IsTaken
  <2> QED
    BY <2>1, <2>2
<1>8. \A d \in Calls : kept[d] = Nothing => kept'[d] = Nothing
  BY <1>1 DEF Realms
<1> QED
  BY <1>1, <1>2, <1>3, <1>5, <1>6, <1>7, <1>8, StandStep

\* An operator disables a realm.
LEMMA DisableRealmStep ==
  ASSUME AdminInv, NEW r \in Realms, DisableRealm(r)
  PROVE  AdminInv'
<1>1. PICK new : new = [kept[r] EXCEPT !.enabled = FALSE]
  OBVIOUS
<1>2. /\ kept' = [kept EXCEPT ![r] = new] /\ UNCHANGED <<holder, call, tokens>> /\ kept[r].enabled
  BY <1>1 DEF DisableRealm
<1>3. kept[r] # Nothing /\ kept[r] \in Realm /\ IsWhole(r, kept[r]) /\ IsRooted(kept[r])
  BY <1>2, ThereIs
<1>4. /\ new \in Realm /\ new.tenant = kept[r].tenant /\ new.name = kept[r].name /\ ~new.enabled
      /\ new.data = kept[r].data /\ new.signing = kept[r].signing /\ new.clients = kept[r].clients
      /\ new.chain = kept[r].chain /\ new.root = kept[r].root
  BY <1>1, <1>3 DEF Realm
<1>5. IsWhole(r, new)
  BY <1>3, <1>4 DEF IsWhole
<1>6. IsRooted(new)
  BY <1>3, <1>4 DEF IsRooted
<1> QED
  BY <1>2, <1>3, <1>4, <1>5, <1>6, LessenStep

\* One client of a realm is given less.
LEMMA LessenClientStep ==
  ASSUME AdminInv, NEW r \in Realms, NEW i \in Ids, kept[r].clients[i] # None, NEW client \in Clients,
         NEW clients, clients = [kept[r].clients EXCEPT ![i] = client],
         client.capabilities \subseteq kept[r].clients[i].capabilities, client.app = kept[r].clients[i].app,
         client.enabled => kept[r].clients[i].enabled,
         NEW new, new = [kept[r] EXCEPT !.clients = clients],
         kept' = [kept EXCEPT ![r] = new], UNCHANGED <<holder, call, tokens>>
  PROVE  AdminInv'
<1>1. /\ kept[r] # Nothing /\ kept[r] \in Realm /\ IsWhole(r, kept[r]) /\ IsRooted(kept[r])
      /\ kept[r].clients \in [Ids -> Clients \cup {None}]
  BY ThereIs DEF Realm
<1>2. /\ clients \in [Ids -> Clients \cup {None}] /\ clients[i] = client
      /\ \A j \in Ids : j # i => clients[j] = kept[r].clients[j]
  BY <1>1
<1>3. /\ new \in Realm /\ new.tenant = kept[r].tenant /\ new.name = kept[r].name /\ new.enabled = kept[r].enabled
      /\ new.data = kept[r].data /\ new.signing = kept[r].signing /\ new.clients = clients
      /\ new.chain = kept[r].chain /\ new.root = kept[r].root
  BY <1>1, <1>2 DEF Realm
<1>4. IsWhole(r, new)
  BY <1>1, <1>3 DEF IsWhole
<1>5. IsRooted(new)
  <2>1. /\ kept[r].clients[i].capabilities \subseteq kept[r].root
        /\ kept[r].clients[i].app => kept[r].clients[i].capabilities = {}
    BY <1>1 DEF IsRooted
  <2>2. client.capabilities \subseteq kept[r].root /\ (client.app => client.capabilities = {})
    BY <2>1
  <2> QED
    BY <1>1, <1>2, <1>3, <2>2 DEF IsRooted
<1>6. client # None
  BY SomeAssumption
<1>7. \A j \in Ids : /\ kept[r].clients[j] = None => new.clients[j] = None
                     /\ kept[r].clients[j] # None =>
                          /\ new.clients[j] # None
                          /\ new.clients[j].capabilities \subseteq kept[r].clients[j].capabilities
                          /\ new.clients[j].enabled => kept[r].clients[j].enabled
  BY <1>2, <1>3, <1>6
<1>8. new.enabled => kept[r].enabled
  BY <1>3
<1>9. kept[r] # Nothing /\ new.name = kept[r].name /\ new.root = kept[r].root
  BY <1>1, <1>3
<1> QED
  BY <1>4, <1>5, <1>7, <1>8, <1>9, LessenStep

\* An operator takes a capability from a client.
LEMMA TakeAwayStep ==
  ASSUME AdminInv, NEW r \in Realms, NEW i \in Ids, NEW x \in Capabilities, TakeAway(r, i, x)
  PROVE  AdminInv'
<1>1. PICK client : client = [kept[r].clients[i] EXCEPT !.capabilities = kept[r].clients[i].capabilities \ {x}]
  OBVIOUS
<1>2. PICK clients : clients = [kept[r].clients EXCEPT ![i] = client]
  OBVIOUS
<1>3. PICK new : new = [kept[r] EXCEPT !.clients = clients]
  OBVIOUS
<1>4. kept[r].clients[i] # None /\ kept[r].clients[i] \in Clients
  BY ThereIs DEF TakeAway
<1>5. /\ client \in Clients /\ client.capabilities = kept[r].clients[i].capabilities \ {x}
      /\ client.app = kept[r].clients[i].app /\ client.enabled = kept[r].clients[i].enabled
  BY <1>1, <1>4 DEF Clients
<1>6. kept' = [kept EXCEPT ![r] = new] /\ UNCHANGED <<holder, call, tokens>>
  BY <1>1, <1>2, <1>3 DEF TakeAway
<1> QED
  BY <1>2, <1>3, <1>4, <1>5, <1>6, LessenClientStep

\* An operator disables a client.
LEMMA DisableClientStep ==
  ASSUME AdminInv, NEW r \in Realms, NEW i \in Ids, DisableClient(r, i)
  PROVE  AdminInv'
<1>1. PICK client : client = [kept[r].clients[i] EXCEPT !.enabled = FALSE]
  OBVIOUS
<1>2. PICK clients : clients = [kept[r].clients EXCEPT ![i] = client]
  OBVIOUS
<1>3. PICK new : new = [kept[r] EXCEPT !.clients = clients]
  OBVIOUS
<1>4. kept[r].clients[i] # None /\ kept[r].clients[i] \in Clients /\ kept[r].clients[i].enabled
  BY ThereIs DEF DisableClient
<1>5. /\ client \in Clients /\ client.capabilities = kept[r].clients[i].capabilities
      /\ client.app = kept[r].clients[i].app
  BY <1>1, <1>4 DEF Clients
<1>6. kept' = [kept EXCEPT ![r] = new] /\ UNCHANGED <<holder, call, tokens>>
  BY <1>1, <1>2, <1>3 DEF DisableClient
<1> QED
  BY <1>2, <1>3, <1>4, <1>5, <1>6, LessenClientStep

-----------------------------------------------------------------------------
(* The invariant holds, and what it says.                                  *)

\* What a realm is founded with.
LEMMA FoundedFits ==
  ASSUME NEW r \in Founded, NEW caps \in SUBSET Capabilities, NEW new, new = FoundedRealm(r, caps)
  PROVE  /\ IsWhole(r, new) /\ IsRooted(new) /\ new.name = NameOf[r] /\ new.clients[Root] # None
<1>1. NameOf[r] \in Names /\ r \in Realms
  BY AdministrationAssumption DEF Realms
<1>2. [WithKeys(r, Begun(NameOf[r])) EXCEPT !.root = caps]
        = WithKeys(r, [Nothing EXCEPT !.tenant = TRUE, !.name = NameOf[r], !.enabled = TRUE,
                                      !.chain = <<"realm.created">>, !.root = caps])
  BY DEF WithKeys, Begun, Nothing
<1>3. new = WithClient([WithKeys(r, Begun(NameOf[r])) EXCEPT !.root = caps], Root, NewClient(r, FirstClient(caps)))
  BY <1>2 DEF FoundedRealm
<1> QED
  BY <1>1, <1>3, FirstClientFits

\* Before anything is asked: nothing is kept and nothing held.
LEMMA InitFits == Init => AdminInv
<1> SUFFICES ASSUME Init PROVE AdminInv
  OBVIOUS
<1>1. PICK caps \in [Founded -> Roots] :
        kept = [r \in Realms |-> IF r \in Founded THEN FoundedRealm(r, caps[r]) ELSE Nothing]
  BY DEF Init
<1>2. /\ holder = [u \in Keys |-> None] /\ call = [c \in Calls |-> Idle]
      /\ tokens = {AccessToken(r, Root, {"admin"}, FALSE) : r \in Founded}
  BY DEF Init
<1>3. ASSUME NEW r \in Founded
      PROVE  /\ IsWhole(r, kept[r]) /\ IsRooted(kept[r]) /\ kept[r].name = NameOf[r]
             /\ kept[r].clients[Root] # None /\ r \in Realms /\ NameOf[r] \in Names
  <2>1. r \in Realms /\ caps[r] \in SUBSET Capabilities /\ NameOf[r] \in Names
    BY AdministrationAssumption DEF Realms
  <2>2. kept[r] = FoundedRealm(r, caps[r])
    BY <1>1, <2>1
  <2> QED
    BY <2>1, <2>2, FoundedFits
<1>4. \A r \in Realms : r \notin Founded => kept[r] = Nothing
  BY <1>1
<1>5. \A r \in Realms : RealmFits(r)
  BY <1>3, <1>4 DEF RealmFits
<1>6. NamesApart
  <2>1. \A r \in Realms : kept[r].name # None => r \in Founded /\ kept[r].name = NameOf[r]
    BY <1>3, <1>4, NothingIs
  <2> QED
    BY <2>1, AdministrationAssumption DEF NamesApart
<1>7. \A t \in tokens : TokenFits(t)
  <2>1. SUFFICES ASSUME NEW r \in Founded PROVE TokenFits(AccessToken(r, Root, {"admin"}, FALSE))
    BY <1>2
  <2>2. PICK t : t = AccessToken(r, Root, {"admin"}, FALSE)
    OBVIOUS
  <2>3. Root \in Ids /\ {"admin"} \in SUBSET Scopes /\ kept[r].name \in Names /\ r \in Realms
    BY <1>3, AdministrationAssumption
  <2>4. t \in Token /\ t.realm = r /\ t.issuer = kept[r].name /\ t.client = Root
    BY <2>2, <2>3 DEF AccessToken, Token
  <2> QED
    BY <1>3, <2>2, <2>4 DEF TokenFits
<1>8. ASSUME NEW c \in Calls PROVE CallFits(c) /\ HasKey(c)
  <2>1. IsCall(Idle) /\ Idle.step = "idle" /\ Idle.client = None /\ Idle.taken = None
    BY DEF IsCall, Idle
  <2>2. call[c] = Idle
    BY <1>2
  <2>3. kept[c] = Nothing
    BY <1>4, AdministrationAssumption DEF Realms
  <2>4. /\ IsCall(call[c]) /\ call[c].step = "idle" /\ call[c].client = None /\ call[c].taken = None
    BY <2>1, <2>2
  <2>5. ~Provisions(c)
    BY <2>4 DEF Provisions
  <2> QED
    BY <2>3, <2>4, <2>5 DEF CallFits, HasKey, Writing
<1>9. \A u \in Keys : HoldFits(u)
  BY <1>2 DEF HoldFits
<1> QED
  BY <1>1, <1>2, <1>5, <1>6, <1>7, <1>8, <1>9 DEF AdminInv

\* Every step keeps the invariant.
LEMMA NextFits == AdminInv /\ [Next]_vars => AdminInv'
<1> SUFFICES ASSUME AdminInv, [Next]_vars PROVE AdminInv'
  OBVIOUS
<1>1. CASE UNCHANGED vars
  <2>1. kept' = kept /\ holder' = holder /\ call' = call /\ tokens' = tokens
    BY <1>1 DEF vars
  <2>2. /\ Grown /\ DOMAIN kept' = Realms /\ \A q \in Realms : RealmFits(q)'
        /\ NamesApart' /\ \A t : TokenFits(t)' <=> TokenFits(t)
        /\ \A v \in Keys : IsTaken(v)' <=> IsTaken(v)
    BY <2>1, SameRealms
  <2>3. \A t \in tokens' : TokenFits(t)'
    BY <2>1, <2>2 DEF AdminInv
  <2> QED
    BY <2>1, <2>2, <2>3, StandStep
<1>2. ASSUME NEW c \in Calls, Ask(c) PROVE AdminInv'
  <2>1. CASE \E n \in Names, first \in Roots \cup {None} : Provision(c, n, first)
    BY <2>1, ProvisionStep
  <2>2. CASE \E n \in Names, i \in Ids, s \in told, scopes \in {None} \cup SUBSET Scopes :
               AskToken(c, n, i, s, scopes)
    BY <2>2, AskTokenStep
  <2>3. CASE \E n \in Names, t \in tokens, x \in Capabilities : AskAdministration(c, n, t, x, None)
    <3>1. PICK n \in Names, t \in tokens, x \in Capabilities : AskAdministration(c, n, t, x, None)
      BY <2>3
    <3>2. None \in Wanted \cup {None}
      OBVIOUS
    <3> QED
      BY <3>1, <3>2, AskAdministrationStep
  <2>4. CASE \E n \in Names, t \in tokens, w \in Wanted : AskAdministration(c, n, t, "client:write", w)
    <3>1. PICK n \in Names, t \in tokens, w \in Wanted : AskAdministration(c, n, t, "client:write", w)
      BY <2>4
    <3>2. w \in Wanted \cup {None}
      BY <3>1
    <3> QED
      BY <3>1, <3>2, AskAdministrationStep
  <2> QED
    BY <1>2, <2>1, <2>2, <2>3, <2>4 DEF Ask
<1>3. ASSUME NEW c \in Calls, Step(c) PROVE AdminInv'
  <2>1. CASE InsertTenant(c)
    BY <2>1, InsertTenantStep
  <2>2. CASE InsertRealm(c)
    BY <2>2, InsertRealmStep
  <2>3. CASE CreateFirstKeys(c)
    BY <2>3, CreateFirstKeysStep
  <2>4. CASE RegisterFirst(c)
    BY <2>4, RegisterFirstStep
  <2>5. CASE CommitRealm(c)
    BY <2>5, CommitRealmStep
  <2>6. CASE ResolveRealm(c)
    BY <2>6, ResolveRealmStep
  <2>7. CASE GrantToService(c)
    BY <2>7, GrantToServiceStep
  <2>8. CASE AuthorizeAdminCall(c)
    BY <2>8, AuthorizeAdminCallStep
  <2>9. CASE CreateClient(c)
    BY <2>9, CreateClientStep
  <2>10. CASE CommitClient(c)
    BY <2>10, CommitClientStep
  <2>11. CASE ServeCall(c) \/ Fail(c)
    BY <2>11, RefusedStep DEF ServeCall, Fail
  <2> QED
    BY <1>3, <2>1, <2>2, <2>3, <2>4, <2>5, <2>6, <2>7, <2>8, <2>9, <2>10, <2>11 DEF Step
<1>4. CASE SignedIn
  BY <1>4, GrantToPersonStep DEF SignedIn
<1>5. ASSUME ByHand PROVE AdminInv'
  <2>1. PICK r \in Realms : \/ DisableRealm(r)
                            \/ \E i \in Ids : DisableClient(r, i)
                            \/ \E i \in Ids, x \in Capabilities : TakeAway(r, i, x)
    BY <1>5 DEF ByHand
  <2> QED
    BY <2>1, DisableRealmStep, DisableClientStep, TakeAwayStep
<1> QED
  BY <1>1, <1>2, <1>3, <1>4, <1>5 DEF Next

\* What is committed or is being answered is what the invariant says it is.
LEMMA InvIsInvariant == Spec => []AdminInv
<1> QED
  BY InitFits, NextFits, PTL DEF Spec

\* A realm that fits is whole, and a call was told the truth.
LEMMA InvIsWhole == AdminInv => RealmsAreWhole
<1> SUFFICES ASSUME AdminInv PROVE RealmsAreWhole
  OBVIOUS
<1>1. ASSUME NEW r \in Realms, kept[r].name # None
      PROVE  /\ kept[r].tenant /\ Opens(r)
             /\ SubSeq(kept[r].chain, 1, 2) = <<"realm.created", "signing_key.created">>
  <2>0. kept[r] # Nothing
    BY <1>1, NothingIs
  <2>1. IsWhole(r, kept[r])
    BY <2>0, ThereIs
  <2>2. Opens(r)
    BY <2>1 DEF IsWhole, Opens, SigningKeyOf
  <2>3. PICK chain : chain = kept[r].chain
    OBVIOUS
  <2>4. chain \in Seq(Events) /\ Len(chain) >= 2 /\ chain[1] = "realm.created" /\ chain[2] = "signing_key.created"
    BY <2>1, <2>3 DEF IsWhole, Realm
  <2>5. PICK begin : begin = SubSeq(chain, 1, 2)
    OBVIOUS
  <2>6. 1 \in 1 .. Len(chain) + 1 /\ 2 \in 0 .. Len(chain) /\ Len(chain) \in Nat
    BY <2>4
  <2>7. begin \in Seq(Events) /\ Len(begin) = 2 /\ begin[1] = chain[1] /\ begin[2] = chain[2]
    BY <2>4, <2>5, <2>6, SubSeqProperties
  <2>8. begin = <<begin[1], begin[2]>>
    BY <2>7
  <2> QED
    BY <2>1, <2>2, <2>3, <2>4, <2>5, <2>7, <2>8 DEF IsWhole
<1>2. RealmIsWhole
  BY <1>1 DEF RealmIsWhole
<1>3. TakenIsTaken
  BY DEF AdminInv, NamesApart, CallFits, TakenIsTaken
<1> QED
  BY <1>2, <1>3 DEF RealmsAreWhole

\* A client that fits is within its realm's root, and a call that fits was let
\* through on a right that stood.
LEMMA InvIsHeld == AdminInv => RightsAreHeld
<1> SUFFICES ASSUME AdminInv PROVE RightsAreHeld
  OBVIOUS
<1>1. NoneBeyondTheRoot
  <2>1. SUFFICES ASSUME NEW r \in Realms, NEW i \in Ids, kept[r].clients[i] # None
                 PROVE  /\ kept[r].clients[i].capabilities \subseteq kept[r].root
                        /\ kept[r].clients[i].app => kept[r].clients[i].capabilities = {}
    BY DEF NoneBeyondTheRoot
  <2>2. IsRooted(kept[r])
    BY <2>1, ThereIs
  <2> QED
    BY <2>1, <2>2 DEF IsRooted
<1>2. ASSUME NEW c \in Calls, call[c].kind = "admin", call[c].client # None
      PROVE  call[c].stood /\ ~call[c].token.session /\ call[c].token.realm = call[c].realm
  <2>1. CallFits(c)
    BY DEF AdminInv
  <2>2. call[c].step \in {"admitted", "commit"} /\ AdminFits(c)
    BY <1>2, <2>1 DEF CallFits, Provisions, ProvisionFits, GrantFits, AdminFits
  <2> QED
    BY <2>2 DEF AdminFits
<1>3. AdmittedOnItsOwnRight
  BY <1>2 DEF AdmittedOnItsOwnRight
<1> QED
  BY <1>1, <1>3 DEF RightsAreHeld

-----------------------------------------------------------------------------
(* Theorems.                                                               *)

\* Whatever provisions, refuses, fails or is not heard: a realm that has a
\* name has its tenant, a key that opens and its chain, its name leads to it
\* alone, and a call is told that a name or an identifier is taken only when
\* it is, for good.
THEOREM RealmsStayWhole == Spec => []RealmsAreWhole
<1> QED
  BY InvIsInvariant, InvIsWhole, PTL

\* However clients create clients and whatever is taken away meanwhile: none
\* holds more than its realm's operator granted at its founding, and none is
\* let through on a right that was gone when it asked.
THEOREM RightsStayHeld == Spec => []RightsAreHeld
<1> QED
  BY InvIsInvariant, InvIsHeld, PTL

=============================================================================
