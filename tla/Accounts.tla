------------------------------- MODULE Accounts -------------------------------
(***************************************************************************)
(* Users, login sessions, administrator invites and external identities:   *)
(* auth/router.py, auth/identity.py and admin_bootstrap.py.                *)
(*                                                                         *)
(* A request reads the rows it decides on, and commits later what it       *)
(* decided; nothing is locked but the invite.  The sessions of the service *)
(* do not expire what they have loaded, so a token is made from the user   *)
(* as it was read, and an update writes only the columns it changes.  The  *)
(* service runs either with passwords or with external identities, on the  *)
(* same tables.                                                            *)
(***************************************************************************)
EXTENDS Naturals, FiniteSets

CONSTANTS
    Email,          \* the email addresses; a user is named by its address
    Subject,        \* the accounts at the identity provider
    Key,            \* the signing keys of the identity provider
    Thread,         \* the threads that serve requests and run the command
    Invite,         \* administrator invites
    Nobody,
    MaxSessions,    \* bound: rows of sessions
    MaxTokens,      \* bound: refresh tokens ever made
    MaxRotations    \* bound: changes of the provider's signing keys

ASSUME AccountsAssumption ==
    /\ Nobody \notin Email
    /\ MaxSessions \in Nat /\ MaxTokens \in Nat /\ MaxRotations \in Nat

VARIABLES
    mode,           \* "password" or "external"
    users,          \* users[e]: the row of the user with address e
    sessions,       \* sessions[s]: the row of a login session
    identities,     \* identities[x]: the user of subject x, or Nobody
    invites,        \* invites[i]: the row of an invite
    access,         \* the access tokens that clients hold
    tokens,         \* refresh tokens made so far: 1, 2, ...
    keys,           \* the keys the verifier has cached
    published,      \* the key the provider signs with and publishes
    rotations,
    req,            \* req[t]: where thread t is
    \* bookkeeping
    loggedOut,      \* sessions of which a logout succeeded
    promoted,       \* promoted[i]: the users that invite i made administrators
    signedIn        \* signedIn[x]: the users as whom subject x was signed in

directory == <<users, identities>>
login == <<sessions, tokens>>
provider == <<published, rotations>>
notes == <<loggedOut, promoted, signedIn>>
vars == <<mode, directory, login, invites, access, keys, provider, req, notes>>

SessionId == 1..MaxSessions
Token == 1..MaxTokens

NoUser == [exists |-> FALSE, role |-> "user", active |-> FALSE, version |-> 0, password |-> FALSE]
NewUser(role, password) ==
    [exists |-> TRUE, role |-> role, active |-> TRUE, version |-> 0, password |-> password]

NoSession == [user |-> Nobody, token |-> 0, revoked |-> FALSE, expired |-> FALSE]
NoInvite == [exists |-> FALSE, used |-> FALSE, expired |-> FALSE]

Idle == [pc |-> "idle", user |-> Nobody, role |-> "user", version |-> 0,
         session |-> 0, token |-> 0, invite |-> Nobody, subject |-> Nobody,
         key |-> Nobody, forced |-> FALSE, document |-> {}]

AccessToken(e, row) == [user |-> e, role |-> row.role, version |-> row.version]

(* The users that were there before the service started in its mode.       *)
Init ==
    /\ mode \in {"password", "external"}
    /\ \E old \in SUBSET Email :
          users = [e \in Email |-> IF e \in old THEN NewUser("user", TRUE) ELSE NoUser]
    /\ sessions = [s \in SessionId |-> NoSession]
    /\ identities = [x \in Subject |-> Nobody]
    /\ invites = [i \in Invite |-> NoInvite]
    /\ access = {} /\ tokens = 0
    /\ published \in Key /\ keys = {}
    /\ rotations = 0
    /\ req = [t \in Thread |-> Idle]
    /\ loggedOut = {} /\ promoted = [i \in Invite |-> {}]
    /\ signedIn = [x \in Subject |-> {}]
-----------------------------------------------------------------------------
Goto(t, pc) == req' = [req EXCEPT ![t].pc = pc]
Done(t) == req' = [req EXCEPT ![t] = Idle]
Begin(t, state) == req[t].pc = "idle" /\ req' = [req EXCEPT ![t] = state]

(* The user e as the request reads it.                                     *)
Loaded(pc, e) ==
    [Idle EXCEPT !.pc = pc, !.user = e, !.role = users[e].role, !.version = users[e].version]

Unused == {s \in SessionId : sessions[s].token = 0}
NextSession == CHOOSE s \in Unused : TRUE
Active(e) == users[e].exists /\ users[e].active
MayMakeToken == tokens < MaxTokens

(* POST /register: user, workspace and login session in one transaction;   *)
(* a taken address refuses it.                                             *)
Register(e) ==
    /\ mode = "password" /\ ~users[e].exists
    /\ MayMakeToken /\ Unused # {}
    /\ users' = [users EXCEPT ![e] = NewUser("user", TRUE)]
    /\ sessions' = [sessions EXCEPT ![NextSession] =
                      [NoSession EXCEPT !.user = e, !.token = tokens + 1]]
    /\ tokens' = tokens + 1
    /\ access' = access \cup {AccessToken(e, NewUser("user", TRUE))}
    /\ UNCHANGED <<mode, identities, invites, keys, provider, req, notes>>

(* POST /login                                                             *)
ReadLogin(t, e) ==
    /\ mode = "password" /\ Active(e) /\ users[e].password
    /\ Begin(t, Loaded("issue", e))
    /\ UNCHANGED <<mode, directory, login, invites, access, keys, provider, notes>>

(* The session that a refresh token stands for.                            *)
SessionsOf(n) == {s \in SessionId : sessions[s].token = n}

(* POST /refresh                                                           *)
ReadRefresh(t, n) ==
    /\ mode = "password" /\ n <= tokens
    /\ \E s \in SessionsOf(n) :
          /\ ~sessions[s].revoked /\ ~sessions[s].expired
          /\ Active(sessions[s].user)
          /\ Begin(t, [Loaded("issue", sessions[s].user) EXCEPT !.session = s, !.token = n])
    /\ UNCHANGED <<mode, directory, login, invites, access, keys, provider, notes>>

(* Fault: the whole row is written as it should look after a login.        *)
FaultyIssued(row, e) == [NoSession EXCEPT !.user = e, !.token = tokens + 1]

(* What issue() writes: the columns of the token and of its expiry.        *)
Issued(row, e) == [row EXCEPT !.user = e, !.token = tokens + 1, !.expired = FALSE]

Issue(t) ==
    LET q == req[t]
        s == IF q.session = 0 THEN NextSession ELSE q.session
    IN
    /\ q.pc = "issue" /\ MayMakeToken
    /\ q.session = 0 => Unused # {}
    /\ sessions' = [sessions EXCEPT ![s] = Issued(@, q.user)]
    /\ tokens' = tokens + 1
    /\ access' = access \cup {AccessToken(q.user, q)}
    /\ Done(t)
    /\ UNCHANGED <<mode, directory, invites, keys, provider, notes>>

(* POST /logout                                                            *)
ReadLogout(t, n) ==
    /\ mode = "password" /\ n <= tokens
    /\ \E s \in SessionsOf(n) :
          ~sessions[s].revoked /\ Begin(t, [Idle EXCEPT !.pc = "revoke", !.session = s])
    /\ UNCHANGED <<mode, directory, login, invites, access, keys, provider, notes>>

Revoke(t) ==
    /\ req[t].pc = "revoke"
    /\ sessions' = [sessions EXCEPT ![req[t].session].revoked = TRUE]
    /\ loggedOut' = loggedOut \cup {req[t].session}
    /\ Done(t)
    /\ UNCHANGED <<mode, directory, tokens, invites, access, keys, provider, promoted, signedIn>>

(* Thirty days pass for a session, or the hours of an invite.              *)
SessionExpires(s) ==
    /\ sessions[s].token # 0 /\ ~sessions[s].expired
    /\ sessions' = [sessions EXCEPT ![s].expired = TRUE]
    /\ UNCHANGED <<mode, directory, tokens, invites, access, keys, provider, req, notes>>

InviteExpires(i) ==
    /\ invites[i].exists /\ ~invites[i].expired
    /\ invites' = [invites EXCEPT ![i].expired = TRUE]
    /\ UNCHANGED <<mode, directory, login, access, keys, provider, req, notes>>

(* An operator blocks a user.                                              *)
Block(e) ==
    /\ Active(e)
    /\ users' = [users EXCEPT ![e].active = FALSE]
    /\ UNCHANGED <<mode, identities, login, invites, access, keys, provider, req, notes>>
-----------------------------------------------------------------------------
IsAdmin(e) == users[e].exists /\ users[e].role = "admin"

(* Fault: the tokens that name the old role stay valid.                    *)
FaultyPromoted(row, version) == [row EXCEPT !.role = "admin"]

(* The columns that make a user an administrator; version is the one that  *)
(* was loaded with the user.                                               *)
Promoted(row, version) == [row EXCEPT !.role = "admin", !.version = version + 1]

(* bootstrap_first_admin()                                                 *)
ReadBootstrap(t, e) ==
    /\ \A f \in Email : ~IsAdmin(f)
    /\ users[e].exists => users[e].active
    /\ Begin(t, [Loaded("bootstrap", e) EXCEPT
                   !.role = IF users[e].exists THEN "update" ELSE "insert"])
    /\ UNCHANGED <<mode, directory, login, invites, access, keys, provider, notes>>

CommitBootstrap(t) ==
    LET q == req[t] IN
    /\ q.pc = "bootstrap"
    /\ users' = IF q.role = "update"
                THEN [users EXCEPT ![q.user] = Promoted(@, q.version)]
                ELSE IF users[q.user].exists THEN users
                ELSE [users EXCEPT ![q.user] = NewUser("admin", TRUE)]
    /\ Done(t)
    /\ UNCHANGED <<mode, identities, login, invites, access, keys, provider, notes>>

(* create_admin_invite()                                                   *)
CreateInvite(i, e) ==
    /\ Active(e) /\ IsAdmin(e)
    /\ ~invites[i].exists
    /\ invites' = [invites EXCEPT ![i].exists = TRUE]
    /\ UNCHANGED <<mode, directory, login, access, keys, provider, req, notes>>

(* principal() of the activation loads the user; the same session answers  *)
(* for the user later on.                                                  *)
Accepted(a) == Active(a.user) /\ users[a.user].version = a.version

PostActivate(t, e, i) ==
    /\ IF mode = "password" THEN \E a \in access : a.user = e /\ Accepted(a)
                            ELSE Active(e) /\ \E x \in Subject : identities[x] = e
    /\ Begin(t, [Loaded("lock", e) EXCEPT !.invite = i])
    /\ UNCHANGED <<mode, directory, login, invites, access, keys, provider, notes>>

(* Fault: the invite is read without its lock.                             *)
FaultyMayLock(t) == TRUE

(* SELECT ... FOR UPDATE: the row is held until the transaction ends.      *)
MayLock(t) ==
    \A u \in Thread \ {t} : ~(req[u].pc = "activate" /\ req[u].invite = req[t].invite)

ReadInvite(t) ==
    LET i == invites[req[t].invite] IN
    /\ req[t].pc = "lock" /\ MayLock(t)
    /\ IF i.exists /\ ~i.used /\ ~i.expired THEN Goto(t, "activate") ELSE Done(t)
    /\ UNCHANGED <<mode, directory, login, invites, access, keys, provider, notes>>

CommitActivation(t) ==
    LET q == req[t] IN
    /\ q.pc = "activate"
    /\ invites' = [invites EXCEPT ![q.invite].used = TRUE]
    /\ users' = [users EXCEPT ![q.user] = Promoted(@, q.version)]
    /\ promoted' = [promoted EXCEPT ![q.invite] = @ \cup {q.user}]
    /\ Done(t)
    /\ UNCHANGED <<mode, identities, login, access, keys, provider, loggedOut, signedIn>>
-----------------------------------------------------------------------------
(* SupabaseJwtVerifier.verify() for a token of subject x that is signed    *)
(* with key k and names address e.  The cached keys serve until their time *)
(* is over, which may be at any request.                                   *)
PostSignIn(t, x, e, k) ==
    /\ mode = "external"
    /\ \E pc \in {"fetch"} \cup (IF keys = {} THEN {} ELSE {"find_key"}) :
          Begin(t, [Idle EXCEPT !.pc = pc, !.subject = x, !.user = e, !.key = k])
    /\ UNCHANGED <<mode, directory, login, invites, access, keys, provider, notes>>

(* fetch_jwks(): the published keys, or an error, which is a refusal.      *)
Fetch(t) ==
    /\ req[t].pc = "fetch"
    /\ \/ req' = [req EXCEPT ![t].pc = "store_keys", ![t].document = {published}]
       \/ Done(t)
    /\ UNCHANGED <<mode, directory, login, invites, access, keys, provider, notes>>

StoreKeys(t) ==
    /\ req[t].pc = "store_keys"
    /\ keys' = req[t].document
    /\ req' = [req EXCEPT ![t].pc = "find_key", ![t].document = {}]
    /\ UNCHANGED <<mode, directory, login, invites, access, provider, notes>>

(* An unknown key is looked for once more in a new document.               *)
FindKey(t) ==
    LET q == req[t] IN
    /\ q.pc = "find_key"
    /\ req' = [req EXCEPT ![t] =
                 IF q.key \in keys
                 THEN [Idle EXCEPT !.pc = "resolve", !.user = q.user, !.subject = q.subject]
                 ELSE IF q.forced THEN Idle
                 ELSE [q EXCEPT !.pc = "fetch", !.forced = TRUE]]
    /\ UNCHANGED <<mode, directory, login, invites, access, keys, provider, notes>>

RotateKeys ==
    /\ mode = "external" /\ rotations < MaxRotations
    /\ published' \in Key \ {published}
    /\ rotations' = rotations + 1
    /\ UNCHANGED <<mode, directory, login, invites, access, keys, req, notes>>

(* The request is that of user e from here on, if e may do anything.       *)
SignIn(x, e) ==
    signedIn' = IF Active(e) THEN [signedIn EXCEPT ![x] = @ \cup {e}] ELSE signedIn

(* provision_external_identity(): the identity is looked up, created with  *)
(* its user and workspace in one transaction, or looked up again.          *)
Resolve(t) ==
    LET q == req[t] IN
    /\ q.pc = "resolve"
    /\ IF identities[q.subject] # Nobody
       THEN SignIn(q.subject, identities[q.subject]) /\ Done(t)
       ELSE Goto(t, "provision") /\ UNCHANGED signedIn
    /\ UNCHANGED <<mode, directory, login, invites, access, keys, provider, loggedOut, promoted>>

(* Fault: a user with the same address is taken for the identity's own.    *)
FaultyCollides(q) == identities[q.subject] # Nobody

(* The unique constraints on the address and on the subject.               *)
Collides(q) == users[q.user].exists \/ identities[q.subject] # Nobody

Provision(t) ==
    LET q == req[t] IN
    /\ q.pc = "provision"
    /\ IF Collides(q)
       THEN Goto(t, "resolve_again") /\ UNCHANGED <<directory, signedIn>>
       ELSE /\ users' = [users EXCEPT ![q.user] = NewUser("user", FALSE)]
            /\ identities' = [identities EXCEPT ![q.subject] = q.user]
            /\ signedIn' = [signedIn EXCEPT ![q.subject] = @ \cup {q.user}]
            /\ Done(t)
    /\ UNCHANGED <<mode, login, invites, access, keys, provider, loggedOut, promoted>>

ResolveAgain(t) ==
    LET q == req[t] IN
    /\ q.pc = "resolve_again"
    /\ IF identities[q.subject] # Nobody
       THEN SignIn(q.subject, identities[q.subject]) ELSE UNCHANGED signedIn
    /\ Done(t)
    /\ UNCHANGED <<mode, directory, login, invites, access, keys, provider, loggedOut, promoted>>
-----------------------------------------------------------------------------
Next ==
    \/ \E e \in Email : Register(e) \/ Block(e)
    \/ \E s \in SessionId : SessionExpires(s)
    \/ \E i \in Invite : InviteExpires(i) \/ \E e \in Email : CreateInvite(i, e)
    \/ RotateKeys
    \/ \E t \in Thread :
          \/ \E e \in Email : ReadLogin(t, e) \/ ReadBootstrap(t, e)
          \/ \E n \in Token : ReadRefresh(t, n) \/ ReadLogout(t, n)
          \/ Issue(t) \/ Revoke(t) \/ CommitBootstrap(t)
          \/ \E e \in Email, i \in Invite : PostActivate(t, e, i)
          \/ ReadInvite(t) \/ CommitActivation(t)
          \/ \E x \in Subject, e \in Email, k \in Key : PostSignIn(t, x, e, k)
          \/ Fetch(t) \/ StoreKeys(t) \/ FindKey(t)
          \/ Resolve(t) \/ Provision(t) \/ ResolveAgain(t)

Spec == Init /\ [][Next]_vars
-----------------------------------------------------------------------------
(* A session that was logged out stays so, also under a refresh that had   *)
(* read it before: none of its tokens is accepted again.                   *)
LogoutIsFinal == \A s \in loggedOut : sessions[s].revoked

(* An access token that is accepted names the role its user has now:       *)
(* whoever becomes an administrator loses the tokens of the old role, also *)
(* those that a login or a refresh makes from the user it read before, and *)
(* lost updates of the version bring none of them back.                    *)
AcceptedTokensAreCurrent ==
    \A a \in access : Accepted(a) => a.role = users[a.user].role

(* An invite makes one administrator, whoever activates it at once.        *)
InvitesAreSingleUse ==
    \A i \in Invite :
        /\ Cardinality(promoted[i]) <= 1
        /\ \A e \in promoted[i] : IsAdmin(e)

(* Whatever races on the constraints, a subject is always signed in as one *)
(* user, who was made for it: no other subject shares the user, and nobody *)
(* who had a password became it.                                           *)
SignInsAgree ==
    \A x \in Subject :
        /\ signedIn[x] \subseteq {identities[x]}
        /\ \A e \in signedIn[x] :
              ~users[e].password /\ \A y \in Subject \ {x} : e \notin signedIn[y]

(* AUTH_MODEL.md: refresh rotates the stored digest atomically; reuse of   *)
(* the preceding token fails.  Whoever is issued a token for another still *)
(* has the one that is stored.                                             *)
ReuseFails ==
    [][\A t \in Thread :
          req[t].pc = "issue" /\ req[t].token # 0 /\ req'[t].pc = "idle"
             => sessions[req[t].session].token = req[t].token]_vars
=============================================================================
