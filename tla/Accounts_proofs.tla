--------------------------- MODULE Accounts_proofs ---------------------------
(***************************************************************************)
(* Theorems about accounts for any number of addresses, subjects, threads, *)
(* invites and sessions: logouts are final, no token of a former role is   *)
(* accepted, an invite makes one administrator, and a subject is signed in *)
(* as one user of its own.                                                 *)
(***************************************************************************)
EXTENDS Accounts, FiniteSetTheorems, TLAPS

USE AccountsAssumption DEF AccountsAssumption

User == [exists : BOOLEAN, role : {"user", "admin"}, active : BOOLEAN, version : Nat,
         password : BOOLEAN]
Session == [user : Email \cup {Nobody}, token : Nat, revoked : BOOLEAN, expired : BOOLEAN]
InviteRow == [exists : BOOLEAN, used : BOOLEAN, expired : BOOLEAN]
Pc == {"idle", "issue", "revoke", "bootstrap", "lock", "activate", "fetch", "store_keys",
       "find_key", "resolve", "provision", "resolve_again"}
Request == [pc : Pc, user : Email \cup {Nobody}, role : {"user", "admin", "update", "insert"},
            version : Nat, session : {0} \cup SessionId, token : Nat, invite : Invite \cup {Nobody},
            subject : Subject \cup {Nobody}, key : Key \cup {Nobody}, forced : BOOLEAN,
            document : SUBSET Key]

TypeOK ==
    /\ users \in [Email -> User]
    /\ sessions \in [SessionId -> Session]
    /\ tokens \in Nat
    /\ identities \in [Subject -> Email \cup {Nobody}]
    /\ invites \in [Invite -> InviteRow]
    /\ access \subseteq [user : Email, role : {"user", "admin"}, version : Nat]
    /\ published \in Key /\ keys \subseteq Key
    /\ req \in [Thread -> Request]
    /\ loggedOut \subseteq SessionId
    /\ promoted \in [Invite -> SUBSET Email]
    /\ signedIn \in [Subject -> SUBSET Email]

(* A role and a version that were read from user e once: a user who is no  *)
(* longer one has left version 0 with the promotion, for good.             *)
WasRead(e, role, version) ==
    /\ users[e].exists
    /\ role = "user" => version = 0 /\ (users[e].role = "user" \/ users[e].version >= 1)
    /\ role = "admin" => users[e].role = "admin"

(* What a request may rely on of the rows it has read.                     *)
StillHolds(q) ==
    /\ q.pc \in {"issue", "bootstrap", "lock", "activate", "fetch", "store_keys", "find_key",
                 "resolve", "provision", "resolve_again"} => q.user \in Email
    /\ q.pc = "issue" => /\ q.role \in {"user", "admin"} /\ WasRead(q.user, q.role, q.version)
                         /\ q.session # 0 => sessions[q.session].token # 0
    /\ q.pc = "revoke" => q.session \in SessionId /\ sessions[q.session].token # 0
    /\ q.pc \in {"lock", "activate"} => q.invite \in Invite /\ users[q.user].exists
    /\ q.pc = "activate" => ~invites[q.invite].used
    /\ q.pc \in {"fetch", "store_keys", "find_key", "resolve", "provision", "resolve_again"}
           => q.subject \in Subject

RequestsHold == \A t \in Thread : StillHolds(req[t])

UsersHold == \A e \in Email : users[e].role = "user" => users[e].version = 0
TokensHold == \A a \in access : WasRead(a.user, a.role, a.version)

SessionsHold ==
    /\ \A s \in SessionId : sessions[s].token # 0 => sessions[s].user \in Email
    /\ \A s \in loggedOut : sessions[s].revoked /\ sessions[s].token # 0

(* The lock of an invite, and what it protects.                            *)
InvitesHold ==
    /\ \A t, u \in Thread :
          req[t].pc = "activate" /\ req[u].pc = "activate" /\ req[t].invite = req[u].invite => t = u
    /\ \A i \in Invite :
          /\ promoted[i] # {} => invites[i].used
          /\ \A e, f \in promoted[i] : e = f
          /\ \A e \in promoted[i] : IsAdmin(e)

IdentitiesHold ==
    \A x \in Subject :
        /\ signedIn[x] \subseteq {identities[x]}
        /\ identities[x] # Nobody =>
              /\ users[identities[x]].exists /\ ~users[identities[x]].password
              /\ \A y \in Subject : identities[y] = identities[x] => y = x

IInv == /\ TypeOK /\ RequestsHold /\ UsersHold /\ TokensHold
        /\ SessionsHold /\ InvitesHold /\ IdentitiesHold
-----------------------------------------------------------------------------
(* What a step may do to the users, the sessions and the invites without   *)
(* taking away what a request or a token relies on.                        *)
UsersStable ==
    \A e \in Email : users[e].exists =>
        /\ users'[e].exists /\ (users'[e].password => users[e].password)
        /\ users[e].role = "admin" => users'[e].role = "admin"
        /\ users[e].role = "user" \/ users[e].version >= 1 =>
               users'[e].role = "user" \/ users'[e].version >= 1
SessionsStable == \A s \in SessionId : sessions[s].token # 0 => sessions'[s].token # 0

LEMMA WasReadStays ==
    ASSUME UsersStable, NEW e \in Email, NEW role, NEW version, WasRead(e, role, version)
    PROVE  WasRead(e, role, version)'
BY DEF UsersStable, WasRead

LEMMA StillHoldsStays ==
    ASSUME UsersStable, SessionsStable, NEW q \in Request, StillHolds(q),
           q.pc = "activate" => invites'[q.invite].used = invites[q.invite].used
    PROVE  StillHolds(q)'
<1>1. q.pc = "issue" => WasRead(q.user, q.role, q.version)'
  BY WasReadStays DEF StillHolds
<1>2. q.session # 0 => (sessions[q.session].token # 0 => sessions'[q.session].token # 0)
  BY DEF SessionsStable, Request
<1>3. q.pc \in {"lock", "activate"} => users'[q.user].exists
  BY DEF StillHolds, UsersStable
<1>4. 0 \notin SessionId
  BY DEF SessionId
<1> QED
  BY <1>1, <1>2, <1>3, <1>4 DEF StillHolds

(* A step that rewrites one row of a user: a new user, a blocked one, or   *)
(* one who becomes an administrator.                                       *)
MayBecome(was, row) ==
    /\ row.role = "user" => row.version = 0
    /\ was.exists =>
          /\ row.exists /\ (row.password => was.password)
          /\ was.role = "admin" => row.role = "admin"
          /\ was.role = "user" \/ was.version >= 1 => row.role = "user" \/ row.version >= 1

LEMMA OneUser ==
    ASSUME TypeOK, UsersHold, TokensHold, NEW e \in Email, NEW row \in User,
           users' = [users EXCEPT ![e] = row], MayBecome(users[e], row)
    PROVE  /\ users' \in [Email -> User] /\ UsersHold' /\ UsersStable
           /\ \A a \in access : WasRead(a.user, a.role, a.version)'
<1>1. users' \in [Email -> User] /\ UsersHold' /\ UsersStable
  BY DEF TypeOK, UsersHold, UsersStable, MayBecome
<1>2. \A a \in access : a.user \in Email
  BY DEF TypeOK
<1> QED
  BY <1>1, <1>2, WasReadStays DEF TokensHold

LEMMA SameUsers ==
    ASSUME users' = users, TypeOK, TokensHold
    PROVE  UsersStable /\ \A a \in access : WasRead(a.user, a.role, a.version)'
BY DEF UsersStable, TokensHold, WasRead

LEMMA Rows ==
    /\ \A role \in {"user", "admin"}, p \in BOOLEAN : NewUser(role, p) \in User
    /\ \A row \in User, n \in Nat :
          Promoted(row, n) \in User /\ MayBecome(row, Promoted(row, n))
          /\ Promoted(row, n).role = "admin" /\ Promoted(row, n).exists = row.exists
    /\ Idle \in Request /\ StillHolds(Idle)
<1>1. \A role \in {"user", "admin"}, p \in BOOLEAN : NewUser(role, p) \in User
  BY DEF NewUser, User
<1>2. ASSUME NEW row \in User, NEW n \in Nat
      PROVE  Promoted(row, n) \in User /\ MayBecome(row, Promoted(row, n))
             /\ Promoted(row, n).role = "admin" /\ Promoted(row, n).exists = row.exists
  <2> DEFINE p == Promoted(row, n)
  <2>1. n + 1 \in Nat /\ n + 1 >= 1
    OBVIOUS
  <2>2. p \in User
    BY <2>1 DEF User, Promoted
  <2>3. p.role = "admin"
    BY DEF User, Promoted
  <2>4. p.version = n + 1
    BY DEF User, Promoted
  <2>5. p.exists = row.exists /\ p.password = row.password
    BY DEF User, Promoted
  <2> HIDE DEF p
  <2>6. MayBecome(row, p)
    BY <2>1, <2>3, <2>4, <2>5 DEF MayBecome
  <2> QED
    BY <2>2, <2>3, <2>5, <2>6 DEF p
<1>3. Idle \in Request /\ StillHolds(Idle)
  BY DEF Idle, Request, Pc, StillHolds
<1> QED
  BY <1>1, <1>2, <1>3

(* The requests after a step of thread t that ends in state q.             *)
LEMMA OneRequest ==
    ASSUME TypeOK, RequestsHold, UsersStable, SessionsStable, NEW t \in Thread, NEW q \in Request,
           req' = [req EXCEPT ![t] = q], StillHolds(q)',
           \A u \in Thread \ {t} : req[u].pc = "activate" =>
               invites'[req[u].invite].used = invites[req[u].invite].used
    PROVE  req' \in [Thread -> Request] /\ RequestsHold'
<1>1. req' \in [Thread -> Request] /\ req'[t] = q
      /\ \A u \in Thread \ {t} : req'[u] = req[u] /\ req[u] \in Request
  BY DEF TypeOK
<1>2. \A u \in Thread \ {t} : StillHolds(req[u])'
  BY <1>1, StillHoldsStays DEF RequestsHold
<1> QED
  BY <1>1, <1>2 DEF RequestsHold

(* A step that moves one request on, and perhaps signs its subject in.     *)
LEMMA RequestOnly ==
    ASSUME IInv, NEW t \in Thread, NEW q \in Request, req' = [req EXCEPT ![t] = q], StillHolds(q),
           q.pc = "activate" =>
               \A u \in Thread \ {t} : ~(req[u].pc = "activate" /\ req[u].invite = q.invite),
           UNCHANGED <<users, identities, sessions, tokens, invites, access, published>>,
           UNCHANGED <<loggedOut, promoted>>, keys' \subseteq Key,
           signedIn' \in [Subject -> SUBSET Email],
           \A x \in Subject : signedIn'[x] \subseteq {identities[x]}
    PROVE  IInv'
<1> USE DEF IInv
<1>1. UsersStable /\ SessionsStable /\ StillHolds(q)'
  BY DEF UsersStable, SessionsStable, StillHolds, WasRead
<1>2. req' \in [Thread -> Request] /\ RequestsHold'
  BY <1>1, OneRequest
<1>3. TypeOK'
  BY <1>2 DEF TypeOK
<1>4. UsersHold' /\ TokensHold' /\ SessionsHold'
  BY DEF UsersHold, TokensHold, SessionsHold, WasRead
<1>5. InvitesHold'
  BY DEF InvitesHold, TypeOK, IsAdmin
<1>6. IdentitiesHold'
  BY DEF IdentitiesHold
<1> QED
  BY <1>2, <1>3, <1>4, <1>5, <1>6

LEMMA LoadedRequest ==
    ASSUME TypeOK, NEW e \in Email, NEW pc \in Pc
    PROVE  /\ Loaded(pc, e) \in Request
           /\ Loaded(pc, e).pc = pc /\ Loaded(pc, e).user = e /\ Loaded(pc, e).session = 0
           /\ Loaded(pc, e).role = users[e].role /\ Loaded(pc, e).version = users[e].version
<1>1. users[e].role \in {"user", "admin"} /\ users[e].version \in Nat
  BY DEF TypeOK, User
<1> QED
  BY <1>1 DEF Loaded, Idle, Request
-----------------------------------------------------------------------------
(* What the first halves of requests leave alone.                          *)
Rest == <<users, identities, sessions, tokens, invites, access, published, loggedOut, promoted,
          keys, signedIn>>

LEMMA RequestAlone ==
    ASSUME IInv, NEW t \in Thread, NEW q \in Request, req' = [req EXCEPT ![t] = q], StillHolds(q),
           q.pc # "activate", UNCHANGED Rest
    PROVE  IInv'
<1>1. /\ signedIn \in [Subject -> SUBSET Email] /\ keys \subseteq Key
      /\ \A x \in Subject : signedIn[x] \subseteq {identities[x]}
  BY DEF IInv, TypeOK, IdentitiesHold
<1> QED
  BY <1>1, RequestOnly DEF Rest

LEMMA PasswordRequests ==
    ASSUME IInv, NEW t \in Thread,
           \/ \E e \in Email : ReadLogin(t, e) \/ ReadBootstrap(t, e)
           \/ \E n \in Token : ReadRefresh(t, n) \/ ReadLogout(t, n)
    PROVE  IInv'
<1> USE DEF Rest, directory, login, provider, notes
<1>1. ASSUME NEW e \in Email, ReadLogin(t, e) PROVE IInv'
  <2> DEFINE q == Loaded("issue", e)
  <2>1. q \in Request /\ q.pc = "issue" /\ q.user = e /\ q.session = 0
        /\ q.role = users[e].role /\ q.version = users[e].version
    BY LoadedRequest DEF Pc, IInv
  <2>2. req' = [req EXCEPT ![t] = q] /\ users[e].exists /\ UNCHANGED Rest
    BY <1>1 DEF ReadLogin, Begin, Active
  <2> HIDE DEF q
  <2>3. StillHolds(q)
    BY <2>1, <2>2 DEF IInv, StillHolds, WasRead, UsersHold, TypeOK, User
  <2> QED
    BY <2>1, <2>2, <2>3, RequestAlone
<1>2. ASSUME NEW e \in Email, ReadBootstrap(t, e) PROVE IInv'
  <2> DEFINE r == Loaded("bootstrap", e)
             q == [r EXCEPT !.role = IF users[e].exists THEN "update" ELSE "insert"]
  <2>1. r \in Request /\ r.pc = "bootstrap" /\ r.user = e
    BY LoadedRequest DEF Pc, IInv
  <2>2. req' = [req EXCEPT ![t] = q] /\ UNCHANGED Rest
    BY <1>2 DEF ReadBootstrap, Begin
  <2> HIDE DEF r
  <2>3. q \in Request /\ q.pc = "bootstrap" /\ q.user = e
    BY <2>1 DEF Request
  <2> HIDE DEF q
  <2>4. StillHolds(q)
    BY <2>3 DEF StillHolds
  <2> QED
    BY <2>2, <2>3, <2>4, RequestAlone
<1>3. ASSUME NEW n \in Token, ReadRefresh(t, n) PROVE IInv'
  <2>1. PICK s \in SessionsOf(n) : Active(sessions[s].user)
            /\ Begin(t, [Loaded("issue", sessions[s].user) EXCEPT !.session = s, !.token = n])
    BY <1>3 DEF ReadRefresh
  <2> DEFINE e == sessions[s].user
             r == Loaded("issue", e)
             q == [r EXCEPT !.session = s, !.token = n]
  <2>2. s \in SessionId /\ sessions[s].token = n /\ n # 0 /\ n \in Nat
    BY <2>1 DEF SessionsOf, Token
  <2>3. e \in Email
    BY <2>2 DEF IInv, SessionsHold
  <2>4. r \in Request /\ r.pc = "issue" /\ r.user = e
        /\ r.role = users[e].role /\ r.version = users[e].version
    BY <2>3, LoadedRequest DEF Pc, IInv
  <2>5. req' = [req EXCEPT ![t] = q] /\ users[e].exists /\ UNCHANGED Rest
    BY <1>3, <2>1 DEF ReadRefresh, Begin, Active
  <2> HIDE DEF r, e
  <2>6. q \in Request /\ q.pc = "issue" /\ q.user = e /\ q.session = s
        /\ q.role = users[e].role /\ q.version = users[e].version
    BY <2>2, <2>4 DEF Request
  <2> HIDE DEF q
  <2>7. StillHolds(q)
    BY <2>2, <2>3, <2>5, <2>6 DEF IInv, StillHolds, WasRead, UsersHold, TypeOK, User
  <2> QED
    BY <2>5, <2>6, <2>7, RequestAlone
<1>4. ASSUME NEW n \in Token, ReadLogout(t, n) PROVE IInv'
  <2>1. PICK s \in SessionsOf(n) : Begin(t, [Idle EXCEPT !.pc = "revoke", !.session = s])
    BY <1>4 DEF ReadLogout
  <2> DEFINE q == [Idle EXCEPT !.pc = "revoke", !.session = s]
  <2>2. s \in SessionId /\ sessions[s].token # 0
    BY <2>1 DEF SessionsOf, Token
  <2>3. req' = [req EXCEPT ![t] = q] /\ UNCHANGED Rest
    BY <1>4, <2>1 DEF ReadLogout, Begin
  <2>4. q \in Request /\ q.pc = "revoke" /\ q.session = s
    BY <2>2 DEF Idle, Request, Pc
  <2> HIDE DEF q
  <2>5. StillHolds(q)
    BY <2>2, <2>4 DEF StillHolds
  <2> QED
    BY <2>3, <2>4, <2>5, RequestAlone
<1> QED
  BY <1>1, <1>2, <1>3, <1>4
-----------------------------------------------------------------------------
LEMMA InviteRequests ==
    ASSUME IInv, NEW t \in Thread,
           (\E e \in Email, i \in Invite : PostActivate(t, e, i)) \/ ReadInvite(t)
    PROVE  IInv'
<1> USE DEF directory, login, provider, notes
<1>1. ASSUME NEW e \in Email, NEW i \in Invite, PostActivate(t, e, i) PROVE IInv'
  <2> DEFINE r == Loaded("lock", e)
             q == [r EXCEPT !.invite = i]
  <2>1. r \in Request /\ r.pc = "lock" /\ r.user = e
    BY LoadedRequest DEF Pc, IInv
  <2>2. req' = [req EXCEPT ![t] = q] /\ UNCHANGED Rest
    BY <1>1 DEF PostActivate, Begin, Rest
  <2>3. users[e].exists
    <3>1. CASE mode = "password"
      <4>1. PICK a \in access : a.user = e /\ Accepted(a)
        BY <1>1, <3>1 DEF PostActivate
      <4> QED
        BY <4>1 DEF Accepted, Active
    <3>2. CASE mode # "password"
      BY <1>1, <3>2 DEF PostActivate, Active
    <3> QED
      BY <3>1, <3>2
  <2> HIDE DEF r
  <2>4. q \in Request /\ q.pc = "lock" /\ q.user = e /\ q.invite = i
    BY <2>1 DEF Request
  <2> HIDE DEF q
  <2>5. StillHolds(q)
    BY <2>3, <2>4 DEF StillHolds
  <2> QED
    BY <2>2, <2>4, <2>5, RequestAlone
<1>2. CASE ReadInvite(t)
  <2> DEFINE i == invites[req[t].invite]
             q == [req[t] EXCEPT !.pc = "activate"]
  <2>1. req[t] \in Request /\ StillHolds(req[t]) /\ req[t].pc = "lock" /\ UNCHANGED Rest
    BY <1>2 DEF IInv, TypeOK, RequestsHold, ReadInvite, Rest
  <2>2. CASE i.exists /\ ~i.used /\ ~i.expired
    <3>1. req' = [req EXCEPT ![t] = q]
      BY <1>2, <2>1, <2>2 DEF ReadInvite, Goto, IInv, TypeOK
    <3>2. q \in Request /\ q.pc = "activate" /\ q.user = req[t].user /\ q.invite = req[t].invite
      BY <2>1 DEF Request, Pc
    <3>3. \A u \in Thread \ {t} : ~(req[u].pc = "activate" /\ req[u].invite = q.invite)
      BY <1>2, <3>2 DEF ReadInvite, MayLock
    <3> HIDE DEF q
    <3>4. StillHolds(q)
      BY <2>1, <2>2, <3>2 DEF StillHolds
    <3>5. /\ signedIn \in [Subject -> SUBSET Email] /\ keys \subseteq Key
          /\ \A x \in Subject : signedIn[x] \subseteq {identities[x]}
      BY DEF IInv, TypeOK, IdentitiesHold
    <3> QED
      BY <2>1, <3>1, <3>2, <3>3, <3>4, <3>5, RequestOnly DEF Rest
  <2>3. CASE ~(i.exists /\ ~i.used /\ ~i.expired)
    <3>1. req' = [req EXCEPT ![t] = Idle]
      BY <1>2, <2>3 DEF ReadInvite, Done
    <3>2. Idle.pc # "activate"
      BY DEF Idle
    <3> QED
      BY <2>1, <3>1, <3>2, Rows, RequestAlone
  <2> QED
    BY <2>2, <2>3
<1> QED
  BY <1>1, <1>2

(* The verifier of the identity provider's tokens and the look-ups.        *)
LEMMA ExternalRequests ==
    ASSUME IInv, NEW t \in Thread,
           \/ \E x \in Subject, e \in Email, k \in Key : PostSignIn(t, x, e, k)
           \/ Fetch(t) \/ StoreKeys(t) \/ FindKey(t) \/ Resolve(t) \/ ResolveAgain(t)
    PROVE  IInv'
<1> USE DEF directory, login, provider, notes
<1>1. req[t] \in Request /\ StillHolds(req[t]) /\ Idle \in Request /\ StillHolds(Idle)
      /\ Idle.pc = "idle"
  BY Rows DEF IInv, TypeOK, RequestsHold, Idle
<1>2. ASSUME NEW x \in Subject, NEW e \in Email, NEW k \in Key, PostSignIn(t, x, e, k) PROVE IInv'
  <2>1. PICK pc \in {"fetch", "find_key"} :
            Begin(t, [Idle EXCEPT !.pc = pc, !.subject = x, !.user = e, !.key = k])
    BY <1>2 DEF PostSignIn
  <2> DEFINE q == [Idle EXCEPT !.pc = pc, !.subject = x, !.user = e, !.key = k]
  <2>2. req' = [req EXCEPT ![t] = q] /\ UNCHANGED Rest
    BY <1>2, <2>1 DEF PostSignIn, Begin, Rest
  <2>3. q \in Request /\ q.pc = pc /\ q.user = e /\ q.subject = x
    BY DEF Idle, Request, Pc
  <2> HIDE DEF q
  <2>4. StillHolds(q)
    BY <2>3 DEF StillHolds
  <2> QED
    BY <2>2, <2>3, <2>4, RequestAlone
<1>3. CASE Fetch(t)
  <2> DEFINE q == [req[t] EXCEPT !.pc = "store_keys", !.document = {published}]
  <2>1. UNCHANGED Rest /\ req[t].pc = "fetch"
        /\ (req' = [req EXCEPT ![t] = q] \/ req' = [req EXCEPT ![t] = Idle])
    BY <1>3, <1>1 DEF Fetch, Done, Rest, IInv, TypeOK
  <2>2. q \in Request /\ q.pc = "store_keys" /\ q.user = req[t].user /\ q.subject = req[t].subject
    BY <1>1 DEF Request, Pc, IInv, TypeOK
  <2> HIDE DEF q
  <2>3. StillHolds(q)
    BY <1>1, <2>1, <2>2 DEF StillHolds
  <2> QED
    BY <1>1, <2>1, <2>2, <2>3, RequestAlone
<1>4. CASE StoreKeys(t)
  <2> DEFINE q == [req[t] EXCEPT !.pc = "find_key", !.document = {}]
  <2>1. req' = [req EXCEPT ![t] = q] /\ req[t].pc = "store_keys" /\ keys' = req[t].document
        /\ UNCHANGED <<users, identities, sessions, tokens, invites, access, published>>
        /\ UNCHANGED <<loggedOut, promoted, signedIn>>
    BY <1>4, <1>1 DEF StoreKeys, IInv, TypeOK
  <2>2. q \in Request /\ q.pc = "find_key" /\ q.user = req[t].user /\ q.subject = req[t].subject
        /\ req[t].document \subseteq Key
    BY <1>1 DEF Request, Pc
  <2> HIDE DEF q
  <2>3. StillHolds(q)
    BY <1>1, <2>1, <2>2 DEF StillHolds
  <2>4. /\ signedIn \in [Subject -> SUBSET Email]
        /\ \A x \in Subject : signedIn[x] \subseteq {identities[x]}
    BY DEF IInv, TypeOK, IdentitiesHold
  <2> QED
    BY <2>1, <2>2, <2>3, <2>4, RequestOnly
<1>5. CASE FindKey(t)
  <2> DEFINE found == [Idle EXCEPT !.pc = "resolve", !.user = req[t].user, !.subject = req[t].subject]
             again == [req[t] EXCEPT !.pc = "fetch", !.forced = TRUE]
  <2>1. PICK q \in {found, again, Idle} : req' = [req EXCEPT ![t] = q]
    BY <1>5 DEF FindKey
  <2>2. UNCHANGED Rest /\ req[t].pc = "find_key"
    BY <1>5 DEF FindKey, Rest
  <2>3. found \in Request /\ found.pc = "resolve" /\ found.user = req[t].user
        /\ found.subject = req[t].subject
    BY <1>1 DEF Idle, Request, Pc
  <2>4. again \in Request /\ again.pc = "fetch" /\ again.user = req[t].user
        /\ again.subject = req[t].subject
    BY <1>1 DEF Request, Pc
  <2> HIDE DEF found, again
  <2>5. StillHolds(found) /\ StillHolds(again)
    BY <1>1, <2>2, <2>3, <2>4 DEF StillHolds
  <2> QED
    BY <1>1, <2>1, <2>2, <2>3, <2>4, <2>5, RequestAlone
<1>6. CASE Resolve(t) \/ ResolveAgain(t)
  <2> DEFINE x == req[t].subject
             on == [req[t] EXCEPT !.pc = "provision"]
  <2>1. req[t].pc \in {"resolve", "resolve_again"}
        /\ UNCHANGED <<users, identities, sessions, tokens, invites, access, published>>
        /\ UNCHANGED <<loggedOut, promoted, keys>>
    BY <1>6 DEF Resolve, ResolveAgain
  <2>2. x \in Subject /\ signedIn \in [Subject -> SUBSET Email]
        /\ identities \in [Subject -> Email \cup {Nobody}] /\ keys \subseteq Key
        /\ \A y \in Subject : signedIn[y] \subseteq {identities[y]}
    BY <1>1, <2>1 DEF StillHolds, IInv, TypeOK, IdentitiesHold
  <2>3. req' = [req EXCEPT ![t] = on] \/ req' = [req EXCEPT ![t] = Idle]
    BY <1>6 DEF Resolve, ResolveAgain, Goto, Done
  <2>4. on \in Request /\ on.pc = "provision" /\ on.user = req[t].user /\ on.subject = x
    BY <1>1 DEF Request, Pc
  <2> HIDE DEF on
  <2>5. StillHolds(on)
    BY <1>1, <2>1, <2>4 DEF StillHolds
  <2>6. \/ signedIn' = signedIn
        \/ identities[x] # Nobody /\ signedIn' = [signedIn EXCEPT ![x] = @ \cup {identities[x]}]
    BY <1>6 DEF Resolve, ResolveAgain, SignIn
  <2> HIDE DEF x
  <2>7. signedIn' \in [Subject -> SUBSET Email]
        /\ \A y \in Subject : signedIn'[y] \subseteq {identities[y]}
    BY <2>2, <2>6
  <2> QED
    BY <1>1, <2>1, <2>2, <2>3, <2>4, <2>5, <2>7, RequestOnly
<1> QED
  BY <1>2, <1>3, <1>4, <1>5, <1>6
-----------------------------------------------------------------------------
(* The requests that no step moves on.                                     *)
LEMMA NoRequest ==
    ASSUME TypeOK, RequestsHold, UsersStable, SessionsStable, UNCHANGED req,
           \A u \in Thread : req[u].pc = "activate" =>
               invites'[req[u].invite].used = invites[req[u].invite].used
    PROVE  req' \in [Thread -> Request] /\ RequestsHold'
BY StillHoldsStays DEF TypeOK, RequestsHold

(* A login session comes to be or is rewritten.                            *)
LEMMA NextSessionIsNew == Unused # {} => NextSession \in SessionId /\ sessions[NextSession].token = 0
BY DEF NextSession, Unused

LEMMA OneSession ==
    ASSUME TypeOK, SessionsHold, NEW s \in SessionId, NEW row \in Session,
           sessions' = [sessions EXCEPT ![s] = row],
           sessions[s].token # 0 => row.token # 0,
           row.token # 0 => row.user \in Email,
           sessions[s].revoked => row.revoked,
           loggedOut' \subseteq loggedOut \cup {s},
           loggedOut' # loggedOut => row.revoked /\ row.token # 0
    PROVE  sessions' \in [SessionId -> Session] /\ SessionsStable /\ SessionsHold'
           /\ loggedOut' \subseteq SessionId
BY DEF TypeOK, SessionsHold, SessionsStable

LEMMA NewSession ==
    ASSUME NEW e \in Email, NEW n \in Nat
    PROVE  LET row == [NoSession EXCEPT !.user = e, !.token = n]
           IN  row \in Session /\ row.token = n /\ row.user = e /\ row.revoked = FALSE
BY DEF NoSession, Session

(* Register, Issue, Revoke, and a session that expires.                    *)
LEMMA SessionSteps ==
    ASSUME IInv,
           \/ \E e \in Email : Register(e)
           \/ \E s \in SessionId : SessionExpires(s)
           \/ \E t \in Thread : Issue(t) \/ Revoke(t)
    PROVE  IInv'
<1> USE DEF directory, login, provider, notes
<1>1. ASSUME NEW e \in Email, Register(e) PROVE IInv'
  <2> DEFINE row == NewUser("user", TRUE)
             new == [NoSession EXCEPT !.user = e, !.token = tokens + 1]
             s == NextSession
  <2>1. row \in User /\ row.role = "user" /\ row.version = 0 /\ row.exists
    BY Rows DEF NewUser
  <2>2. new \in Session /\ new.token = tokens + 1 /\ new.user = e /\ tokens \in Nat
    <3>1. tokens \in Nat /\ tokens + 1 \in Nat
      BY DEF IInv, TypeOK
    <3> QED
      BY <3>1, NewSession
  <2>3. s \in SessionId /\ sessions[s].token = 0 /\ s \notin loggedOut
    BY <1>1, NextSessionIsNew DEF Register, IInv, SessionsHold
  <2>4. ~users[e].exists /\ users' = [users EXCEPT ![e] = row]
        /\ sessions' = [sessions EXCEPT ![s] = new] /\ tokens' = tokens + 1
        /\ access' = access \cup {AccessToken(e, row)}
        /\ UNCHANGED <<identities, invites, keys, published, req, loggedOut, promoted, signedIn>>
    BY <1>1 DEF Register
  <2> HIDE DEF row, new, s
  <2>5. MayBecome(users[e], row)
    BY <2>1, <2>4 DEF MayBecome
  <2>6. users' \in [Email -> User] /\ UsersHold' /\ UsersStable
        /\ \A a \in access : WasRead(a.user, a.role, a.version)'
    BY <2>1, <2>4, <2>5, OneUser DEF IInv
  <2>7. sessions' \in [SessionId -> Session] /\ SessionsStable
    BY <2>2, <2>3, <2>4 DEF IInv, TypeOK, SessionsStable
  <2>8. SessionsHold'
    BY <2>2, <2>3, <2>4 DEF IInv, TypeOK, SessionsHold
  <2>9. RequestsHold' /\ req' \in [Thread -> Request]
    BY <2>4, <2>6, <2>7, NoRequest DEF IInv
  <2>10. AccessToken(e, row) \in [user : Email, role : {"user", "admin"}, version : Nat]
         /\ TokensHold'
    BY <2>1, <2>4, <2>6 DEF AccessToken, TokensHold, WasRead, IInv, TypeOK
  <2>11. TypeOK'
    BY <2>2, <2>4, <2>6, <2>7, <2>9, <2>10 DEF IInv, TypeOK
  <2>12. InvitesHold'
    BY <2>4 DEF IInv, TypeOK, InvitesHold, IsAdmin
  <2>13. IdentitiesHold'
    BY <2>4 DEF IInv, TypeOK, IdentitiesHold
  <2> QED
    BY <2>6, <2>8, <2>9, <2>10, <2>11, <2>12, <2>13 DEF IInv
<1>2. ASSUME NEW t \in Thread, Issue(t) PROVE IInv'
  <2> PICK q \in Request : q = req[t]
    BY DEF IInv, TypeOK
  <2> DEFINE s == IF q.session = 0 THEN NextSession ELSE q.session
             row == Issued(sessions[s], q.user)
  <2>1. q \in Request /\ StillHolds(q) /\ q.pc = "issue" /\ q.user \in Email
        /\ q.role \in {"user", "admin"} /\ WasRead(q.user, q.role, q.version) /\ q.version \in Nat
    BY <1>2 DEF Issue, IInv, TypeOK, RequestsHold, StillHolds, Request
  <2>2. sessions' = [sessions EXCEPT ![s] = row] /\ tokens' = tokens + 1
        /\ access' = access \cup {AccessToken(q.user, q)} /\ req' = [req EXCEPT ![t] = Idle]
        /\ UNCHANGED <<users, identities, invites, keys, published, loggedOut, promoted, signedIn>>
    BY <1>2 DEF Issue, Done
  <2>3. s \in SessionId
    BY <1>2, <2>1, NextSessionIsNew DEF Issue, Request
  <2>4. AccessToken(q.user, q) = [user |-> q.user, role |-> q.role, version |-> q.version]
    BY DEF AccessToken
  <2>5. tokens \in Nat /\ tokens + 1 \in Nat /\ tokens + 1 # 0
    BY DEF IInv, TypeOK
  <2> HIDE DEF s
  <2>6. row \in Session /\ row.token = tokens + 1 /\ row.user = q.user
        /\ (sessions[s].revoked => row.revoked)
    <3>1. sessions[s] \in Session
      BY <2>3 DEF IInv, TypeOK
    <3>2. row \in Session
      BY <2>1, <2>5, <3>1 DEF Session, Issued
    <3>3. row.token = tokens + 1 /\ row.user = q.user
      BY <3>1 DEF Session, Issued
    <3>4. sessions[s].revoked => row.revoked
      BY <3>1 DEF Session, Issued
    <3> QED
      BY <3>2, <3>3, <3>4
  <2> HIDE DEF row
  <2>7. sessions' \in [SessionId -> Session] /\ SessionsStable /\ SessionsHold'
    <3>1. sessions[s].token # 0 => row.token # 0
      BY <2>5, <2>6
    <3>2. row.token # 0 => row.user \in Email
      BY <2>1, <2>6
    <3>3. loggedOut' = loggedOut
      BY <2>2
    <3> QED
      BY <2>2, <2>3, <2>6, <3>1, <3>2, <3>3, OneSession DEF IInv
  <2>8. UsersStable /\ \A a \in access : WasRead(a.user, a.role, a.version)'
    BY <2>2, SameUsers DEF IInv
  <2>9. StillHolds(Idle)'
    BY DEF StillHolds, Idle
  <2>10. req' \in [Thread -> Request] /\ RequestsHold'
    BY <2>2, <2>7, <2>8, <2>9, Rows, OneRequest DEF IInv
  <2>11. WasRead(q.user, q.role, q.version)'
    BY <2>1, <2>8, WasReadStays
  <2>12. TokensHold'
    BY <2>2, <2>4, <2>8, <2>11 DEF TokensHold
  <2>13. TypeOK'
    <3>1. access' \subseteq [user : Email, role : {"user", "admin"}, version : Nat]
      BY <2>1, <2>2, <2>4 DEF IInv, TypeOK
    <3> QED
      BY <2>2, <2>5, <2>7, <2>10, <3>1 DEF IInv, TypeOK
  <2>14. InvitesHold'
    BY <2>2 DEF IInv, TypeOK, InvitesHold, IsAdmin, Idle
  <2>15. IdentitiesHold' /\ UsersHold'
    BY <2>2 DEF IInv, TypeOK, IdentitiesHold, UsersHold
  <2> QED
    BY <2>7, <2>10, <2>12, <2>13, <2>14, <2>15 DEF IInv
<1>3. ASSUME NEW t \in Thread, Revoke(t) PROVE IInv'
  <2> DEFINE s == req[t].session
             row == [sessions[s] EXCEPT !.revoked = TRUE]
  <2>1. StillHolds(req[t]) /\ req[t].pc = "revoke"
    BY <1>3 DEF Revoke, IInv, RequestsHold
  <2>2. s \in SessionId /\ sessions[s].token # 0
    BY <2>1 DEF StillHolds
  <2>3. row \in Session /\ row.token = sessions[s].token /\ row.user = sessions[s].user
        /\ row.revoked
    BY <2>2 DEF IInv, TypeOK, Session
  <2>4. sessions' = [sessions EXCEPT ![s] = row] /\ req' = [req EXCEPT ![t] = Idle]
        /\ loggedOut' = loggedOut \cup {s}
        /\ UNCHANGED <<users, identities, tokens, invites, access, keys, published, promoted, signedIn>>
    BY <1>3 DEF Revoke, Done
  <2> HIDE DEF s, row
  <2>5. sessions' \in [SessionId -> Session] /\ SessionsStable /\ SessionsHold'
        /\ loggedOut' \subseteq SessionId
    <3>1. row.token # 0 => row.user \in Email
      BY <2>2, <2>3 DEF IInv, SessionsHold
    <3> QED
      BY <2>2, <2>3, <2>4, <3>1, OneSession DEF IInv
  <2>6. UsersStable /\ TokensHold'
    BY <2>4, SameUsers DEF IInv, TokensHold
  <2>7. StillHolds(Idle)'
    BY DEF StillHolds, Idle
  <2>8. req' \in [Thread -> Request] /\ RequestsHold'
    BY <2>4, <2>5, <2>6, <2>7, Rows, OneRequest DEF IInv
  <2>9. TypeOK'
    BY <2>4, <2>5, <2>8 DEF IInv, TypeOK
  <2>10. InvitesHold'
    BY <2>4 DEF IInv, TypeOK, InvitesHold, IsAdmin, Idle
  <2>11. IdentitiesHold' /\ UsersHold'
    BY <2>4 DEF IInv, TypeOK, IdentitiesHold, UsersHold
  <2> QED
    BY <2>5, <2>6, <2>8, <2>9, <2>10, <2>11 DEF IInv
<1>4. ASSUME NEW s \in SessionId, SessionExpires(s) PROVE IInv'
  <2> DEFINE row == [sessions[s] EXCEPT !.expired = TRUE]
  <2>1. row \in Session /\ row.token = sessions[s].token /\ row.user = sessions[s].user
        /\ (sessions[s].revoked => row.revoked)
    BY DEF IInv, TypeOK, Session
  <2>2. sessions' = [sessions EXCEPT ![s] = row]
        /\ UNCHANGED <<users, identities, tokens, invites, access, keys, published, req>>
        /\ UNCHANGED <<loggedOut, promoted, signedIn>>
    BY <1>4 DEF SessionExpires
  <2> HIDE DEF row
  <2>3. sessions' \in [SessionId -> Session] /\ SessionsStable /\ SessionsHold'
    <3>1. row.token # 0 => row.user \in Email
      BY <2>1 DEF IInv, SessionsHold
    <3> QED
      BY <2>1, <2>2, <3>1, OneSession DEF IInv
  <2>4. UsersStable /\ TokensHold'
    BY <2>2, SameUsers DEF IInv, TokensHold
  <2>5. req' \in [Thread -> Request] /\ RequestsHold'
    BY <2>2, <2>3, <2>4, NoRequest DEF IInv
  <2>6. TypeOK'
    BY <2>2, <2>3, <2>5 DEF IInv, TypeOK
  <2>7. InvitesHold' /\ IdentitiesHold' /\ UsersHold'
    BY <2>2 DEF IInv, InvitesHold, IsAdmin, IdentitiesHold, UsersHold
  <2> QED
    BY <2>3, <2>4, <2>5, <2>6, <2>7 DEF IInv
<1> QED
  BY <1>1, <1>2, <1>3, <1>4
-----------------------------------------------------------------------------
(* A user is blocked or becomes an administrator.                          *)
LEMMA UserSteps ==
    ASSUME IInv, (\E e \in Email : Block(e)) \/ \E t \in Thread : CommitBootstrap(t)
    PROVE  IInv'
<1> USE DEF directory, login, provider, notes
<1>1. ASSUME NEW e \in Email, NEW row \in User, MayBecome(users[e], row), users' = [users EXCEPT ![e] = row],
             UNCHANGED <<identities, sessions, tokens, invites, access, keys, published>>,
             UNCHANGED <<loggedOut, promoted, signedIn>>,
             req' = req \/ \E t \in Thread : req' = [req EXCEPT ![t] = Idle]
      PROVE  IInv'
  <2>1. users' \in [Email -> User] /\ UsersHold' /\ UsersStable /\ TokensHold'
    BY <1>1, OneUser DEF IInv, TokensHold
  <2>2. SessionsStable /\ SessionsHold' /\ StillHolds(Idle)'
    BY <1>1 DEF IInv, SessionsStable, SessionsHold, StillHolds, Idle
  <2>3. req' \in [Thread -> Request] /\ RequestsHold'
    BY <1>1, <2>1, <2>2, Rows, OneRequest, NoRequest DEF IInv
  <2>4. TypeOK'
    BY <1>1, <2>1, <2>3 DEF IInv, TypeOK
  <2>5. \A f \in Email : IsAdmin(f) => IsAdmin(f)'
    BY <2>1 DEF UsersStable, IsAdmin
  <2>6. InvitesHold'
    BY <1>1, <2>5 DEF IInv, TypeOK, InvitesHold, Idle
  <2>7. IdentitiesHold'
    BY <1>1, <2>1 DEF IInv, TypeOK, IdentitiesHold, UsersStable
  <2> QED
    BY <2>1, <2>2, <2>3, <2>4, <2>6, <2>7 DEF IInv
<1>2. ASSUME NEW e \in Email, Block(e) PROVE IInv'
  <2> DEFINE row == [users[e] EXCEPT !.active = FALSE]
  <2>1. users[e] \in User /\ (users[e].role = "user" => users[e].version = 0)
    BY DEF IInv, TypeOK, UsersHold
  <2>2. row \in User /\ row.role = users[e].role /\ row.version = users[e].version
    BY <2>1 DEF User
  <2>3. (users[e].exists => row.exists) /\ (row.password => users[e].password)
    BY <2>1 DEF User
  <2>4. users' = [users EXCEPT ![e] = row] /\ req' = req
        /\ UNCHANGED <<identities, sessions, tokens, invites, access, keys, published>>
        /\ UNCHANGED <<loggedOut, promoted, signedIn>>
    BY <1>2 DEF Block
  <2> HIDE DEF row
  <2>5. MayBecome(users[e], row)
    BY <2>1, <2>2, <2>3 DEF MayBecome
  <2> QED
    BY <1>1, <2>2, <2>3, <2>4, <2>5
<1>3. ASSUME NEW t \in Thread, CommitBootstrap(t) PROVE IInv'
  <2> PICK q \in Request : q = req[t]
    BY DEF IInv, TypeOK
  <2> DEFINE e == q.user
             old == Promoted(users[e], q.version)
             new == NewUser("admin", TRUE)
  <2>1. e \in Email /\ q.version \in Nat /\ users[e] \in User
    BY <1>3 DEF CommitBootstrap, IInv, TypeOK, RequestsHold, StillHolds, Request
  <2>2. req' = [req EXCEPT ![t] = Idle]
        /\ UNCHANGED <<identities, sessions, tokens, invites, access, keys, published>>
        /\ UNCHANGED <<loggedOut, promoted, signedIn>>
    BY <1>3 DEF CommitBootstrap, Done
  <2>3. \/ users' = [users EXCEPT ![e] = old]
        \/ users' = users
        \/ ~users[e].exists /\ users' = [users EXCEPT ![e] = new]
    BY <1>3 DEF CommitBootstrap
  <2>4. old \in User /\ MayBecome(users[e], old)
    BY <2>1, Rows
  <2>5. old.password => users[e].password
    BY <2>1 DEF Promoted, User
  <2>6. new \in User /\ new.role = "admin"
    BY Rows DEF NewUser
  <2>7. users = [users EXCEPT ![e] = users[e]] /\ (users[e].role = "user" => users[e].version = 0)
    BY <2>1 DEF IInv, TypeOK, UsersHold
  <2> HIDE DEF e, old, new
  <2>8. CASE users' = [users EXCEPT ![e] = old]
    BY <1>1, <2>1, <2>2, <2>4, <2>5, <2>8
  <2>9. CASE users' = users
    <3>1. MayBecome(users[e], users[e])
      BY <2>7 DEF MayBecome
    <3> QED
      BY <1>1, <2>1, <2>2, <2>7, <2>9, <3>1
  <2>10. CASE ~users[e].exists /\ users' = [users EXCEPT ![e] = new]
    <3>1. MayBecome(users[e], new)
      BY <2>6, <2>10 DEF MayBecome
    <3> QED
      BY <1>1, <2>1, <2>2, <2>6, <2>10, <3>1
  <2> QED
    BY <2>3, <2>8, <2>9, <2>10
<1> QED
  BY <1>2, <1>3

(* An invite is made, expires, or is used up while its lock is held.       *)
LEMMA InviteSteps ==
    ASSUME IInv,
           \/ \E i \in Invite : InviteExpires(i) \/ \E e \in Email : CreateInvite(i, e)
           \/ \E t \in Thread : CommitActivation(t)
    PROVE  IInv'
<1> USE DEF directory, login, provider, notes
<1>1. ASSUME NEW i \in Invite, NEW row \in InviteRow, invites' = [invites EXCEPT ![i] = row],
             invites[i].used <=> row.used,
             UNCHANGED <<users, identities, sessions, tokens, access, keys, published, req>>,
             UNCHANGED <<loggedOut, promoted, signedIn>>
      PROVE  IInv'
  <2>1. UsersStable /\ SessionsStable /\ TokensHold' /\ UsersHold' /\ SessionsHold'
    BY <1>1, SameUsers DEF IInv, SessionsStable, SessionsHold, TokensHold, UsersHold
  <2>2. \A j \in Invite : invites'[j].used <=> invites[j].used
    BY <1>1 DEF IInv, TypeOK
  <2>3. invites' \in [Invite -> InviteRow]
    BY <1>1 DEF IInv, TypeOK
  <2>4. RequestsHold'
    BY <1>1, <2>1, <2>2 DEF IInv, RequestsHold, StillHolds, WasRead
  <2>5. TypeOK'
    BY <1>1, <2>3 DEF IInv, TypeOK
  <2>6. InvitesHold' /\ IdentitiesHold'
    BY <1>1, <2>2 DEF IInv, InvitesHold, IsAdmin, IdentitiesHold
  <2> QED
    BY <2>1, <2>4, <2>5, <2>6 DEF IInv
<1>2. ASSUME NEW i \in Invite, InviteExpires(i) PROVE IInv'
  <2>1. [invites[i] EXCEPT !.expired = TRUE] \in InviteRow
        /\ ([invites[i] EXCEPT !.expired = TRUE].used <=> invites[i].used)
    BY DEF IInv, TypeOK, InviteRow
  <2> QED
    BY <1>1, <1>2, <2>1 DEF InviteExpires
<1>3. ASSUME NEW i \in Invite, NEW e \in Email, CreateInvite(i, e) PROVE IInv'
  <2>1. [invites[i] EXCEPT !.exists = TRUE] \in InviteRow
        /\ ([invites[i] EXCEPT !.exists = TRUE].used <=> invites[i].used)
    BY DEF IInv, TypeOK, InviteRow
  <2> QED
    BY <1>1, <1>3, <2>1 DEF CreateInvite
<1>4. ASSUME NEW t \in Thread, CommitActivation(t) PROVE IInv'
  <2> PICK q \in Request : q = req[t]
    BY DEF IInv, TypeOK
  <2> DEFINE e == q.user
             i == q.invite
             row == Promoted(users[e], q.version)
             used == [invites[i] EXCEPT !.used = TRUE]
  <2>1. q.pc = "activate" /\ e \in Email /\ i \in Invite /\ users[e].exists /\ ~invites[i].used
        /\ q.version \in Nat /\ users[e] \in User
    BY <1>4 DEF CommitActivation, IInv, TypeOK, RequestsHold, StillHolds, Request
  <2>2. req' = [req EXCEPT ![t] = Idle] /\ users' = [users EXCEPT ![e] = row]
        /\ invites' = [invites EXCEPT ![i] = used]
        /\ promoted' = [promoted EXCEPT ![i] = @ \cup {e}]
        /\ UNCHANGED <<identities, sessions, tokens, access, keys, published, loggedOut, signedIn>>
    BY <1>4 DEF CommitActivation, Done
  <2>3. row \in User /\ MayBecome(users[e], row) /\ row.role = "admin" /\ row.exists
    BY <2>1, Rows
  <2>4. used \in InviteRow /\ used.used
    <3>1. invites[i] \in InviteRow
      BY <2>1 DEF IInv, TypeOK
    <3> QED
      BY <3>1 DEF InviteRow
  <2> HIDE DEF e, i, row, used
  <2>5. users' \in [Email -> User] /\ UsersHold' /\ UsersStable /\ TokensHold'
    BY <2>1, <2>2, <2>3, OneUser DEF IInv, TokensHold
  <2>6. SessionsStable /\ SessionsHold' /\ StillHolds(Idle)'
    BY <2>2 DEF IInv, SessionsStable, SessionsHold, StillHolds, Idle
  <2>7. \A u \in Thread \ {t} : req[u].pc = "activate" =>
            /\ req[u].invite # i
            /\ invites'[req[u].invite].used = invites[req[u].invite].used
    <3>1. \A u \in Thread \ {t} : req[u].pc = "activate" => req[u].invite # i
      BY <2>1 DEF IInv, InvitesHold, i
    <3>2. \A u \in Thread : req[u].pc = "activate" => req[u].invite \in Invite
      BY DEF IInv, RequestsHold, StillHolds
    <3> QED
      BY <2>2, <3>1, <3>2 DEF IInv, TypeOK
  <2>8. req' \in [Thread -> Request] /\ RequestsHold'
    BY <2>2, <2>5, <2>6, <2>7, Rows, OneRequest DEF IInv
  <2>9. TypeOK'
    BY <2>1, <2>2, <2>4, <2>5, <2>8 DEF IInv, TypeOK
  <2>10. \A f \in Email : IsAdmin(f) => IsAdmin(f)'
    BY <2>5 DEF UsersStable, IsAdmin
  <2>11. IsAdmin(e)' /\ promoted[i] = {}
    BY <2>1, <2>2, <2>3 DEF IInv, TypeOK, IsAdmin, InvitesHold
  <2>12. InvitesHold'
    <3>1. \A u, w \in Thread :
             req'[u].pc = "activate" /\ req'[w].pc = "activate" /\ req'[u].invite = req'[w].invite => u = w
      BY <2>2 DEF IInv, TypeOK, InvitesHold, Idle
    <3>2. \A j \in Invite \ {i} : promoted'[j] = promoted[j] /\ invites'[j] = invites[j]
      BY <2>1, <2>2 DEF IInv, TypeOK
    <3>3. promoted'[i] = {e} /\ invites'[i].used
      BY <2>1, <2>2, <2>4, <2>11 DEF IInv, TypeOK
    <3>4. \A j \in Invite : \A f \in promoted[j] : f \in Email /\ IsAdmin(f)
      BY DEF IInv, TypeOK, InvitesHold
    <3> QED
      BY <2>10, <2>11, <3>1, <3>2, <3>3, <3>4 DEF IInv, InvitesHold
  <2>13. IdentitiesHold'
    BY <2>2, <2>5 DEF IInv, TypeOK, IdentitiesHold, UsersStable
  <2> QED
    BY <2>5, <2>6, <2>8, <2>9, <2>12, <2>13 DEF IInv
<1> QED
  BY <1>2, <1>3, <1>4

(* A subject without a user gets one of its own, or finds it taken.        *)
LEMMA ProvisionStep == ASSUME IInv, NEW t \in Thread, Provision(t) PROVE IInv'
<1> USE DEF directory, login, provider, notes
<1> PICK q \in Request : q = req[t]
  BY DEF IInv, TypeOK
<1>1. q.pc = "provision" /\ q.user \in Email /\ q.subject \in Subject /\ StillHolds(q)
  BY DEF Provision, IInv, RequestsHold, StillHolds
<1>2. CASE Collides(q)
  <2> DEFINE again == [q EXCEPT !.pc = "resolve_again"]
  <2>1. req' = [req EXCEPT ![t] = again] /\ UNCHANGED Rest
    BY <1>2 DEF Provision, Goto, Rest, IInv, TypeOK
  <2>2. again \in Request /\ again.pc = "resolve_again" /\ again.user = q.user
        /\ again.subject = q.subject
    BY DEF Request, Pc
  <2> HIDE DEF again
  <2>3. StillHolds(again)
    BY <1>1, <2>2 DEF StillHolds
  <2> QED
    BY <2>1, <2>2, <2>3, RequestAlone
<1>3. CASE ~Collides(q)
  <2> DEFINE e == q.user
             x == q.subject
             row == NewUser("user", FALSE)
  <2>1. e \in Email /\ x \in Subject /\ ~users[e].exists /\ identities[x] = Nobody /\ e # Nobody
    BY <1>1, <1>3 DEF Collides
  <2>2. users' = [users EXCEPT ![e] = row] /\ identities' = [identities EXCEPT ![x] = e]
        /\ signedIn' = [signedIn EXCEPT ![x] = @ \cup {e}] /\ req' = [req EXCEPT ![t] = Idle]
        /\ UNCHANGED <<sessions, tokens, invites, access, keys, published, loggedOut, promoted>>
    BY <1>3 DEF Provision, Done
  <2>3. row \in User /\ row.role = "user" /\ row.version = 0 /\ row.exists /\ ~row.password
    BY Rows DEF NewUser
  <2> HIDE DEF e, x, row
  <2>4. MayBecome(users[e], row)
    BY <2>1, <2>3 DEF MayBecome
  <2>5. users' \in [Email -> User] /\ UsersHold' /\ UsersStable /\ TokensHold'
    BY <2>1, <2>2, <2>3, <2>4, OneUser DEF IInv, TokensHold
  <2>6. SessionsStable /\ SessionsHold' /\ StillHolds(Idle)'
    BY <2>2 DEF IInv, SessionsStable, SessionsHold, StillHolds, Idle
  <2>7. req' \in [Thread -> Request] /\ RequestsHold'
    BY <2>2, <2>5, <2>6, Rows, OneRequest DEF IInv
  <2>8. TypeOK'
    BY <2>1, <2>2, <2>5, <2>7 DEF IInv, TypeOK
  <2>9. \A f \in Email : IsAdmin(f) => IsAdmin(f)'
    BY <2>5 DEF UsersStable, IsAdmin
  <2>10. InvitesHold'
    BY <2>2, <2>9 DEF IInv, TypeOK, InvitesHold, Idle
  <2>11. IdentitiesHold'
    <3>1. \A y \in Subject : identities[y] # e
      BY <2>1 DEF IInv, IdentitiesHold
    <3>2. identities'[x] = e /\ users'[e] = row /\ signedIn[x] = {}
      BY <2>1, <2>2 DEF IInv, TypeOK, IdentitiesHold
    <3>3. \A y \in Subject \ {x} : identities'[y] = identities[y] /\ signedIn'[y] = signedIn[y]
      BY <2>2 DEF IInv, TypeOK
    <3>4. \A y \in Subject : identities[y] # Nobody =>
             users'[identities[y]].exists /\ ~users'[identities[y]].password
      BY <2>5 DEF IInv, TypeOK, IdentitiesHold, UsersStable
    <3>5. signedIn'[x] = {e}
      BY <2>1, <2>2, <3>2 DEF IInv, TypeOK
    <3> QED
      BY <2>1, <2>3, <3>1, <3>2, <3>3, <3>4, <3>5 DEF IInv, IdentitiesHold
  <2> QED
    BY <2>5, <2>6, <2>7, <2>8, <2>10, <2>11 DEF IInv
<1> QED
  BY <1>2, <1>3
-----------------------------------------------------------------------------
LEMMA StepIInv == IInv /\ [Next]_vars => IInv'
<1> SUFFICES ASSUME IInv, [Next]_vars PROVE IInv'
  OBVIOUS
<1>1. CASE RotateKeys \/ UNCHANGED vars
  <2>1. UNCHANGED <<users, identities, sessions, tokens, invites, access, keys, req>>
        /\ UNCHANGED <<loggedOut, promoted, signedIn>> /\ published' \in Key
    BY <1>1 DEF RotateKeys, vars, directory, login, provider, notes, IInv, TypeOK
  <2>2. TypeOK'
    BY <2>1 DEF IInv, TypeOK
  <2>3. RequestsHold' /\ UsersHold' /\ TokensHold' /\ SessionsHold'
    BY <2>1 DEF IInv, RequestsHold, StillHolds, WasRead, UsersHold, TokensHold, SessionsHold
  <2>4. InvitesHold' /\ IdentitiesHold'
    BY <2>1 DEF IInv, InvitesHold, IsAdmin, IdentitiesHold
  <2> QED
    BY <2>2, <2>3, <2>4 DEF IInv
<1> QED
  BY <1>1, PasswordRequests, InviteRequests, ExternalRequests, SessionSteps, UserSteps, InviteSteps,
     ProvisionStep DEF Next

LEMMA Inductive == Spec => []IInv
<1>1. Init => TypeOK
  <2>1. NoUser \in User /\ NoSession \in Session /\ NoInvite \in InviteRow
    BY DEF NoUser, User, NoSession, Session, NoInvite, InviteRow
  <2>2. \A old : [e \in Email |-> IF e \in old THEN NewUser("user", TRUE) ELSE NoUser] \in [Email -> User]
    BY <2>1, Rows
  <2> SUFFICES ASSUME Init PROVE TypeOK
    OBVIOUS
  <2>3. users \in [Email -> User]
    <3>1. PICK old \in SUBSET Email :
              users = [e \in Email |-> IF e \in old THEN NewUser("user", TRUE) ELSE NoUser]
      BY DEF Init
    <3> QED
      BY <2>2, <3>1
  <2>4. sessions \in [SessionId -> Session] /\ invites \in [Invite -> InviteRow]
    BY <2>1 DEF Init
  <2>5. req \in [Thread -> Request]
    BY Rows DEF Init
  <2>6. published \in Key /\ keys \subseteq Key /\ tokens \in Nat
    BY DEF Init
  <2>7. access = {} /\ loggedOut = {} /\ identities \in [Subject -> Email \cup {Nobody}]
        /\ promoted \in [Invite -> SUBSET Email] /\ signedIn \in [Subject -> SUBSET Email]
    BY DEF Init
  <2> QED
    BY <2>3, <2>4, <2>5, <2>6, <2>7 DEF TypeOK
<1>2. Init => RequestsHold /\ UsersHold /\ TokensHold
  BY Rows DEF Init, RequestsHold, UsersHold, TokensHold, NoUser, NewUser
<1>3. Init => SessionsHold /\ InvitesHold /\ IdentitiesHold
  BY DEF Init, SessionsHold, InvitesHold, IdentitiesHold, NoSession, Idle
<1> QED
  BY <1>1, <1>2, <1>3, StepIInv, PTL DEF Spec, IInv

(* A session that was logged out stays revoked, also under a refresh that  *)
(* read it before the logout and writes its next token afterwards.         *)
THEOREM LogoutsAreFinal == Spec => []LogoutIsFinal
<1>1. IInv => LogoutIsFinal
  BY DEF IInv, SessionsHold, LogoutIsFinal
<1> QED
  BY <1>1, Inductive, PTL

(* A token that is accepted names the role its user has, whatever logins,  *)
(* refreshes and promotions overlap and whichever updates are lost.        *)
THEOREM TokensAreCurrent == Spec => []AcceptedTokensAreCurrent
<1>1. IInv => AcceptedTokensAreCurrent
  <2> SUFFICES ASSUME IInv, NEW a \in access, Accepted(a) PROVE a.role = users[a.user].role
    BY DEF AcceptedTokensAreCurrent
  <2>1. a.user \in Email /\ a.role \in {"user", "admin"} /\ WasRead(a.user, a.role, a.version)
    BY DEF IInv, TypeOK, TokensHold
  <2>2. users[a.user].role \in {"user", "admin"} /\ users[a.user].version = a.version
    BY <2>1 DEF Accepted, IInv, TypeOK, User
  <2> QED
    BY <2>1, <2>2 DEF WasRead
<1> QED
  BY <1>1, Inductive, PTL

(* An invite makes one administrator, by the lock on its row.              *)
THEOREM InvitesMakeOne == Spec => []InvitesAreSingleUse
<1>1. IInv => InvitesAreSingleUse
  <2> SUFFICES ASSUME IInv, NEW i \in Invite
               PROVE  Cardinality(promoted[i]) <= 1 /\ \A e \in promoted[i] : IsAdmin(e)
    BY DEF InvitesAreSingleUse
  <2>1. CASE promoted[i] = {}
    BY <2>1, FS_EmptySet
  <2>2. CASE promoted[i] # {}
    <3>1. PICK e \in promoted[i] : promoted[i] = {e}
      BY <2>2 DEF IInv, InvitesHold
    <3>2. Cardinality(promoted[i]) = 1
      BY <3>1, FS_Singleton
    <3>3. \A f \in promoted[i] : IsAdmin(f)
      BY DEF IInv, InvitesHold
    <3> QED
      BY <3>2, <3>3
  <2> QED
    BY <2>1, <2>2
<1> QED
  BY <1>1, Inductive, PTL

(* A subject is signed in as one user, who is no one else's, whichever     *)
(* first sign-ins collide on the constraints.                              *)
THEOREM SubjectsKeepTheirUser == Spec => []SignInsAgree
<1>1. IInv => SignInsAgree
  BY DEF IInv, TypeOK, IdentitiesHold, SignInsAgree
<1> QED
  BY <1>1, Inductive, PTL
=============================================================================
