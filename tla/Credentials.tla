------------------------------ MODULE Credentials ------------------------------
(***************************************************************************)
(* The personal credentials of a member of a workspace and the member's    *)
(* choice of a provider: secrets/store.py, secrets/crypto.py and           *)
(* user_settings/router.py.                                                *)
(*                                                                         *)
(* A secret is sealed with a data key of its own, and the data key is      *)
(* wrapped with a master key; both are named here by the number of the     *)
(* seal.  Every request reads a row without a lock, computes, and writes   *)
(* in a later statement the columns that differ from what it has read; a   *)
(* worker that uses a secret answers from the row it has read.             *)
(***************************************************************************)
EXTENDS Naturals, FiniteSets

CONSTANTS
    Provider,       \* providers of the catalogue
    Model,          \* their models, each a pair of its provider and a name
    Credential,     \* credentials ever created
    Thread,         \* threads that serve requests, rotate keys, or work on jobs
    OldKey, NewKey, \* master keys before and after the rotation
    Nothing,
    MaxSeals        \* bound: secrets ever sealed

ASSUME CredentialsAssumption == OldKey # NewKey /\ Model \subseteq Provider \X STRING /\ MaxSeals \in Nat

VARIABLES
    rows,           \* rows of credentials
    selection,      \* the member's settings row, or Nothing
    configured,     \* master key of the API's processes
    thr,            \* thr[t]: the request of a thread, and the row it has read
    \* bookkeeping
    sealed,         \* number of seals made
    deleted,        \* credentials whose deletion was committed
    opened          \* credentials whose secret a worker got that asked after that

credVars == <<rows, selection, configured, thr, sealed, deleted, opened>>

Policy == {"platform_first", "user_only"}
Random == 0                                 \* what deletion leaves
NoRow == [status |-> "none", provider |-> Nothing, payload |-> Random,
          wrapped |-> <<Random, OldKey>>, key |-> OldKey]
Idle == [op |-> "idle", id |-> Nothing, read |-> NoRow, body |-> Nothing]

InitCredentials ==
    /\ rows = [c \in Credential |-> NoRow]
    /\ selection = Nothing /\ configured = OldKey
    /\ thr = [t \in Thread |-> Idle]
    /\ sealed = 0 /\ deleted = {} /\ opened = {}

Active(c) == rows[c].status = "active"
HasActive(p) == \E c \in Credential : Active(c) /\ rows[c].provider = p
Exists(c) == rows[c].status # "none"

(* decrypt_payload(): the wrapped key opens under the master key that      *)
(* wrapped it, and the payload under its own data key.                     *)
Opens(row, key) == row.payload # Random /\ row.wrapped = <<row.payload, key>>
-----------------------------------------------------------------------------
(* create() is a single insertion.                                         *)
Create(c, p) ==
    /\ ~Exists(c) /\ sealed < MaxSeals
    /\ sealed' = sealed + 1
    /\ rows' = [rows EXCEPT ![c] = [status |-> "active", provider |-> p, payload |-> sealed',
                                    wrapped |-> <<sealed', configured>>, key |-> configured]]
    /\ UNCHANGED <<selection, configured, thr, deleted, opened>>

Read(t, op, c) ==
    /\ thr[t].op = "idle" /\ Exists(c)
    /\ thr' = [thr EXCEPT ![t] = [op |-> op, id |-> c, read |-> rows[c], body |-> Nothing]]
    /\ UNCHANGED <<rows, selection, configured, sealed, deleted, opened>>

ReadToReplace(t, c) == Active(c) /\ Read(t, "replace", c)
ReadToDelete(t, c) == Read(t, "delete", c)
ReadToRewrap(t, c) == rows[c].wrapped[2] = OldKey /\ rows[c].wrapped[1] # Random /\ Read(t, "rewrap", c)

(* Fault: the row is written as a whole.                                   *)
FaultyWritten(was, now, current) == now

(* The columns that a request changed are the ones it writes; random bytes *)
(* always differ.                                                          *)
Written(was, now, current) ==
    LET scrambled == IF now.payload = Random THEN {"payload", "wrapped"} ELSE {}
    IN [f \in DOMAIN now |-> IF now[f] # was[f] \/ f \in scrambled THEN now[f] ELSE current[f]]

Commit(t, now) ==
    /\ rows' = [rows EXCEPT ![thr[t].id] = Written(thr[t].read, now, @)]
    /\ thr' = [thr EXCEPT ![t] = Idle]
    /\ UNCHANGED <<selection, configured, opened>>

Replace(t) ==
    /\ thr[t].op = "replace" /\ sealed < MaxSeals
    /\ sealed' = sealed + 1
    /\ Commit(t, [thr[t].read EXCEPT !.payload = sealed', !.wrapped = <<sealed', configured>>,
                                     !.key = configured])
    /\ UNCHANGED deleted

Delete(t) ==
    /\ thr[t].op = "delete"
    /\ Commit(t, [thr[t].read EXCEPT !.status = "deleted", !.payload = Random,
                                     !.wrapped = <<Random, OldKey>>])
    /\ deleted' = deleted \cup {thr[t].id}
    /\ UNCHANGED sealed

Rewrap(t) ==
    /\ thr[t].op = "rewrap"
    /\ Commit(t, [thr[t].read EXCEPT !.wrapped = <<@[1], NewKey>>, !.key = NewKey])
    /\ UNCHANGED <<sealed, deleted>>

(* The service is restarted with the new master key.                       *)
Reconfigure ==
    /\ configured = OldKey /\ configured' = NewKey
    /\ UNCHANGED <<rows, selection, thr, sealed, deleted, opened>>

(* use(): a worker whose wrapper has the given key reads the row; what it  *)
(* tests and decrypts is what it has read, while others may commit.        *)
ReadToUse(t, c, key) ==
    /\ thr[t].op = "idle" /\ Exists(c)
    /\ thr' = [thr EXCEPT ![t] = [op |-> "use", id |-> c, read |-> rows[c],
                 body |-> [key |-> key, late |-> c \in deleted]]]
    /\ UNCHANGED <<rows, selection, configured, sealed, deleted, opened>>

MayOpen(row, key) == row.status = "active" /\ row.key = key /\ Opens(row, key)

(* The secret is returned, or the use refused.                             *)
Use(t) ==
    /\ thr[t].op = "use"
    /\ opened' = IF MayOpen(thr[t].read, thr[t].body.key) /\ thr[t].body.late
                 THEN opened \cup {thr[t].id} ELSE opened
    /\ thr' = [thr EXCEPT ![t] = Idle]
    /\ UNCHANGED <<rows, selection, configured, sealed, deleted>>
-----------------------------------------------------------------------------
(* PUT /api/provider-settings: what the body asks for is tested against    *)
(* the catalogue and the credentials, then the settings row is read.       *)
ReadSelection(t, m, policy) ==
    /\ thr[t].op = "idle"
    /\ policy = "user_only" => HasActive(m[1])
    /\ thr' = [thr EXCEPT ![t] = [op |-> "select", id |-> Nothing, read |-> selection,
                 body |-> [provider |-> m[1], model |-> m, policy |-> policy]]]
    /\ UNCHANGED <<rows, selection, configured, sealed, deleted, opened>>

(* A second insertion is refused by the unique constraint.                 *)
Select(t) ==
    /\ thr[t].op = "select"
    /\ LET was == thr[t].read  body == thr[t].body
       IN selection' =
            IF was = Nothing THEN IF selection = Nothing THEN body ELSE selection
            ELSE [f \in DOMAIN body |-> IF body[f] # was[f] THEN body[f] ELSE selection[f]]
    /\ thr' = [thr EXCEPT ![t] = Idle]
    /\ UNCHANGED <<rows, configured, sealed, deleted, opened>>

Request(t) ==
    \/ \E c \in Credential : ReadToReplace(t, c) \/ ReadToDelete(t, c) \/ ReadToRewrap(t, c)
    \/ \E m \in Model, policy \in Policy : ReadSelection(t, m, policy)
    \/ \E c \in Credential, key \in {OldKey, NewKey} : ReadToUse(t, c, key)
    \/ Replace(t) \/ Delete(t) \/ Rewrap(t) \/ Use(t) \/ Select(t)

NextCredentials ==
    \/ \E c \in Credential, p \in Provider : Create(c, p)
    \/ \E t \in Thread : Request(t)
    \/ Reconfigure
-----------------------------------------------------------------------------
(* Once the deletion of a credential is committed no worker that asks for  *)
(* its secret gets it, whatever replaced or rotated it meanwhile.  (One    *)
(* that had read the row before is still answered with the secret.)        *)
DeletedIsUnusable == opened = {}

(* SECRET_MODEL.md: delete marks the row as deleted and destroys ciphertext *)
(* and wrapped key.                                                        *)
DeletedIsDestroyed ==
    \A c \in Credential : rows[c].status = "deleted" =>
        \A key \in {OldKey, NewKey} : ~Opens(rows[c], key)

(* The secret of an active credential opens with the key its row names.    *)
ActiveIsReadable == \A c \in Credential : Active(c) => Opens(rows[c], rows[c].key)

(* The stored selection is a provider with a model of its own.             *)
SelectionIsOffered == selection # Nothing => selection.model[1] = selection.provider
=============================================================================
