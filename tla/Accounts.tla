------------------------------ MODULE Accounts ------------------------------
(***************************************************************************)
(* The administrators of the server: the rows of admin_users and           *)
(* admin_invites (src/internal/store/admin_*.go), the login sessions in    *)
(* memory (serverapp/sessions.go) and the HTTP handlers that work on both  *)
(* (serverapp/auth.go, account.go, admin_users.go).                        *)
(*                                                                         *)
(* A handler runs concurrently with every other one; each of its steps is  *)
(* one SQL transaction (the store has a single connection) or one critical *)
(* section of the session table.  What a handler refuses changes nothing,  *)
(* so that wrong passwords, taken user names, malformed input and a wrong  *)
(* CSRF token are the steps that are not taken.                            *)
(*                                                                         *)
(* Passwords are numbered: 0 is the one an account is created with, and a  *)
(* change takes a number not used before, as every bcrypt hash differs     *)
(* from all earlier ones by its salt.                                      *)
(* A definition named X_... is a faulty variant of X; see Hub.             *)
(***************************************************************************)
EXTENDS Integers, FiniteSets

CONSTANTS
  Requests,    \* bound: handlers that may run at the same time
  MaxAccounts, \* bound: accounts ever created
  MaxInvites,  \* bound: invitations ever created
  Tokens,      \* bound: sessions at a time, with the tokens of requests
  MaxPassword, \* bound: changes of the password of one account
  None,
  Env          \* bound: environment events: "store", "expire", "restart"

Accounts == 1 .. MaxAccounts
Owner == 1      \* the account BootstrapAdmin creates at the first start
Invites == 1 .. MaxInvites

ASSUME AccountsAssumption ==
  /\ MaxAccounts \in Nat \ {0} /\ MaxInvites \in Nat /\ MaxPassword \in Nat
  /\ None \notin Nat /\ None \notin Tokens
  /\ Env \subseteq {"store", "expire", "restart"}

VARIABLES
  rows,       \* accounts with a row in admin_users
  enabled,    \* those whose row says enabled = 1
  password,   \* admin_users.password_hash
  created,    \* accounts created so far; identifiers are never used again
  invite,     \* the state of a row of admin_invites
  usedBy,     \* admin_invites.used_by_admin_id
  invited,    \* invitations created so far
  sessions,   \* sessionStore.sessions; of each, its token, its account and,
              \* as history, whether it should be gone
  req,        \* per handler: where it is, whose session it runs under, the
              \* token of that session, the account it acts on, and the
              \* password it has verified
  from        \* history: the invitation an account registered with

vars == <<rows, enabled, password, created, invite, usedBy, invited, sessions,
          req, from>>
adminRows == <<rows, enabled, password, created, from>>
inviteRows == <<invite, usedBy, invited>>

Place == {"idle", "checked", "found", "admitted", "changing", "dropping", "signing"}
InviteState == {"none", "open", "used", "revoked"}

TypeOK ==
  /\ rows \subseteq Accounts /\ enabled \subseteq rows
  /\ password \in [Accounts -> 0 .. MaxPassword]
  /\ created \in 1 .. MaxAccounts
  /\ rows \subseteq 1 .. created
  /\ invite \in [Invites -> InviteState]
  /\ usedBy \in [Invites -> Accounts \cup {None}]
  /\ invited \in 0 .. MaxInvites
  /\ sessions \subseteq [token : Tokens, user : Accounts, revoked : BOOLEAN]
  /\ \A s, t \in sessions : s.token = t.token => s = t
  /\ req \in [Requests -> [at : Place, by : Accounts, token : Tokens \cup {None},
                           on : Accounts \cup {None}, read : 0 .. MaxPassword]]
  /\ from \in [Accounts -> Invites \cup {None}]

Idle == [at |-> "idle", by |-> Owner, token |-> None, on |-> None, read |-> 0]

(* After the first start: the owner and nobody else. *)
Init ==
  /\ rows = {Owner} /\ enabled = {Owner} /\ created = Owner
  /\ password = [a \in Accounts |-> 0]
  /\ invite = [i \in Invites |-> "none"] /\ usedBy = [i \in Invites |-> None]
  /\ invited = 0
  /\ sessions = {}
  /\ req = [r \in Requests |-> Idle]
  /\ from = [a \in Accounts |-> None]

Goto(r, at) == req' = [req EXCEPT ![r].at = at]
Answer(r) == req' = [req EXCEPT ![r] = Idle]
At(r, at) == req[r].at = at
ByOwner(r) == req[r].by = Owner

----------------------------------------------------------------------------
(* Sessions. *)

(* sessionStore.create, the last step of login, register and               *)
(* changeOwnPassword; a token is random and not that of another session,   *)
(* nor one that a request still holds.                                     *)
Fresh_when_requests_differ(t) == \A r \in Requests : req[r].token # t
Fresh(t) == /\ \A s \in sessions : s.token # t
            /\ \A r \in Requests : req[r].token # t
Sign(r) ==
  /\ At(r, "signing")
  /\ \E t \in Tokens :
       /\ Fresh(t)
       /\ sessions' = sessions \cup
            {[token |-> t, user |-> req[r].by, revoked |-> FALSE]}
  /\ Answer(r)
  /\ UNCHANGED <<adminRows, inviteRows>>

(* sessionStore.deleteUser, after the commit of a new password, of a       *)
(* disabling or of a deletion; only a new password is answered with a new  *)
(* session.                                                                *)
SessionsOf_the_request(r) == {s \in sessions : s.token = req[r].token}
SessionsOf(r) == {s \in sessions : s.user = req[r].on}
Drop(r) ==
  /\ At(r, "dropping")
  /\ sessions' = sessions \ SessionsOf(r)
  /\ IF req[r].on = req[r].by THEN Goto(r, "signing") ELSE Answer(r)
  /\ UNCHANGED <<adminRows, inviteRows>>

(* A session ends 12 hours after its creation; get refuses it from then on. *)
Expire ==
  /\ "expire" \in Env
  /\ \E s \in sessions : sessions' = sessions \ {s}
  /\ UNCHANGED <<adminRows, inviteRows, req>>

(* The server stops, in the middle of requests or not, and starts again:   *)
(* sessions are in memory only, and BootstrapAdmin leaves the rows alone.  *)
Restart ==
  /\ "restart" \in Env
  /\ sessions' = {}
  /\ req' = [r \in Requests |-> Idle]
  /\ UNCHANGED <<adminRows, inviteRows>>

----------------------------------------------------------------------------
(* login and register. *)

(* AuthenticateAdmin finds an enabled account with the password given ... *)
CheckPassword(r) ==
  /\ At(r, "idle")
  /\ \E a \in enabled :
       req' = [req EXCEPT ![r] = [Idle EXCEPT !.at = "checked", !.by = a,
                                              !.read = password[a]]]
  /\ UNCHANGED <<adminRows, inviteRows, sessions>>

(* ... and writes the time of the login, if the account is enabled still. *)
TouchLogin(r) ==
  /\ At(r, "checked")
  /\ \/ req[r].by \in enabled /\ Goto(r, "signing")
     \/ (req[r].by \notin enabled \/ "store" \in Env) /\ Answer(r)
  /\ UNCHANGED <<adminRows, inviteRows, sessions>>

NextId == created + 1
Insert(a, i) ==
  /\ a \in Accounts
  /\ created' = a
  /\ rows' = rows \cup {a} /\ enabled' = enabled \cup {a}
  /\ from' = [from EXCEPT ![a] = i]
  /\ UNCHANGED password

(* RegisterAdminWithInvite: the account and the use of the invitation are  *)
(* one transaction.                                                        *)
Usable_unless_revoked(i) == invite[i] \in {"open", "used"}
Usable(i) == invite[i] = "open"
Register(r) ==
  /\ At(r, "idle")
  /\ \E i \in Invites :
       /\ Usable(i)
       /\ Insert(NextId, i)
       /\ invite' = [invite EXCEPT ![i] = "used"]
       /\ usedBy' = [usedBy EXCEPT ![i] = NextId]
  /\ req' = [req EXCEPT ![r] = [Idle EXCEPT !.at = "signing", !.by = NextId]]
  /\ UNCHANGED <<invited, sessions>>

----------------------------------------------------------------------------
(* Requests with a session. *)

(* sessionStore.get, in requireAdmin. *)
Find(r) ==
  /\ At(r, "idle")
  /\ \E s \in sessions :
       req' = [req EXCEPT ![r] = [Idle EXCEPT !.at = "found", !.by = s.user,
                                              !.token = s.token]]
  /\ UNCHANGED <<adminRows, inviteRows, sessions>>

(* IsAdminEnabled: an account that is not enabled loses the session, and   *)
(* so does one whose row cannot be read.  The handlers behind requireAdmin *)
(* do not look again.                                                      *)
Without(token) == {s \in sessions : s.token # token}
Admit(r) ==
  /\ At(r, "found")
  /\ \/ /\ req[r].by \in enabled
        /\ Goto(r, "admitted")
        /\ UNCHANGED sessions
     \/ /\ req[r].by \notin enabled \/ "store" \in Env
        /\ Answer(r)
        /\ sessions' = Without(req[r].token)
  /\ UNCHANGED <<adminRows, inviteRows>>

(* A request that is refused, or that has nothing to do with accounts. *)
Serve(r) ==
  /\ At(r, "admitted")
  /\ Answer(r)
  /\ UNCHANGED <<adminRows, inviteRows, sessions>>

Logout(r) ==
  /\ At(r, "admitted")
  /\ Answer(r)
  /\ sessions' = Without(req[r].token)
  /\ UNCHANGED <<adminRows, inviteRows>>

(* changeOwnPassword: ChangeAdminPassword compares the current password    *)
(* with the row ...                                                        *)
VerifyCurrent(r) ==
  /\ At(r, "admitted") /\ req[r].by \in enabled
  /\ req' = [req EXCEPT ![r].at = "changing", ![r].read = password[req[r].by]]
  /\ UNCHANGED <<adminRows, inviteRows, sessions>>

(* ... and replaces it, if the row is still the one that was compared. *)
Revoke(a) ==
  sessions' = {[s EXCEPT !.revoked = @ \/ s.user = a] : s \in sessions}
Unchanged_enabled(r) == req[r].by \in enabled
Unchanged(r) == req[r].by \in enabled /\ password[req[r].by] = req[r].read
ReplacePassword(r) ==
  /\ At(r, "changing") /\ Unchanged(r)
  /\ password[req[r].by] < MaxPassword
  /\ password' = [password EXCEPT ![req[r].by] = @ + 1]
  /\ Revoke(req[r].by)
  /\ req' = [req EXCEPT ![r].at = "dropping", ![r].on = req[r].by]
  /\ UNCHANGED <<rows, enabled, created, from, inviteRows>>
PasswordRefused(r) ==
  /\ At(r, "changing") /\ (~Unchanged(r) \/ "store" \in Env)
  /\ Answer(r)
  /\ UNCHANGED <<adminRows, inviteRows, sessions>>

----------------------------------------------------------------------------
(* Requests of the owner. *)

CreateUser(r) ==
  /\ At(r, "admitted") /\ ByOwner(r)
  /\ Insert(NextId, None)
  /\ Answer(r)
  /\ UNCHANGED <<inviteRows, sessions>>

(* SetAdminUserEnabled and DeleteAdminUser refuse the owner, and the last  *)
(* account that is enabled; the handlers refuse the account of the session.*)
MayRemove(r, a) ==
  /\ a \in rows \ {Owner} /\ a # req[r].by
  /\ a \in enabled => \E b \in enabled : b # a

EnableUser(r) ==
  /\ At(r, "admitted") /\ ByOwner(r)
  /\ \E a \in rows \ {Owner} : enabled' = enabled \cup {a}
  /\ Answer(r)
  /\ UNCHANGED <<rows, password, created, from, inviteRows, sessions>>

DisableUser(r) ==
  /\ At(r, "admitted") /\ ByOwner(r)
  /\ \E a \in rows :
       /\ MayRemove(r, a)
       /\ Revoke(a)
       /\ enabled' = enabled \ {a}
       /\ req' = [req EXCEPT ![r].at = "dropping", ![r].on = a]
  /\ UNCHANGED <<rows, password, created, from, inviteRows>>

DeleteUser(r) ==
  /\ At(r, "admitted") /\ ByOwner(r)
  /\ \E a \in rows :
       /\ MayRemove(r, a)
       /\ Revoke(a)
       /\ rows' = rows \ {a} /\ enabled' = enabled \ {a}
       /\ req' = [req EXCEPT ![r].at = "dropping", ![r].on = a]
  /\ UNCHANGED <<password, created, from, inviteRows>>

CreateInvite(r) ==
  /\ At(r, "admitted") /\ ByOwner(r) /\ invited < MaxInvites
  /\ invited' = invited + 1
  /\ invite' = [invite EXCEPT ![invited'] = "open"]
  /\ Answer(r)
  /\ UNCHANGED <<adminRows, usedBy, sessions>>

RevokeInvite(r) ==
  /\ At(r, "admitted") /\ ByOwner(r)
  /\ \E i \in Invites : /\ Usable(i)
                        /\ invite' = [invite EXCEPT ![i] = "revoked"]
  /\ Answer(r)
  /\ UNCHANGED <<adminRows, usedBy, invited, sessions>>

----------------------------------------------------------------------------
Handle(r) ==
  \/ Sign(r) \/ Drop(r)
  \/ CheckPassword(r) \/ TouchLogin(r) \/ Register(r)
  \/ Find(r) \/ Admit(r) \/ Serve(r) \/ Logout(r)
  \/ VerifyCurrent(r) \/ ReplacePassword(r) \/ PasswordRefused(r)
  \/ CreateUser(r) \/ EnableUser(r) \/ DisableUser(r) \/ DeleteUser(r)
  \/ CreateInvite(r) \/ RevokeInvite(r)

Next == Expire \/ Restart \/ \E r \in Requests : Handle(r)
Spec == Init /\ [][Next]_vars

----------------------------------------------------------------------------
(* Properties. *)

(* When a password was changed, or an account disabled or deleted, every   *)
(* session the account had at that moment is gone by the time the request  *)
(* is answered, whatever other requests did in between (account.go:57,     *)
(* admin_users.go:106-108, 128).  A login whose password was checked before *)
(* may add a session afterwards: that one is not among them.               *)
NoSessionOutlivesRevocation ==
  \A s \in sessions :
    s.revoked =>
      \E r \in Requests : At(r, "dropping") /\ req[r].on = s.user

(* Of the requests that verified the same password only one replaces it    *)
(* (admin_password.go:9-11): two that are past their UPDATE verified        *)
(* different ones, and neither the one that is stored now.                 *)
Changed(r) == At(r, "dropping") \/ At(r, "signing")
Changer(r) == Changed(r) /\ req[r].on = req[r].by
OneChangePerPassword ==
  \A r, s \in Requests :
    (Changer(r) /\ Changer(s) /\ req[r].by = req[s].by) =>
      /\ r # s => req[r].read # req[s].read
      /\ req[r].read # password[req[r].by]

(* An invitation makes one account at most, however many registrations use *)
(* it at the same time, and none once it is revoked (admin_invites.go:107). *)
InviteOnce ==
  \A a \in Accounts :
    from[a] # None => invite[from[a]] = "used" /\ usedBy[from[a]] = a
=============================================================================
