--------------------------- MODULE AccountsProofs ---------------------------
(***************************************************************************)
(* The properties of Accounts for any number of requests, accounts,        *)
(* invitations, tokens and password changes.                               *)
(***************************************************************************)
EXTENDS Accounts, TLAPS

Request == [at : Place, by : Accounts, token : Tokens \cup {None},
            on : Accounts \cup {None}, read : 0 .. MaxPassword]

(* What one request says of the password it read: its account has at least *)
(* that many changes, and one more when the request made the change; a     *)
(* login makes none.                                                       *)
ReadsThePast ==
  \A r \in Requests :
    /\ At(r, "changing") => req[r].read <= password[req[r].by]
    /\ Changer(r) => req[r].read < password[req[r].by]
    /\ At(r, "checked") => req[r].on = None

(* Nothing refers to an invitation or an account before it is created.     *)
NotYetCreated ==
  /\ \A i \in Invites : i > invited => invite[i] = "none"
  /\ \A a \in Accounts : a > created => from[a] = None

Inv ==
  /\ TypeOK
  /\ NoSessionOutlivesRevocation
  /\ ReadsThePast /\ OneChangePerPassword
  /\ NotYetCreated /\ InviteOnce

----------------------------------------------------------------------------
(* A step of a handler replaces the record of one request, and the new     *)
(* record says where the request is.                                       *)
LEMMA OwnerIsAnAccount == Owner \in Accounts
  BY AccountsAssumption DEF Owner, Accounts

LEMMA IdleIsARequest == TypeOK => Idle \in Request
  <1>1. SUFFICES ASSUME TypeOK PROVE Idle \in Request
    OBVIOUS
  <1>2. MaxPassword \in Nat
    BY AccountsAssumption
  <1> QED BY <1>2, OwnerIsAnAccount DEF Idle, Request, Place

LEMMA RevokeKeepsTokens ==
  ASSUME TypeOK, NEW a, Revoke(a)
  PROVE  /\ sessions' \subseteq [token : Tokens, user : Accounts, revoked : BOOLEAN]
         /\ \A s, t \in sessions' : s.token = t.token => s = t
  <1> DEFINE mark(s) == [s EXCEPT !.revoked = @ \/ s.user = a]
  <1>1. ASSUME NEW s \in sessions
        PROVE  /\ mark(s) \in [token : Tokens, user : Accounts, revoked : BOOLEAN]
               /\ mark(s).token = s.token
    BY DEF TypeOK
  <1>2. sessions' = {mark(s) : s \in sessions}
    BY DEF Revoke
  <1>3. \A s, t \in sessions : s.token = t.token => s = t
    BY DEF TypeOK
  <1> HIDE DEF mark
  <1> QED BY <1>1, <1>2, <1>3

(* The type invariant of the implementation's state: the tables, the       *)
(* sessions with one token each, and the record of every request.          *)
LEMMA TypeStep == TypeOK /\ [Next]_vars => TypeOK'
  <1> SUFFICES ASSUME TypeOK, [Next]_vars PROVE TypeOK'
    OBVIOUS
  <1> USE AccountsAssumption, OwnerIsAnAccount, IdleIsARequest
  <1>0. /\ req \in [Requests -> Request] /\ Idle \in Request
        /\ created \in 1 .. MaxAccounts /\ MaxAccounts \in Nat /\ invited \in Nat
    BY DEF TypeOK, Request
  <1>1. CASE UNCHANGED vars
    BY <1>1 DEF vars, TypeOK, At
  <1>2. CASE Expire
    BY <1>2 DEF Expire, TypeOK, adminRows, inviteRows
  <1>3. CASE Restart
    BY <1>3, <1>0 DEF Restart, TypeOK, adminRows, inviteRows, Request
  <1>4. ASSUME NEW r \in Requests, Handle(r) PROVE TypeOK'
    <2> USE <1>0
    <2>1. CASE Sign(r)
      <3>1. PICK t \in Tokens :
              Fresh(t) /\ sessions' = sessions \cup
                {[token |-> t, user |-> req[r].by, revoked |-> FALSE]}
        BY <2>1 DEF Sign
      <3>2. req[r].by \in Accounts
        BY DEF Request
      <3> DEFINE new(k) == [token |-> k, user |-> req[r].by, revoked |-> FALSE]
      <3>6. new(t) \in [token : Tokens, user : Accounts, revoked : BOOLEAN] /\ new(t).token = t
        BY <3>2
      <3>7. sessions' = sessions \cup {new(t)}
        BY <3>1
      <3> HIDE DEF new
      <3>3. sessions' \subseteq [token : Tokens, user : Accounts, revoked : BOOLEAN]
        BY <3>6, <3>7 DEF TypeOK
      <3>4. \A s, u \in sessions' : s.token = u.token => s = u
        BY <3>1, <3>6, <3>7 DEF Fresh, TypeOK
      <3>5. req' \in [Requests -> Request]
        BY <2>1 DEF Sign, Answer
      <3> QED BY <2>1, <3>3, <3>4, <3>5 DEF Sign, TypeOK, adminRows, inviteRows, Request
    <2>2. CASE Drop(r)
      <3>1. req' \in [Requests -> Request]
        BY <2>2 DEF Drop, Goto, Answer, Request, Place
      <3>2. sessions' \subseteq sessions
        BY <2>2 DEF Drop
      <3> QED BY <2>2, <3>1, <3>2 DEF Drop, TypeOK, adminRows, inviteRows, Request
    <2>3. CASE CheckPassword(r)
      <3>1. PICK a \in enabled : req' = [req EXCEPT ![r] = [Idle EXCEPT !.at = "checked",
                                            !.by = a, !.read = password[a]]]
        BY <2>3 DEF CheckPassword
      <3>2. a \in Accounts /\ password[a] \in 0 .. MaxPassword
        BY DEF TypeOK
      <3> QED BY <2>3, <3>1, <3>2 DEF CheckPassword, Idle, TypeOK, adminRows, inviteRows, Request, Place
    <2>4. CASE TouchLogin(r)
      BY <2>4 DEF TouchLogin, Goto, Answer, TypeOK, adminRows, inviteRows, Request, Place
    <2>5. CASE Register(r)
      <3>1. NextId \in Accounts /\ created' = NextId /\ invited' = invited /\ sessions' = sessions
        BY <2>5 DEF Register, Insert
      <3>2. req' = [req EXCEPT ![r] = [Idle EXCEPT !.at = "signing", !.by = NextId]]
        BY <2>5 DEF Register
      <3>3. req' \in [Requests -> Request]
        <4>1. [Idle EXCEPT !.at = "signing", !.by = NextId] \in Request
          <5>1. [at |-> "idle", by |-> Owner, token |-> None, on |-> None, read |-> 0] \in Request
            BY DEF Idle
          <5> QED BY <3>1, <5>1 DEF Idle, Request, Place
        <4> QED BY <3>2, <4>1
      <3>4. PICK i \in Invites :
              /\ Insert(NextId, i)
              /\ invite' = [invite EXCEPT ![i] = "used"]
              /\ usedBy' = [usedBy EXCEPT ![i] = NextId]
        BY <2>5 DEF Register
      <3>5. /\ invite' \in [Invites -> InviteState]
            /\ usedBy' \in [Invites -> Accounts \cup {None}]
        BY <3>1, <3>4 DEF TypeOK, InviteState
      <3>6. /\ rows' \subseteq Accounts /\ enabled' \subseteq rows' /\ rows' \subseteq 1 .. created'
            /\ created' \in 1 .. MaxAccounts /\ from' \in [Accounts -> Invites \cup {None}]
            /\ password' = password
        BY <3>1, <3>4 DEF Insert, NextId, Accounts, TypeOK
      <3> QED BY <3>1, <3>3, <3>5, <3>6 DEF TypeOK, Request
    <2>6. CASE Find(r)
      <3>1. PICK s \in sessions : req' = [req EXCEPT ![r] = [Idle EXCEPT !.at = "found",
                                            !.by = s.user, !.token = s.token]]
        BY <2>6 DEF Find
      <3>2. s.user \in Accounts /\ s.token \in Tokens
        BY DEF TypeOK
      <3>3. [Idle EXCEPT !.at = "found", !.by = s.user, !.token = s.token] \in Request
        BY <3>2 DEF Idle, Request, Place
      <3>4. req' \in [Requests -> Request]
        BY <3>1, <3>3
      <3> QED BY <2>6, <3>4 DEF Find, TypeOK, adminRows, inviteRows, Request
    <2>7. CASE Admit(r)
      <3>1. req' \in [Requests -> Request]
        BY <2>7 DEF Admit, Goto, Answer, Request, Place
      <3>2. sessions' \subseteq sessions
        BY <2>7 DEF Admit, Without
      <3> QED BY <2>7, <3>1, <3>2 DEF Admit, TypeOK, adminRows, inviteRows, Request
    <2>8. CASE Serve(r) \/ Logout(r)
      <3>1. req' \in [Requests -> Request]
        BY <2>8 DEF Serve, Logout, Answer
      <3>2. sessions' \subseteq sessions
        BY <2>8 DEF Serve, Logout, Without
      <3> QED BY <2>8, <3>1, <3>2 DEF Serve, Logout, TypeOK, adminRows, inviteRows, Request
    <2>9. CASE VerifyCurrent(r)
      <3>1. req' \in [Requests -> Request]
        <4>1. req[r].by \in Accounts /\ password[req[r].by] \in 0 .. MaxPassword
          BY DEF TypeOK, Request
        <4>2. [[req[r] EXCEPT !.at = "changing"] EXCEPT !.read = password[req[r].by]] \in Request
          BY <4>1 DEF Request, Place
        <4> QED BY <2>9, <4>2 DEF VerifyCurrent
      <3> QED BY <2>9, <3>1 DEF VerifyCurrent, TypeOK, adminRows, inviteRows, Request
    <2>10. CASE ReplacePassword(r)
      <3>1. req' \in [Requests -> Request]
        BY <2>10 DEF ReplacePassword, Request, Place
      <3>2. password' \in [Accounts -> 0 .. MaxPassword]
        BY <2>10 DEF ReplacePassword, TypeOK, Request
      <3>3. /\ sessions' \subseteq [token : Tokens, user : Accounts, revoked : BOOLEAN]
            /\ \A s, t \in sessions' : s.token = t.token => s = t
        BY <2>10, RevokeKeepsTokens DEF ReplacePassword, TypeOK, Request
      <3> QED BY <2>10, <3>1, <3>2, <3>3 DEF ReplacePassword, TypeOK, inviteRows, Request
    <2>11. CASE PasswordRefused(r)
      BY <2>11 DEF PasswordRefused, Answer, TypeOK, adminRows, inviteRows, Request
    <2>12. CASE CreateUser(r)
      BY <2>12 DEF CreateUser, Insert, NextId, Answer, Accounts, TypeOK, inviteRows, Request
    <2>13. CASE EnableUser(r)
      BY <2>13 DEF EnableUser, Answer, TypeOK, inviteRows, Request
    <2>14. CASE DisableUser(r) \/ DeleteUser(r)
      <3>1. PICK a \in rows :
              /\ Revoke(a) /\ rows' \subseteq rows /\ enabled' \subseteq enabled
              /\ enabled' \subseteq rows'
              /\ req' = [req EXCEPT ![r].at = "dropping", ![r].on = a]
        BY <2>14 DEF DisableUser, DeleteUser, TypeOK
      <3>2. req' \in [Requests -> Request]
        <4>1. [[req[r] EXCEPT !.at = "dropping"] EXCEPT !.on = a] \in Request
          BY DEF TypeOK, Request, Place
        <4> QED BY <3>1, <4>1
      <3>3. /\ sessions' \subseteq [token : Tokens, user : Accounts, revoked : BOOLEAN]
            /\ \A s, t \in sessions' : s.token = t.token => s = t
        BY <3>1, RevokeKeepsTokens
      <3> QED BY <2>14, <3>1, <3>2, <3>3 DEF DisableUser, DeleteUser, TypeOK, inviteRows, Request
    <2>15. CASE CreateInvite(r)
      BY <2>15 DEF CreateInvite, Answer, Invites, InviteState, TypeOK, adminRows, Request
    <2>16. CASE RevokeInvite(r)
      BY <2>16 DEF RevokeInvite, Answer, InviteState, TypeOK, adminRows, Request
    <2> QED BY <1>4, <2>1, <2>2, <2>3, <2>4, <2>5, <2>6, <2>7, <2>8, <2>9, <2>10, <2>11,
               <2>12, <2>13, <2>14, <2>15, <2>16 DEF Handle
  <1> QED BY <1>1, <1>2, <1>3, <1>4 DEF Next

----------------------------------------------------------------------------
(* Only a request that drops the sessions of an account leaves "dropping", *)
(* and then that account has none.                                         *)
LEMMA SessionsStep ==
  TypeOK /\ NoSessionOutlivesRevocation /\ [Next]_vars => NoSessionOutlivesRevocation'
  <1> SUFFICES ASSUME TypeOK, NoSessionOutlivesRevocation, [Next]_vars
               PROVE  NoSessionOutlivesRevocation'
    OBVIOUS
  <1>0. req \in [Requests -> Request]
    BY DEF TypeOK, Request
  <1>1. CASE UNCHANGED vars \/ Expire \/ Restart
    BY <1>1 DEF vars, Expire, Restart, NoSessionOutlivesRevocation, At
  <1>2. ASSUME NEW r \in Requests, Handle(r) PROVE NoSessionOutlivesRevocation'
    <2>1. CASE Sign(r)
      <3>1. \A s \in sessions' : s.revoked => s \in sessions
        BY <2>1 DEF Sign
      <3>2. \A q \in Requests : At(q, "dropping") => req'[q] = req[q]
        BY <2>1, <1>0 DEF Sign, Answer, At
      <3> QED BY <3>1, <3>2 DEF NoSessionOutlivesRevocation, At
    <2>2. CASE Drop(r)
      <3>1. \A s \in sessions' : s \in sessions /\ s.user # req[r].on
        BY <2>2 DEF Drop, SessionsOf
      <3>2. \A q \in Requests : q # r => req'[q] = req[q]
        BY <2>2, <1>0 DEF Drop, Goto, Answer
      <3> QED BY <3>1, <3>2 DEF NoSessionOutlivesRevocation, At
    <2>3. CASE \/ CheckPassword(r) \/ TouchLogin(r) \/ Register(r) \/ Find(r) \/ Admit(r)
               \/ Serve(r) \/ Logout(r) \/ VerifyCurrent(r) \/ PasswordRefused(r)
               \/ CreateUser(r) \/ EnableUser(r) \/ CreateInvite(r) \/ RevokeInvite(r)
      <3>1. sessions' \subseteq sessions
        BY <2>3 DEF CheckPassword, TouchLogin, Register, Find, Admit, Serve, Logout, VerifyCurrent,
                    PasswordRefused, CreateUser, EnableUser, CreateInvite, RevokeInvite, Without
      <3>2. ~At(r, "dropping") /\ \A q \in Requests : q # r => req'[q] = req[q]
        BY <2>3, <1>0 DEF CheckPassword, TouchLogin, Register, Find, Admit, Serve, Logout,
                    VerifyCurrent, PasswordRefused, CreateUser, EnableUser, CreateInvite,
                    RevokeInvite, Goto, Answer, At
      <3> QED BY <3>1, <3>2 DEF NoSessionOutlivesRevocation, At
    <2>4. CASE ReplacePassword(r) \/ DisableUser(r) \/ DeleteUser(r)
      <3>1. PICK a : /\ Revoke(a) /\ ~At(r, "dropping")
                     /\ req' = [req EXCEPT ![r].at = "dropping", ![r].on = a]
        BY <2>4 DEF ReplacePassword, DisableUser, DeleteUser, At
      <3>2. /\ req'[r].at = "dropping" /\ req'[r].on = a
            /\ \A q \in Requests : q # r => req'[q] = req[q]
        <4>1. req'[r] = [[req[r] EXCEPT !.at = "dropping"] EXCEPT !.on = a]
          BY <3>1, <1>0
        <4>2. req[r] \in Request
          BY <1>0
        <4> QED BY <3>1, <1>0, <4>1, <4>2 DEF Request
      <3>3. ASSUME NEW s \in sessions', s.revoked
            PROVE  s.user = a \/ \E t \in sessions : t.revoked /\ t.user = s.user
        <4>1. PICK t \in sessions : s = [t EXCEPT !.revoked = @ \/ t.user = a]
          BY <3>1 DEF Revoke
        <4>2. t \in [token : Tokens, user : Accounts, revoked : BOOLEAN]
          BY DEF TypeOK
        <4>3. s.user = t.user /\ s.revoked = (t.revoked \/ t.user = a)
          BY <4>1, <4>2
        <4> QED BY <4>3, <3>3
      <3>4. ASSUME NEW t \in sessions, t.revoked
            PROVE  \E q \in Requests : At(q, "dropping")' /\ req'[q].on = t.user
        <4>1. PICK q \in Requests : At(q, "dropping") /\ req[q].on = t.user
          BY <3>4 DEF NoSessionOutlivesRevocation
        <4>2. req'[q] = req[q]
          BY <3>1, <3>2, <4>1
        <4> QED BY <4>1, <4>2 DEF At
      <3>5. ASSUME NEW s \in sessions', s.revoked
            PROVE  \E q \in Requests : At(q, "dropping")' /\ req'[q].on = s.user
        <4>1. CASE s.user = a
          BY <3>2, <4>1 DEF At
        <4>2. CASE \E t \in sessions : t.revoked /\ t.user = s.user
          BY <3>4, <4>2
        <4> QED BY <3>3, <3>5, <4>1, <4>2
      <3> QED BY <3>5 DEF NoSessionOutlivesRevocation
    <2> QED BY <1>2, <2>1, <2>2, <2>3, <2>4 DEF Handle
  <1> QED BY <1>1, <1>2 DEF Next

(* A change is made by a request that read the password in force, and adds *)
(* one to it, which puts the request behind.                               *)
LEMMA PasswordsStep ==
  /\ TypeOK /\ ReadsThePast /\ OneChangePerPassword /\ [Next]_vars
  => ReadsThePast' /\ OneChangePerPassword'
  <1> SUFFICES ASSUME TypeOK, ReadsThePast, OneChangePerPassword, [Next]_vars
               PROVE  ReadsThePast' /\ OneChangePerPassword'
    OBVIOUS
  <1>0. /\ req \in [Requests -> Request] /\ None \notin Accounts
        /\ password \in [Accounts -> Nat]
        /\ \A r \in Requests : req[r].by \in Accounts /\ req[r].read \in Nat
    BY AccountsAssumption DEF TypeOK, Request, Accounts
  <1>1. CASE UNCHANGED vars \/ Expire
    BY <1>1 DEF vars, Expire, adminRows, ReadsThePast, OneChangePerPassword, Changer, Changed, At
  <1>2. CASE Restart
    <2>1. \A r \in Requests : req'[r] = Idle
      BY <1>2 DEF Restart
    <2> QED BY <2>1 DEF Idle, ReadsThePast, OneChangePerPassword, Changer, Changed, At
  <1>3. ASSUME NEW r \in Requests, Handle(r)
        PROVE  ReadsThePast' /\ OneChangePerPassword'
    <2>1. CASE ReplacePassword(r)
      <3>1. /\ req[r].read = password[req[r].by]
            /\ password' = [password EXCEPT ![req[r].by] = @ + 1]
            /\ \A q \in Requests : q # r => req'[q] = req[q]
        BY <2>1, <1>0 DEF ReplacePassword, Unchanged
      <3>2. /\ req'[r].at = "dropping" /\ req'[r].by = req[r].by /\ req'[r].read = req[r].read
        <4>1. req'[r] = [[req[r] EXCEPT !.at = "dropping"] EXCEPT !.on = req[r].by]
          BY <2>1, <1>0 DEF ReplacePassword
        <4> QED BY <1>0, <4>1 DEF Request
      <3>3. \A q \in Requests : password[req[q].by] <= password'[req[q].by]
        BY <3>1, <1>0
      <3>4. password'[req[r].by] = req[r].read + 1
        BY <3>1, <1>0
      <3>5. ReadsThePast'
        BY <1>0, <3>1, <3>2, <3>3, <3>4 DEF ReadsThePast, Changer, Changed, At
      <3>6. OneChangePerPassword'
        BY <1>0, <3>1, <3>2, <3>3, <3>4 DEF OneChangePerPassword, ReadsThePast, Changer, Changed, At
      <3> QED BY <3>5, <3>6
    <2>2. ASSUME password' = password,
                 \A q \in Requests : q # r => req'[q] = req[q],
                 At(r, "checked")' => req'[r].on = None,
                 \/ ~Changer(r)' /\ ~At(r, "changing")'
                 \/ /\ ~Changer(r)' /\ req'[r].by \in Accounts
                    /\ req'[r].read = password[req'[r].by]
                 \/ /\ Changer(r) /\ Changer(r)' /\ ~At(r, "changing")'
                    /\ req'[r].by = req[r].by /\ req'[r].read = req[r].read
          PROVE  ReadsThePast' /\ OneChangePerPassword'
      BY <1>0, <2>2 DEF ReadsThePast, OneChangePerPassword, Changer, Changed, At
    <2>3. CASE VerifyCurrent(r)
      <3>1. req'[r] = [[req[r] EXCEPT !.at = "changing"] EXCEPT !.read = password[req[r].by]]
        BY <2>3, <1>0 DEF VerifyCurrent
      <3>2. /\ req'[r].at = "changing" /\ req'[r].by = req[r].by
            /\ req'[r].read = password[req[r].by]
        BY <3>1, <1>0 DEF Request
      <3>3. \A q \in Requests : q # r => req'[q] = req[q]
        BY <2>3, <1>0 DEF VerifyCurrent
      <3>4. password' = password
        BY <2>3 DEF VerifyCurrent, adminRows
      <3>5. ~Changer(r)' /\ ~At(r, "checked")'
        BY <3>2 DEF Changer, Changed, At
      <3>6. req'[r].by \in Accounts /\ req'[r].read = password[req'[r].by]
        BY <3>2, <1>0
      <3> QED BY <2>2, <3>3, <3>4, <3>5, <3>6
    <2>4. CASE Drop(r)
      <3>1. CASE req[r].on = req[r].by
        <4>1. req'[r] = [req[r] EXCEPT !.at = "signing"] /\ Changer(r)
          BY <2>4, <3>1, <1>0 DEF Drop, Goto, Changer, Changed
        <4>2. /\ req'[r].at = "signing" /\ req'[r].by = req[r].by /\ req'[r].on = req[r].on
              /\ req'[r].read = req[r].read
          BY <4>1, <1>0 DEF Request
        <4>3. password' = password /\ \A q \in Requests : q # r => req'[q] = req[q]
          BY <2>4, <3>1, <1>0 DEF Drop, Goto, adminRows
        <4> QED BY <2>2, <3>1, <4>1, <4>2, <4>3 DEF Changer, Changed, At
      <3>2. CASE req[r].on # req[r].by
        BY <2>2, <2>4, <3>2, <1>0 DEF Drop, Answer, Idle, adminRows, Changer, Changed, At
      <3> QED BY <3>1, <3>2
    <2>5. CASE DisableUser(r) \/ DeleteUser(r)
      <3>1. PICK a : /\ a # req[r].by /\ password' = password
                     /\ req' = [req EXCEPT ![r].at = "dropping", ![r].on = a]
        BY <2>5 DEF DisableUser, DeleteUser, MayRemove
      <3>2. req'[r] = [[req[r] EXCEPT !.at = "dropping"] EXCEPT !.on = a]
        BY <3>1, <1>0
      <3>3. req'[r].at = "dropping" /\ req'[r].by = req[r].by /\ req'[r].on = a
        BY <3>2, <1>0 DEF Request
      <3>4. \A q \in Requests : q # r => req'[q] = req[q]
        BY <3>1, <1>0
      <3> QED BY <2>2, <3>1, <3>3, <3>4 DEF Changer, Changed, At
    <2>6. CASE CheckPassword(r) \/ Register(r) \/ Find(r)
      <3>1. /\ password' = password /\ \A q \in Requests : q # r => req'[q] = req[q]
        BY <2>6, <1>0 DEF CheckPassword, Register, Insert, Find, adminRows
      <3>2. \E token, read : \E at \in {"checked", "signing", "found"}, by \in Accounts :
              req'[r] = [at |-> at, by |-> by, token |-> token, on |-> None, read |-> read]
        <4>1. CASE CheckPassword(r)
          <5>1. PICK a \in enabled : req' = [req EXCEPT ![r] =
                  [Idle EXCEPT !.at = "checked", !.by = a, !.read = password[a]]]
            BY <4>1 DEF CheckPassword
          <5>2. a \in Accounts
            BY DEF TypeOK
          <5>3. req'[r] = [at |-> "checked", by |-> a, token |-> None, on |-> None,
                           read |-> password[a]]
            BY <5>1, <1>0 DEF Idle
          <5> QED BY <5>2, <5>3
        <4>2. CASE Register(r)
          <5>1. NextId \in Accounts
            BY <4>2 DEF Register, Insert
          <5>2. req'[r] = [at |-> "signing", by |-> NextId, token |-> None, on |-> None,
                           read |-> 0]
            <6>1. req' = [req EXCEPT ![r] = [Idle EXCEPT !.at = "signing", !.by = NextId]]
              BY <4>2 DEF Register
            <6> HIDE DEF NextId
            <6> QED BY <6>1, <1>0 DEF Idle
          <5> QED BY <5>1, <5>2
        <4>3. CASE Find(r)
          <5>1. PICK s \in sessions : req' = [req EXCEPT ![r] =
                  [Idle EXCEPT !.at = "found", !.by = s.user, !.token = s.token]]
            BY <4>3 DEF Find
          <5>2. s.user \in Accounts
            BY DEF TypeOK
          <5>3. req'[r] = [at |-> "found", by |-> s.user, token |-> s.token, on |-> None,
                           read |-> 0]
            BY <5>1, <1>0 DEF Idle
          <5> QED BY <5>2, <5>3
        <4> QED BY <2>6, <4>1, <4>2, <4>3
      <3>3. ~Changer(r)' /\ ~At(r, "changing")' /\ req'[r].on = None
        BY <3>2, <1>0 DEF Changer, Changed, At
      <3> QED BY <2>2, <3>1, <3>3
    <2>7. CASE \/ Sign(r) \/ TouchLogin(r) \/ Admit(r) \/ Serve(r) \/ Logout(r)
               \/ PasswordRefused(r) \/ CreateUser(r) \/ EnableUser(r) \/ CreateInvite(r)
               \/ RevokeInvite(r)
      <3>1. /\ password' = password /\ \A q \in Requests : q # r => req'[q] = req[q]
        BY <2>7, <1>0 DEF Sign, TouchLogin, Admit, Serve, Logout, PasswordRefused, CreateUser,
                          EnableUser, CreateInvite, RevokeInvite, Insert, Answer, Goto, adminRows
      <3>2. \/ req'[r] = Idle
            \/ At(r, "found") /\ req'[r] = [req[r] EXCEPT !.at = "admitted"]
            \/ At(r, "checked") /\ req'[r] = [req[r] EXCEPT !.at = "signing"]
        BY <2>7, <1>0 DEF Sign, TouchLogin, Admit, Serve, Logout, PasswordRefused, CreateUser,
                          EnableUser, CreateInvite, RevokeInvite, Answer, Goto
      <3>3. ~Changer(r)' /\ ~At(r, "changing")' /\ ~At(r, "checked")'
        <4>1. CASE req'[r] = Idle
          BY <4>1 DEF Idle, Changer, Changed, At
        <4>2. CASE At(r, "found") /\ req'[r] = [req[r] EXCEPT !.at = "admitted"]
          BY <4>2, <1>0 DEF Request, Changer, Changed, At
        <4>3. CASE At(r, "checked") /\ req'[r] = [req[r] EXCEPT !.at = "signing"]
          <5>1. req[r].on = None /\ req'[r].on = None /\ req'[r].at = "signing"
            BY <4>3, <1>0 DEF Request, ReadsThePast
          <5>2. req'[r].by = req[r].by
            BY <4>3, <1>0 DEF Request
          <5> QED BY <5>1, <5>2, <1>0 DEF Changer, Changed, At
        <4> QED BY <3>2, <4>1, <4>2, <4>3
      <3> QED BY <2>2, <3>1, <3>3
    <2> QED BY <1>3, <2>1, <2>3, <2>4, <2>5, <2>6, <2>7 DEF Handle
  <1> QED BY <1>1, <1>2, <1>3 DEF Next

----------------------------------------------------------------------------
(* The rows of admin_users and admin_invites change together, or one of    *)
(* them does not change.                                                   *)
LEMMA InvitesStep ==
  TypeOK /\ NotYetCreated /\ InviteOnce /\ [Next]_vars => NotYetCreated' /\ InviteOnce'
  <1> SUFFICES ASSUME TypeOK, NotYetCreated, InviteOnce, [Next]_vars
               PROVE  NotYetCreated' /\ InviteOnce'
    OBVIOUS
  <1>0. /\ from \in [Accounts -> Invites \cup {None}] /\ None \notin Invites
        /\ invite \in [Invites -> InviteState] /\ usedBy \in [Invites -> Accounts \cup {None}]
        /\ created \in Nat /\ invited \in Nat
        /\ Accounts \subseteq Int /\ Invites \subseteq Int
    BY AccountsAssumption DEF TypeOK, Invites, Accounts
  <1>1. CASE UNCHANGED <<from, created, invite, usedBy, invited>>
    BY <1>1 DEF NotYetCreated, InviteOnce
  <1>2. CASE UNCHANGED vars \/ Expire \/ Restart
    <2>1. UNCHANGED <<adminRows, created, inviteRows>>
      BY <1>2 DEF vars, Expire, Restart, adminRows, inviteRows
    <2> QED BY <1>1, <2>1 DEF adminRows, inviteRows
  <1>3. ASSUME NEW r \in Requests, Handle(r) PROVE NotYetCreated' /\ InviteOnce'
    <2>1. CASE Register(r)
      <3>1. PICK i \in Invites :
              /\ Usable(i) /\ Insert(NextId, i)
              /\ invite' = [invite EXCEPT ![i] = "used"]
              /\ usedBy' = [usedBy EXCEPT ![i] = NextId]
        BY <2>1 DEF Register
      <3>2. invited' = invited /\ created' = NextId /\ from' = [from EXCEPT ![NextId] = i]
        BY <2>1, <3>1 DEF Register, Insert
      <3>3. \A a \in Accounts : from[a] # i
        BY <3>1, <1>0 DEF InviteOnce, Usable
      <3>4. NotYetCreated'
        <4>1. i <= invited
          BY <1>0, <3>1 DEF NotYetCreated, Usable
        <4>2. NextId = created + 1
          BY DEF NextId
        <4>3. \A j \in Invites : j > invited' => invite'[j] = "none"
          BY <1>0, <3>1, <3>2, <4>1 DEF NotYetCreated
        <4>4. \A a \in Accounts : a > created' => from'[a] = None
          BY <1>0, <3>2, <4>2 DEF NotYetCreated
        <4> QED BY <4>3, <4>4 DEF NotYetCreated
      <3>5. InviteOnce'
        BY <1>0, <3>1, <3>2, <3>3 DEF InviteOnce
      <3> QED BY <3>4, <3>5
    <2>2. CASE CreateUser(r)
      <3>1. /\ UNCHANGED <<invite, usedBy, invited>>
            /\ created' = NextId /\ from' = [from EXCEPT ![NextId] = None]
        BY <2>2 DEF CreateUser, Insert, inviteRows
      <3> QED BY <1>0, <3>1 DEF NotYetCreated, InviteOnce, NextId
    <2>3. CASE CreateInvite(r)
      <3>1. /\ UNCHANGED <<usedBy, from, created>> /\ invited' = invited + 1
            /\ invite' = [invite EXCEPT ![invited + 1] = "open"]
        BY <2>3 DEF CreateInvite, adminRows
      <3>2. invited + 1 \in Invites /\ invite[invited + 1] = "none"
        BY <2>3, <1>0, AccountsAssumption DEF CreateInvite, Invites, NotYetCreated
      <3>3. \A a \in Accounts : from[a] # invited + 1
        BY <1>0, <3>2 DEF InviteOnce
      <3>4. NotYetCreated'
        BY <1>0, <3>1 DEF NotYetCreated
      <3>5. InviteOnce'
        BY <1>0, <3>1, <3>2, <3>3 DEF InviteOnce
      <3> QED BY <3>4, <3>5
    <2>4. CASE RevokeInvite(r)
      <3>1. PICK i \in Invites : Usable(i) /\ invite' = [invite EXCEPT ![i] = "revoked"]
        BY <2>4 DEF RevokeInvite
      <3>2. UNCHANGED <<usedBy, invited, from, created>>
        BY <2>4 DEF RevokeInvite, adminRows
      <3> QED BY <1>0, <3>1, <3>2 DEF NotYetCreated, InviteOnce, Usable
    <2>5. CASE \/ Sign(r) \/ Drop(r) \/ CheckPassword(r) \/ TouchLogin(r) \/ Find(r) \/ Admit(r)
               \/ Serve(r) \/ Logout(r) \/ VerifyCurrent(r) \/ ReplacePassword(r)
               \/ PasswordRefused(r) \/ EnableUser(r) \/ DisableUser(r) \/ DeleteUser(r)
      BY <1>1, <2>5 DEF Sign, Drop, CheckPassword, TouchLogin, Find, Admit, Serve, Logout,
           VerifyCurrent, ReplacePassword, PasswordRefused, EnableUser, DisableUser, DeleteUser,
           adminRows, inviteRows
    <2> QED BY <1>3, <2>1, <2>2, <2>3, <2>4, <2>5 DEF Handle
  <1> QED BY <1>2, <1>3 DEF Next

----------------------------------------------------------------------------
LEMMA InitInv == Init => Inv
  <1> SUFFICES ASSUME Init PROVE Inv
    OBVIOUS
  <1>1. \A r \in Requests : req[r] = Idle
    BY DEF Init
  <1>2. TypeOK
    <2>1. /\ Idle \in Request /\ req \in [Requests -> Request]
      BY AccountsAssumption, OwnerIsAnAccount DEF Init, Idle, Request, Place
    <2> QED BY <2>1, AccountsAssumption, OwnerIsAnAccount
         DEF Init, TypeOK, Request, InviteState, Accounts, Owner
  <1>3. ReadsThePast /\ OneChangePerPassword /\ NoSessionOutlivesRevocation
    BY <1>1 DEF Init, Idle, ReadsThePast, OneChangePerPassword, NoSessionOutlivesRevocation,
                Changer, Changed, At
  <1>4. NotYetCreated /\ InviteOnce
    BY DEF Init, NotYetCreated, InviteOnce
  <1> QED BY <1>2, <1>3, <1>4 DEF Inv

LEMMA StepInv == Inv /\ [Next]_vars => Inv'
  BY TypeStep, SessionsStep, PasswordsStep, InvitesStep DEF Inv

THEOREM Invariance == Spec => []Inv
  BY InitInv, StepInv, PTL DEF Spec

(* The tables, the sessions and the requests keep their types, and no two  *)
(* sessions share a token (sessions.go:32-33, store/admin_users.go:113).   *)
THEOREM AccountsTypeCorrect == Spec => []TypeOK
  BY Invariance, PTL DEF Inv

(* However many requests run at once, no session that was there when a     *)
(* password was replaced, or an account disabled or deleted, is left once  *)
(* that request is answered (sessions.go:72-82).                           *)
THEOREM RevokedSessionsGo == Spec => []NoSessionOutlivesRevocation
  BY Invariance, PTL DEF Inv

(* Concurrent changes of one password never both succeed on the same old   *)
(* one (admin_password.go:35-46).                                          *)
THEOREM PasswordChangesSerialise == Spec => []OneChangePerPassword
  BY Invariance, PTL DEF Inv

(* Concurrent registrations never both succeed on one invitation, and a    *)
(* revoked one registers nobody (admin_invites.go:125-171).                *)
THEOREM InvitationsAreSingleUse == Spec => []InviteOnce
  BY Invariance, PTL DEF Inv
=============================================================================
