---------------------------- MODULE Accounts_proofs ----------------------------
(***************************************************************************)
(* The properties of Accounts for any number of accounts, sessions and      *)
(* requests.  Two things carry the argument: while `init` is between its    *)
(* look and its insertion it holds the lock, so nobody else makes an        *)
(* account; and a lone request was let through on the state its handler     *)
(* finds.                                                                   *)
(***************************************************************************)
EXTENDS Accounts, TLAPS

Account == {NoAccount} \cup [role: RoleNames, disabled: BOOLEAN]

Session == [user: Users \cup {NoUser}, until: 0..(MaxTime + SessionTime),
            state: {"fresh", "open", "ended"}]

Typed ==
    /\ now \in 0..MaxTime /\ firsts \in Nat
    /\ account \in [Users -> Account]
    /\ session \in [Tokens -> Session]
    /\ lock \in {"free", "init", "service"}

\* A session that is open is that of an account that may log in.
SessionsOwned ==
    \A t \in Tokens : Open(t) =>
        /\ session[t].user \in Users
        /\ Exists(session[t].user) /\ ~account[session[t].user].disabled

\* What current_user and roles found out about a request that its handler does not ask
\* again.
RequestsAdmitted ==
    \A q \in requests :
        /\ q.by \in Users /\ Exists(q.by) /\ q.with \in Tokens
        /\ q.what \in {"logout", "create", "disable"}
        /\ q.what # "logout" => q.on \in Users
        /\ q.what = "create" => q.role \in RoleNames

LockKept ==
    /\ seenEmpty => lock = "init" /\ NoAccounts
    /\ requests # {} => lock = "service"

FirstCounted == firsts <= 1 /\ (NoAccounts <=> firsts = 0)

\* Without overlap the request under way is the only one, and its sender is an
\* administrator still.
Alone ==
    ~overlap =>
        /\ \A p, q \in requests : p = q
        /\ \A q \in requests : q.what = "disable" => Administrator(q.by)
        /\ firsts > 0 => \E u \in Users : Administrator(u)

IInv == Typed /\ SessionsOwned /\ RequestsAdmitted /\ LockKept /\ FirstCounted /\ Alone

-----------------------------------------------------------------------------
LEMMA InitHolds == Init => IInv
PROOF
  <1> SUFFICES ASSUME Init PROVE IInv
    OBVIOUS
  <1> USE AccountsAssumption DEF Init
  <1>1. Typed
    <2>1. Fresh \in Session
      <3>1. 0 \in 0..(MaxTime + SessionTime)
        OBVIOUS
      <3> QED
        BY <3>1 DEF Fresh, Session
    <2>2. session \in [Tokens -> Session]
      BY <2>1
    <2>3. account \in [Users -> Account]
      BY DEF Account
    <2> QED
      BY <2>2, <2>3 DEF Typed
  <1>2. SessionsOwned /\ RequestsAdmitted
    BY DEF SessionsOwned, RequestsAdmitted, Open, Fresh
  <1>3. LockKept /\ FirstCounted /\ Alone
    BY DEF LockKept, FirstCounted, Alone, NoAccounts, Exists
  <1> QED
    BY <1>1, <1>2, <1>3 DEF IInv

\* The first account, whoever makes it, finds no account, no session and no request.
LEMMA FirstKeeps ==
    ASSUME IInv, NEW u \in Users, First(u), NoAccounts, requests = {},
           UNCHANGED <<now, session, requests, overlap>>,
           lock' \in {"free", "service"}, ~seenEmpty'
    PROVE  IInv'
PROOF
  <1> USE DEF IInv, First
  <1>1. account' = [account EXCEPT ![u] = NewAccount("admin")] /\ firsts = 0 /\ firsts' = 1
    BY DEF FirstCounted, Typed
  <1>2. \A t \in Tokens : ~Open(t)
    BY DEF SessionsOwned, NoAccounts
  <1>3. Administrator(u)' /\ Exists(u)'
    BY <1>1 DEF Typed, Administrator, NewAccount, Exists, NoAccount
  <1>4. Typed'
    <2>1. NewAccount("admin") \in Account
      BY DEF Account, NewAccount, RoleNames
    <2>2. account' \in [Users -> Account]
      BY <1>1, <2>1 DEF Typed
    <2> QED
      BY <1>1, <2>2 DEF Typed
  <1>5. SessionsOwned' /\ RequestsAdmitted'
    BY <1>2 DEF SessionsOwned, RequestsAdmitted, Open
  <1>6. LockKept' /\ FirstCounted' /\ Alone'
    BY <1>1, <1>3 DEF LockKept, FirstCounted, Alone, NoAccounts
  <1> QED
    BY <1>4, <1>5, <1>6

LEMMA InitCommandKeeps ==
    ASSUME IInv, InitCommand \/ InitGivesUp \/ \E u \in Users : InitInserts(u)
    PROVE  IInv'
PROOF
  <1> USE DEF IInv
  <1>1. CASE InitCommand
    <2>1. requests = {}
      BY <1>1 DEF InitCommand, MayRun, LockKept
    <2>2. Typed' /\ SessionsOwned' /\ RequestsAdmitted'
      BY <1>1 DEF InitCommand, Typed, SessionsOwned, RequestsAdmitted, Open, Exists
    <2>3. LockKept' /\ FirstCounted' /\ Alone'
      BY <1>1, <2>1 DEF InitCommand, LockKept, FirstCounted, Alone, NoAccounts, Exists, Administrator
    <2> QED
      BY <2>2, <2>3
  <1>2. CASE InitGivesUp
    <2>1. requests = {}
      BY <1>2 DEF InitGivesUp, LockKept
    <2>2. Typed' /\ SessionsOwned' /\ RequestsAdmitted'
      BY <1>2 DEF InitGivesUp, Typed, SessionsOwned, RequestsAdmitted, Open, Exists
    <2>3. LockKept' /\ FirstCounted' /\ Alone'
      BY <1>2, <2>1 DEF InitGivesUp, LockKept, FirstCounted, Alone, NoAccounts, Exists, Administrator
    <2> QED
      BY <2>2, <2>3
  <1>3. ASSUME NEW u \in Users, InitInserts(u)
        PROVE  IInv'
    BY <1>3, FirstKeeps DEF InitInserts, LockKept
  <1> QED
    BY <1>1, <1>2, <1>3

LEMMA ServiceKeeps ==
    ASSUME IInv, StopService \/ \E u \in Users : StartService(u)
    PROVE  IInv'
PROOF
  <1> USE DEF IInv
  <1>1. ASSUME UNCHANGED <<now, account, session, requests, seenEmpty, firsts, overlap>>,
               lock' \in {"free", "service"}, requests = {}, ~seenEmpty
        PROVE  IInv'
    <2>1. Typed' /\ SessionsOwned' /\ RequestsAdmitted'
      BY <1>1 DEF Typed, SessionsOwned, RequestsAdmitted, Open, Exists
    <2>2. LockKept' /\ FirstCounted' /\ Alone'
      BY <1>1 DEF LockKept, FirstCounted, Alone, NoAccounts, Exists, Administrator
    <2> QED
      BY <2>1, <2>2
  <1>2. CASE StopService
    BY <1>1, <1>2 DEF StopService, LockKept
  <1>3. ASSUME NEW u \in Users, StartService(u)
        PROVE  IInv'
    <2>1. requests = {} /\ ~seenEmpty
      BY <1>3 DEF StartService, MayRun, LockKept
    <2>2. CASE Bootstrap /\ NoAccounts
      BY <1>3, <2>1, <2>2, FirstKeeps DEF StartService, Typed
    <2>3. CASE ~(Bootstrap /\ NoAccounts)
      BY <1>1, <1>3, <2>1, <2>3 DEF StartService
    <2> QED
      BY <2>2, <2>3
  <1> QED
    BY <1>2, <1>3

\* Sessions begin with an account that may log in and else only end.
LEMMA SessionStep ==
    ASSUME IInv, UNCHANGED <<now, account, lock, seenEmpty, firsts, overlap>>,
           requests' \subseteq requests, session' \in [Tokens -> Session],
           \A t \in Tokens : Open(t)' =>
              \/ session'[t] = session[t]
              \/ session'[t].user \in Users /\ MayLogin(session'[t].user)
    PROVE  IInv'
PROOF
  <1> USE DEF IInv
  <1>1. Typed' /\ RequestsAdmitted'
    BY DEF Typed, RequestsAdmitted, Exists
  <1>2. SessionsOwned'
    BY DEF SessionsOwned, Open, Exists, MayLogin
  <1>3. LockKept' /\ FirstCounted' /\ Alone'
    BY DEF LockKept, FirstCounted, Alone, NoAccounts, Exists, Administrator
  <1> QED
    BY <1>1, <1>2, <1>3

LEMMA SessionsKeep ==
    ASSUME IInv, EndOld \/ \E u \in Users, t \in Tokens : Login(u, t)
    PROVE  IInv'
PROOF
  <1> USE AccountsAssumption DEF IInv, Typed, Session
  <1>1. CASE EndOld
    <2>1. session' \in [Tokens -> Session]
      BY <1>1 DEF EndOld, Ended
    <2>2. \A t \in Tokens : Open(t)' => session'[t] = session[t]
      BY <1>1 DEF EndOld, Ended, Open
    <2> QED
      BY <1>1, <2>1, <2>2, SessionStep DEF EndOld
  <1>2. ASSUME NEW u \in Users, NEW t \in Tokens, Login(u, t)
        PROVE  IInv'
    <2>1. session' \in [Tokens -> Session]
      BY <1>2 DEF Login
    <2>2. \A s \in Tokens : s = t \/ session'[s] = session[s]
      BY <1>2 DEF Login
    <2>3. session'[t].user = u /\ MayLogin(u)
      BY <1>2 DEF Login
    <2> QED
      BY <1>2, <2>1, <2>2, <2>3, SessionStep DEF Login
  <1> QED
    BY <1>1, <1>2

LEMMA TickKeeps ==
    ASSUME IInv, Tick
    PROVE  IInv'
PROOF
  <1> USE AccountsAssumption DEF IInv, Tick
  <1>1. Typed' /\ RequestsAdmitted' /\ SessionsOwned'
    BY DEF Typed, RequestsAdmitted, SessionsOwned, Open, Exists
  <1>2. LockKept' /\ FirstCounted' /\ Alone'
    BY DEF LockKept, FirstCounted, Alone, NoAccounts, Exists, Administrator
  <1> QED
    BY <1>1, <1>2

\* A request is let through for an account that exists and may do what it asks for.
LEMMA AdmitKeeps ==
    ASSUME IInv, NEW t \in Tokens, NEW what \in {"logout", "create", "disable"}, NEW on, NEW role,
           what # "logout" => on \in Users, what = "create" => role \in RoleNames,
           Admit(t, what, on, role)
    PROVE  IInv'
PROOF
  <1> USE DEF IInv
  <1> DEFINE new == Request(session[t].user, what, on, role, t)
  <1>1. /\ requests' = requests \cup {new}
        /\ overlap' = (overlap \/ requests # {})
        /\ UNCHANGED <<now, account, session, lock, seenEmpty, firsts>>
        /\ lock = "service"
    BY DEF Admit
  <1>2. /\ new.by \in Users /\ Exists(new.by) /\ new.with \in Tokens
        /\ new.what \in {"logout", "create", "disable"}
        /\ new.what # "logout" => new.on \in Users
        /\ new.what = "create" => new.role \in RoleNames
    BY DEF Admit, Admitted, SessionsOwned, Request
  <1>3. new.what = "disable" => Administrator(new.by)
    BY DEF Admit, Admitted, SessionsOwned, Request, Administrator
  <1> HIDE DEF new
  <1>4. Typed' /\ SessionsOwned'
    BY <1>1 DEF Typed, SessionsOwned, Open, Exists
  <1>5. RequestsAdmitted'
    BY <1>1, <1>2 DEF RequestsAdmitted, Exists
  <1>6. LockKept' /\ FirstCounted'
    BY <1>1 DEF LockKept, FirstCounted, NoAccounts, Exists
  <1>7. Alone'
    BY <1>1, <1>3 DEF Alone, Typed, Administrator
  <1> QED
    BY <1>4, <1>5, <1>6, <1>7

\* A handler does what was asked for, on a state that may have changed since.
LEMMA HandleKeeps ==
    ASSUME IInv, NEW q \in requests, Handle(q)
    PROVE  IInv'
PROOF
  <1> USE DEF IInv
  <1>1. /\ requests' = requests \ {q}
        /\ UNCHANGED <<now, lock, seenEmpty, firsts, overlap>>
    BY DEF Handle
  <1>2. q.by \in Users /\ Exists(q.by) /\ q.with \in Tokens
    BY DEF RequestsAdmitted
  <1>3. lock = "service" /\ ~seenEmpty
    BY DEF LockKept
  <1>4. CASE Logout(q)
    <2>1. session' = [session EXCEPT ![q.with] = Ended(@)]
      BY <1>4 DEF Logout
    <2>2. session' \in [Tokens -> Session]
      BY <1>2, <2>1 DEF Typed, Session, Ended
    <2>3. \A t \in Tokens : Open(t)' => session'[t] = session[t]
      BY <1>2, <2>1 DEF Typed, Session, Ended, Open
    <2> QED
      BY <1>1, <1>4, <2>2, <2>3, SessionStep DEF Logout
  <1>5. CASE CreateUser(q) /\ Exists(q.on)
    BY <1>1, <1>5, SessionStep DEF CreateUser, Typed
  <1>6. CASE CreateUser(q) /\ ~Exists(q.on)
    <2>1. /\ q.on \in Users /\ q.role \in RoleNames
          /\ account' = [account EXCEPT ![q.on] = NewAccount(q.role)]
          /\ UNCHANGED session
      BY <1>6 DEF CreateUser, RequestsAdmitted
    <2>2. account' \in [Users -> Account] /\ account'[q.on] # NoAccount
          /\ ~account'[q.on].disabled
      BY <2>1 DEF Typed, Account, NewAccount, NoAccount, RoleNames
    <2>3. \A u \in Users : u # q.on => account'[u] = account[u]
      BY <2>1 DEF Typed
    <2>4. \A u \in Users : Exists(u) => account'[u] = account[u]
      BY <1>6, <2>3
    <2>5. \A u \in Users : Administrator(u) => Administrator(u)'
      BY <2>4 DEF Administrator, Exists, NoAccount
    <2>6. Typed'
      BY <1>1, <2>1, <2>2 DEF Typed
    <2>7. SessionsOwned'
      BY <2>1, <2>4 DEF SessionsOwned, Open, Exists
    <2>8. RequestsAdmitted'
      BY <1>1, <2>4 DEF RequestsAdmitted, Exists
    <2>9. LockKept' /\ FirstCounted'
      BY <1>1, <1>2, <1>3, <2>4 DEF LockKept, FirstCounted, NoAccounts, Exists
    <2>10. Alone'
      BY <1>1, <1>2, <2>5 DEF Alone, RequestsAdmitted
    <2> QED
      BY <2>6, <2>7, <2>8, <2>9, <2>10
  <1>7. CASE DisableUser(q) /\ NotOneself(q) /\ Exists(q.on)
    <2>1. /\ q.what = "disable" /\ q.on \in Users /\ q.on # q.by
          /\ account' = [account EXCEPT ![q.on].disabled = TRUE]
          /\ session' = WithoutSessions(q.on)
      BY <1>7 DEF DisableUser, NotOneself, RequestsAdmitted
    <2>2. account[q.on] \in [role: RoleNames, disabled: BOOLEAN]
      BY <1>7, <2>1 DEF Exists, Typed, Account
    <2>3. /\ account'[q.on] \in [role: RoleNames, disabled: BOOLEAN]
          /\ account'[q.on] # NoAccount
      BY <2>1, <2>2 DEF Typed, NoAccount, RoleNames
    <2>4. \A u \in Users : u # q.on => account'[u] = account[u]
      BY <2>1 DEF Typed
    <2>5. \A u \in Users : Exists(u) <=> Exists(u)'
      BY <1>7, <2>3, <2>4 DEF Exists
    <2>6. session' \in [Tokens -> Session]
      BY <2>1 DEF Typed, WithoutSessions, Session, Ended
    <2>7. \A t \in Tokens : Open(t)' => session'[t] = session[t] /\ session[t].user # q.on
      BY <2>1 DEF Typed, WithoutSessions, Session, Ended, Open
    <2>8. Typed'
      BY <1>1, <2>1, <2>3, <2>6 DEF Typed, Account
    <2>9. SessionsOwned'
      BY <2>4, <2>5, <2>7 DEF SessionsOwned, Open
    <2>10. RequestsAdmitted'
      BY <1>1, <2>5 DEF RequestsAdmitted
    <2>11. LockKept' /\ FirstCounted'
      BY <1>1, <1>3, <2>5 DEF LockKept, FirstCounted, NoAccounts
    <2>12. ASSUME ~overlap
           PROVE  Administrator(q.by)'
      BY <1>2, <2>1, <2>4, <2>12 DEF Alone, Administrator
    <2>13. Alone'
      BY <1>1, <1>2, <2>12 DEF Alone
    <2> QED
      BY <2>8, <2>9, <2>10, <2>11, <2>13
  <1>8. CASE DisableUser(q) /\ ~(NotOneself(q) /\ Exists(q.on))
    BY <1>1, <1>8, SessionStep DEF DisableUser, Typed
  <1> QED
    BY <1>4, <1>5, <1>6, <1>7, <1>8 DEF Handle

LEMMA NextHolds == IInv /\ [Next]_vars => IInv'
PROOF
  <1> SUFFICES ASSUME IInv, [Next]_vars PROVE IInv'
    OBVIOUS
  <1>1. CASE UNCHANGED vars
    BY <1>1, SessionStep DEF vars, IInv, Typed
  <1>2. CASE InitCommand \/ InitGivesUp \/ \E u \in Users : InitInserts(u)
    BY <1>2, InitCommandKeeps
  <1>3. CASE StopService \/ \E u \in Users : StartService(u)
    BY <1>3, ServiceKeeps
  <1>4. CASE EndOld \/ \E u \in Users, t \in Tokens : Login(u, t)
    BY <1>4, SessionsKeep
  <1>5. CASE Tick
    BY <1>5, TickKeeps
  <1>6. ASSUME NEW t \in Tokens,
               \/ Admit(t, "logout", NoUser, "none")
               \/ \E u \in Users : Admit(t, "disable", u, "none")
               \/ \E u \in Users, role \in RoleNames : Admit(t, "create", u, role)
        PROVE  IInv'
    BY <1>6, AdmitKeeps
  <1>7. ASSUME NEW q \in requests, Handle(q)
        PROVE  IInv'
    BY <1>7, HandleKeeps
  <1> QED
    BY <1>1, <1>2, <1>3, <1>4, <1>5, <1>6, <1>7 DEF Next

-----------------------------------------------------------------------------
(* The theorems *)

\* The inductive invariant (users, sessions and the requests under way).
THEOREM InvariantHolds == Spec => []IInv
PROOF
  <1> QED
    BY InitHolds, NextHolds, PTL DEF Spec

\* The tables keep their shapes, and a session is somebody's (db.py users, sessions).
THEOREM TypeCorrect == Spec => []TypeOK
PROOF
  <1>1. IInv => TypeOK
    BY AccountsAssumption
       DEF IInv, Typed, SessionsOwned, LockKept, Account, Session, TypeOK
  <1> QED
    BY <1>1, InvariantHolds, PTL

\* The account that needs no permission is made at most once, by `init` or by the start of
\* the service (cli.py:82-106, app.py:95-98).
THEOREM FirstAlone == Spec => []FirstOnce
PROOF
  <1>1. IInv => FirstOnce
    BY DEF IInv, FirstCounted, FirstOnce
  <1> QED
    BY <1>1, InvariantHolds, PTL

\* No session of a disabled account is open, for any requests under way (app.py:417-424).
THEOREM DisabledStaysOut == Spec => []DisabledIsOut
PROOF
  <1>1. IInv => DisabledIsOut
    BY DEF IInv, SessionsOwned, DisabledIsOut
  <1> QED
    BY <1>1, InvariantHolds, PTL

\* As long as no two requests overlap an administrator is left (app.py:419).
THEOREM AdminStays == Spec => []AdminRemains
PROOF
  <1>1. IInv => AdminRemains
    BY DEF IInv, Alone, AdminRemains
  <1> QED
    BY <1>1, InvariantHolds, PTL
=============================================================================
