------------------------------ MODULE Accounts ------------------------------
(***************************************************************************)
(* The operators' accounts: the first one, made by `init` on the command    *)
(* line or by the service when it starts, and those its owner creates and   *)
(* disables; their sessions; and the requests, each of which is let through *)
(* by current_user and roles in one transaction and handled in another.     *)
(*                                                                          *)
(* Passwords, CSRF tokens and cookies are left out: a login is one with the *)
(* right password, a request one with the right token.  Of the requests     *)
(* only those that change accounts or sessions are modelled.                *)
(***************************************************************************)
EXTENDS Naturals, FiniteSets

CONSTANTS
    Users,          \* ids of accounts
    Tokens,         \* session tokens; a token is drawn once
    Bootstrap,      \* the settings name a first administrator
    SessionTime,    \* settings.session_hours
    MaxTime,        \* bound of the model: the clock stops here
    NoUser

ASSUME AccountsAssumption ==
    /\ NoUser \notin Users
    /\ Bootstrap \in BOOLEAN
    /\ SessionTime \in Nat \ {0} /\ MaxTime \in Nat

VARIABLES
    now,
    account,    \* users: role and disabled
    session,    \* sessions: whose, until when; "fresh" before the login
    requests,   \* requests that passed current_user and wait for their handler
    lock,       \* who holds the lock of DATA_DIR: "free", "init" or "service"
    seenEmpty,  \* `init` found no account
    firsts,     \* history: how often a first account was made
    overlap     \* history: a request was let through while another was under way

vars == <<now, account, session, requests, lock, seenEmpty, firsts, overlap>>

\* An operator, author or reader has fewer rights than an administrator, and a developer as
\* many; only that counts here.
RoleNames == {"reader", "admin"}

NoAccount == [role |-> "none", disabled |-> FALSE]
NewAccount(role) == [role |-> role, disabled |-> FALSE]
Exists(u) == account[u] # NoAccount
Administrator(u) == account[u].role = "admin" /\ ~account[u].disabled

Fresh == [user |-> NoUser, until |-> 0, state |-> "fresh"]
Ended(s) == [s EXCEPT !.state = "ended"]
Open(t) == session[t].state = "open"

\* What a request asks for: to log out, to create an account, to disable one.
Request(by, what, on, role, with) ==
    [by |-> by, what |-> what, on |-> on, role |-> role, with |-> with]

Init ==
    /\ now = 0
    /\ account = [u \in Users |-> NoAccount]
    /\ session = [t \in Tokens |-> Fresh]
    /\ requests = {}
    /\ lock = "free" /\ seenEmpty = FALSE /\ firsts = 0 /\ overlap = FALSE

-----------------------------------------------------------------------------
(* The first account *)

\* Mutant: `init` does not take the lock.
MayRun_Always(who) == lock # who

\* ServiceLock: a second process on the same DATA_DIR gives up.
MayRun(who) == lock = "free"

NoAccounts == \A u \in Users : ~Exists(u)

First(u) ==
    /\ account' = [account EXCEPT ![u] = NewAccount("admin")]
    /\ firsts' = firsts + 1

\* `init` looks for accounts, then asks for a name and a password, then inserts, each
\* outside of any transaction.
InitCommand ==
    /\ MayRun("init") /\ ~seenEmpty /\ NoAccounts
    /\ seenEmpty' = TRUE
    /\ lock' = "init"
    /\ UNCHANGED <<now, account, session, requests, firsts, overlap>>

InitInserts(u) ==
    /\ seenEmpty /\ ~Exists(u)
    /\ First(u)
    /\ seenEmpty' = FALSE
    /\ lock' = "free"
    /\ UNCHANGED <<now, session, requests, overlap>>

InitGivesUp ==
    /\ seenEmpty /\ seenEmpty' = FALSE /\ lock' = "free"
    /\ UNCHANGED <<now, account, session, requests, firsts, overlap>>

\* lifespan: look and insert in one transaction.
StartService(u) ==
    /\ MayRun("service")
    /\ lock' = "service"
    /\ IF Bootstrap /\ NoAccounts THEN First(u) ELSE UNCHANGED <<account, firsts>>
    /\ UNCHANGED <<now, session, requests, seenEmpty, overlap>>

\* The service ends after the requests under way.
StopService ==
    /\ lock = "service" /\ requests = {}
    /\ lock' = "free"
    /\ UNCHANGED <<now, account, session, requests, seenEmpty, firsts, overlap>>

-----------------------------------------------------------------------------
(* Sessions *)

MayLogin(u) == Exists(u) /\ ~account[u].disabled

Login(u, t) ==
    /\ lock = "service" /\ MayLogin(u)
    /\ session[t] = Fresh
    /\ session' = [session EXCEPT ![t] = [user |-> u, until |-> now + SessionTime, state |-> "open"]]
    /\ UNCHANGED <<now, account, requests, lock, seenEmpty, firsts, overlap>>

\* current_user, and the roles the endpoint asks for.
Admitted(t, what) ==
    /\ Open(t) /\ session[t].until > now
    /\ ~account[session[t].user].disabled
    /\ what = "logout" \/ account[session[t].user].role = "admin"

Admit(t, what, on, role) ==
    /\ lock = "service" /\ Admitted(t, what)
    /\ \A q \in requests : q.with # t      \* bound: a client waits for its answer
    /\ requests' = requests \cup {Request(session[t].user, what, on, role, t)}
    /\ UNCHANGED <<now, account, session, lock, seenEmpty, firsts>>
    /\ overlap' = (overlap \/ requests # {})

\* maintain() deletes what has run out.
EndOld ==
    /\ lock = "service"
    /\ \E t \in Tokens : Open(t) /\ session[t].until < now
    /\ session' = [t \in Tokens |-> IF Open(t) /\ session[t].until < now
                                    THEN Ended(session[t]) ELSE session[t]]
    /\ UNCHANGED <<now, account, requests, lock, seenEmpty, firsts, overlap>>

-----------------------------------------------------------------------------
(* Handlers *)

Logout(q) ==
    /\ q.what = "logout"
    /\ session' = [session EXCEPT ![q.with] = Ended(@)]
    /\ UNCHANGED account

CreateUser(q) ==
    /\ q.what = "create"
    /\ IF Exists(q.on) THEN UNCHANGED account
       ELSE account' = [account EXCEPT ![q.on] = NewAccount(q.role)]
    /\ UNCHANGED session

NotOneself(q) == q.on # q.by

\* Mutant: sessions run out by themselves.
WithoutSessions_Kept(u) == session

WithoutSessions(u) ==
    [t \in Tokens |-> IF Open(t) /\ session[t].user = u THEN Ended(session[t]) ELSE session[t]]

\* Refused for one's own account and for one that does not exist.
DisableUser(q) ==
    /\ q.what = "disable"
    /\ IF NotOneself(q) /\ Exists(q.on)
       THEN /\ account' = [account EXCEPT ![q.on].disabled = TRUE]
            /\ session' = WithoutSessions(q.on)
       ELSE UNCHANGED <<account, session>>

Handle(q) ==
    /\ Logout(q) \/ CreateUser(q) \/ DisableUser(q)
    /\ requests' = requests \ {q}
    /\ UNCHANGED <<now, lock, seenEmpty, firsts, overlap>>

Tick == now < MaxTime /\ now' = now + 1 /\ UNCHANGED <<account, session, requests, lock, seenEmpty, firsts, overlap>>

Next ==
    \/ InitCommand \/ InitGivesUp \/ StopService \/ EndOld \/ Tick
    \/ \E u \in Users : InitInserts(u) \/ StartService(u)
    \/ \E u \in Users, t \in Tokens : Login(u, t)
    \/ \E t \in Tokens :
          \/ Admit(t, "logout", NoUser, "none")
          \/ \E u \in Users : Admit(t, "disable", u, "none")
          \/ \E u \in Users, role \in RoleNames : Admit(t, "create", u, role)
    \/ \E q \in requests : Handle(q)

Spec == Init /\ [][Next]_vars

-----------------------------------------------------------------------------
(* Properties *)

\* The shapes of the rows; a session is somebody's, and requests are answered by a service
\* that holds its lock (db.py users, sessions; cli.py ServiceLock).
TypeOK ==
    /\ account \in [Users -> {NoAccount} \cup [role: RoleNames, disabled: BOOLEAN]]
    /\ \A t \in Tokens : Open(t) => Exists(session[t].user)
    /\ lock \in {"free", "init", "service"}
    /\ requests # {} => lock = "service"
    /\ \A t \in Tokens : session[t].until <= MaxTime + SessionTime

\* The account that is made without anyone's permission is made once, by `init` or by the
\* service, although `init` looks for accounts long before it inserts one (cli.py:82-103,
\* app.py:95-98).
FirstOnce == firsts <= 1

\* A disabled account has no session, whatever logins were under way, so nothing has to be
\* looked at but the session (app.py:174-181, 420-422).
DisabledIsOut == \A t \in Tokens : Open(t) => ~account[session[t].user].disabled

\* Eigenes Konto kann nicht deaktiviert werden (app.py:419): whoever disables accounts, an
\* administrator is left, as long as no request is let through while another is under way.
\* Two administrators who disable each other at once leave none.
AdminRemains == firsts > 0 /\ ~overlap => \E u \in Users : Administrator(u)
=============================================================================
