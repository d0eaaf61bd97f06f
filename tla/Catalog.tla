------------------------------- MODULE Catalog -------------------------------
(***************************************************************************)
(* Modules and profiles from draft to publication, and the way from them to *)
(* the plan of a run: an operator looks at a preview, and the approval      *)
(* resolves the host's profile once more.                                   *)
(*                                                                          *)
(* Left out are the columns of a row that no handler changes and a property *)
(* tells apart: target builds, parameters and their schema, secrets.  The   *)
(* installation profile goes the same way as the one modelled.              *)
(***************************************************************************)
EXTENDS Integers, Sequences, FiniteSetsExt

CONSTANTS
    Authors,            \* who may write: roles("author")
    Administrators,     \* who may publish: roles(), and of these some write too
    Names, Needs,       \* names of modules; name -> the names a module of it depends on
    Sources,            \* module sources; a source stands for its digest
    ModuleIds, ProfileIds,
    Plans,              \* the step lists an author may write: sequences of ModuleIds
    FourEyes,           \* settings.four_eyes
    MaxVersion,         \* bound of the model: no host is changed more often
    NoUser, NoName, NoSource, NoPlan

Users == Authors \cup Administrators

ASSUME CatalogAssumption ==
    /\ NoUser \notin Users
    /\ ModuleIds \cap ProfileIds = {}      \* new_id prefixes them
    /\ Plans \subseteq Seq(ModuleIds)
    /\ FourEyes \in BOOLEAN
    /\ Needs \in [Names -> SUBSET Names] /\ MaxVersion \in Nat \ {0}
    /\ NoName \notin Names /\ IsFiniteSet(ModuleIds)

VARIABLES
    files,      \* the artifact directory: sources stored under their digest
    modules, profiles,
    checked,    \* administrator -> the publications whose first transaction passed
    host,       \* one host: version, blocked, and the profile it is assigned
    groupOpen,  \* the group token of its medium is not revoked
    shown,      \* what the operator's screen shows: the host's version and a plan; and for
                \* the properties, the version of the host this plan was resolved at
    run         \* the host's latest run: its pinned plan, and what was shown for it

vars == <<files, modules, profiles, checked, host, groupOpen, shown, run>>

NoModule == [status |-> "absent", name |-> NoName, version |-> 0, digest |-> NoSource,
             author |-> NoUser, publisher |-> NoUser]
NoProfile == [status |-> "absent", version |-> 0, steps |-> <<>>,
              author |-> NoUser, publisher |-> NoUser]
NothingShown == [version |-> 0, plan |-> NoPlan, at |-> 0]

Init ==
    /\ files = {}
    /\ modules = [m \in ModuleIds |-> NoModule]
    /\ profiles = [p \in ProfileIds |-> NoProfile]
    /\ checked = [u \in Administrators |-> {}]
    /\ \E p \in ProfileIds : host = [version |-> 1, blocked |-> FALSE, profile |-> p]
    /\ groupOpen = TRUE
    /\ shown = NothingShown
    /\ run = [active |-> FALSE, plan |-> NoPlan, shown |-> NoPlan, together |-> TRUE]

-----------------------------------------------------------------------------
(* Drafts *)

\* atomic_artifact, before the transaction that inserts the row.
StoreSource(c) ==
    /\ c \notin files
    /\ files' = files \cup {c}
    /\ UNCHANGED <<modules, profiles, checked, host, groupOpen, shown, run>>

\* Mutant: only published versions are counted.
NextVersion_Published(rows) ==
    Max({0} \cup {r.version : r \in {x \in rows : x.status = "published"}}) + 1

\* SELECT COALESCE(MAX(version),0)+1
NextVersion(rows) == Max({0} \cup {r.version : r \in rows}) + 1

Rows(table) == {table[i] : i \in DOMAIN table}

CreateModule(u, m, n, c) ==
    /\ c \in files
    /\ modules[m].status = "absent"        \* new_id("module")
    /\ modules' = [modules EXCEPT ![m] =
         [status |-> "draft", name |-> n, digest |-> c,
          version |-> NextVersion({r \in Rows(modules) : r.name = n}),
          author |-> u, publisher |-> NoUser]]
    /\ UNCHANGED <<files, profiles, checked, host, groupOpen, shown, run>>

\* Modules are not looked up before the profile is resolved.
CreateProfile(u, p, steps) ==
    /\ profiles[p].status = "absent"
    /\ profiles' = [profiles EXCEPT ![p] =
         [status |-> "draft", version |-> NextVersion(Rows(profiles)), steps |-> steps,
          author |-> u, publisher |-> NoUser]]
    /\ UNCHANGED <<files, modules, checked, host, groupOpen, shown, run>>

-----------------------------------------------------------------------------
(* Publication: one transaction reads and checks, another one writes *)

\* Mutant: whoever publishes next may.
MayPublish_Anyone(row, u) == row.status = "draft"

MayPublish(row, u) == row.status = "draft" /\ (FourEyes => row.author # u)

\* Bound: one publication of a user under way at a time.
Check(u, i) ==
    /\ checked[u] = {}
    /\ \/ i \in ModuleIds /\ MayPublish(modules[i], u)
       \/ i \in ProfileIds /\ MayPublish(profiles[i], u)
    /\ checked' = [checked EXCEPT ![u] = @ \cup {i}]
    /\ UNCHANGED <<files, modules, profiles, host, groupOpen, shown, run>>

\* Mutant: the second transaction relies on the first.
StillDraft_Assumed(row) == row.status # "absent"

StillDraft(row) == row.status = "draft"

Published(table, i, u) == [table EXCEPT ![i].status = "published", ![i].publisher = u]

Publish(u, i) ==
    /\ i \in checked[u]
    /\ checked' = [checked EXCEPT ![u] = @ \ {i}]
    /\ modules' = IF i \in ModuleIds /\ StillDraft(modules[i])
                  THEN Published(modules, i, u) ELSE modules
    /\ profiles' = IF i \in ProfileIds /\ StillDraft(profiles[i])
                   THEN Published(profiles, i, u) ELSE profiles
    /\ UNCHANGED <<files, host, groupOpen, shown, run>>

-----------------------------------------------------------------------------
(* From the host to a plan: resolve *)

\* Mutant: a dependency may come later in the plan.
Before_Anywhere(steps, i, n) == {j \in DOMAIN steps : modules[steps[j]].name = n}

\* The steps before the i-th that run a module of this name.
Before(steps, i, n) == {j \in 1..(i - 1) : modules[steps[j]].name = n}

Resolvable ==
    LET p == profiles[host.profile] IN
    /\ ~host.blocked /\ groupOpen
    /\ p.status = "published"
    /\ \A i \in DOMAIN p.steps :
          LET m == modules[p.steps[i]] IN
          /\ m.status = "published" /\ m.digest \in files
          /\ \A n \in Needs[m.name] : Before(p.steps, i, n) # {}

\* A step pinned: the module version, its artifact, and of each dependency the step that
\* ran it last (seen_names).
Pinned(steps, i) ==
    LET m == modules[steps[i]] IN
    [module |-> steps[i], digest |-> m.digest,
     dependsOn |-> {Max(Before(steps, i, n)) : n \in Needs[m.name]}]

Plan ==
    LET steps == profiles[host.profile].steps IN
    [profile |-> host.profile, steps |-> [i \in DOMAIN steps |-> Pinned(steps, i)]]

-----------------------------------------------------------------------------
(* Operators *)

\* Mutant: blocking a host does not count as a change, and nor does its profile.
Edited_Unversioned(h) == h

Edited(h) == [h EXCEPT !.version = @ + 1]

\* PATCH /hosts, with the version the client saw last.
UpdateHost(new) ==
    /\ host.version < MaxVersion
    /\ host' = Edited(new)
    /\ UNCHANGED <<files, modules, profiles, checked, groupOpen, shown, run>>

Block == UpdateHost([host EXCEPT !.blocked = ~@])

Assign(p) ==
    /\ ~run.active /\ p # host.profile
    /\ UpdateHost([host EXCEPT !.profile = p])

RevokeGroup ==
    /\ groupOpen
    /\ groupOpen' = FALSE
    /\ UNCHANGED <<files, modules, profiles, checked, host, shown, run>>

\* approveHost of app.js asks for the host and for the preview at the same time: the two
\* answers are read in either order, with the steps of others between them.
ReadHost ==
    /\ shown.version = 0
    /\ shown' = [shown EXCEPT !.version = host.version]
    /\ UNCHANGED <<files, modules, profiles, checked, host, groupOpen, run>>

ReadPreview ==
    /\ shown.plan = NoPlan
    /\ Resolvable
    /\ shown' = [shown EXCEPT !.plan = Plan, !.at = host.version]
    /\ UNCHANGED <<files, modules, profiles, checked, host, groupOpen, run>>

CloseDialog ==
    /\ shown # NothingShown
    /\ shown' = NothingShown
    /\ UNCHANGED <<files, modules, profiles, checked, host, groupOpen, run>>

Approve ==
    /\ shown.plan # NoPlan /\ shown.version = host.version
    /\ ~run.active /\ Resolvable
    /\ host.version < MaxVersion
    /\ run' = [active |-> TRUE, plan |-> Plan, shown |-> shown.plan,
               together |-> shown.at = shown.version]
    /\ host' = [host EXCEPT !.version = @ + 1]
    /\ shown' = NothingShown
    /\ UNCHANGED <<files, modules, profiles, checked, groupOpen>>

\* The run ends in one of the ways of RunLifecycle.
EndRun ==
    /\ run.active
    /\ run' = [run EXCEPT !.active = FALSE]
    /\ UNCHANGED <<files, modules, profiles, checked, host, groupOpen, shown>>

Next ==
    \/ \E c \in Sources : StoreSource(c)
    \/ \E u \in Authors :
          \/ \E m \in ModuleIds, n \in Names, c \in Sources : CreateModule(u, m, n, c)
          \/ \E p \in ProfileIds, steps \in Plans : CreateProfile(u, p, steps)
    \/ \E u \in Administrators, i \in ModuleIds \cup ProfileIds : Check(u, i) \/ Publish(u, i)
    \/ \E p \in ProfileIds : Assign(p)
    \/ Block \/ RevokeGroup \/ ReadHost \/ ReadPreview \/ CloseDialog \/ Approve \/ EndRun

Spec == Init /\ [][Next]_vars

-----------------------------------------------------------------------------
(* Properties *)

\* The shapes of the rows; and the versions of a module are numbered without gaps and
\* without repetition, whoever creates them when (db.py SCHEMA, UNIQUE(name,version)).
TypeOK ==
    /\ files \subseteq Sources
    /\ modules \in [ModuleIds -> {NoModule} \cup
         [status: {"draft", "published"}, name: Names, version: 1..Cardinality(ModuleIds),
          digest: Sources, author: Users, publisher: Users \cup {NoUser}]]
    /\ \A p \in ProfileIds : profiles[p].status \in {"absent", "draft", "published"}
    /\ host.version \in 1..MaxVersion /\ host.profile \in ProfileIds
    /\ groupOpen \in BOOLEAN /\ run.active \in BOOLEAN
    /\ \A n \in Names :
          LET ids == {m \in ModuleIds : modules[m].name = n} IN
          {modules[m].version : m \in ids} = 1..Cardinality(ids)

\* What is published was published by someone else than its author, though the author is
\* looked at in one transaction and the row is written in another (app.py:325-336).
FourEyesKept ==
    FourEyes => \A r \in Rows(modules) \cup Rows(profiles) :
                   r.status = "published" => r.publisher \notin {r.author, NoUser}

\* A published version never changes, also where two administrators have checked the same
\* draft and both go on to publish it (app.py:329-343).
PublishedFrozen ==
    [][/\ \A m \in ModuleIds :
            modules[m].status = "published" => modules'[m] = modules[m]
       /\ \A p \in ProfileIds :
            profiles[p].status = "published" => profiles'[p] = profiles[p]]_vars

\* A run installs what its operator was shown, although approve resolves anew and catalog,
\* host and group may have changed since (service.py:268-279), where the page's two answers
\* were about the same version of the host.  The page does not see to that (app.js:221).
ApprovedAsShown == run.together => run.plan = run.shown

\* The same, also where the host changed between the two answers: false of the program.
ApprovedAsDisplayed == run.plan = run.shown

\* The plan a run is pinned to stays executable: published module versions, their artifacts
\* complete, and every step after the steps it depends on, as the server's handlers and
\* the runner assume (service.py:177-200).
PlanExecutable ==
    run.plan # NoPlan =>
        \A i \in DOMAIN run.plan.steps :
            LET s == run.plan.steps[i] IN
            /\ modules[s.module].status = "published"
            /\ s.digest = modules[s.module].digest /\ s.digest \in files
            /\ s.dependsOn \subseteq 1..(i - 1)
            /\ \A n \in Needs[modules[s.module].name] :
                  \E d \in s.dependsOn : modules[run.plan.steps[d].module].name = n
=============================================================================
