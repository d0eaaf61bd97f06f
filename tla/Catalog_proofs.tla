---------------------------- MODULE Catalog_proofs ----------------------------
(***************************************************************************)
(* Four eyes, frozen versions and the approval of what was shown, for any   *)
(* people, modules, profiles and plans.  A draft keeps its author, so what  *)
(* the first transaction of a publication found out is true in the second;  *)
(* and whatever a shown plan was made of is published, hence frozen, as     *)
(* long as the host has the version it had when the plan was resolved.      *)
(*                                                                          *)
(* Then the numbers of versions, which are given out by counting rows, and  *)
(* the plans resolve() makes: a step depends on the last step before it of  *)
(* each name its module needs.                                              *)
(***************************************************************************)
EXTENDS Catalog, FiniteSetTheorems, TLAPS

Fields == {"status", "author", "publisher"}

\* What is needed of the types: tables are functions, and rows have these columns.
Tables ==
    /\ modules = [m \in ModuleIds |-> modules[m]]
    /\ profiles = [p \in ProfileIds |-> profiles[p]]
    /\ \A m \in ModuleIds : Fields \subseteq DOMAIN modules[m]
    /\ \A p \in ProfileIds : Fields \subseteq DOMAIN profiles[p]
    /\ DOMAIN checked = Administrators
    /\ DOMAIN host = {"version", "blocked", "profile"} /\ host.version \in Nat
    /\ DOMAIN shown = {"version", "plan", "at"} /\ shown.version \in 0..host.version
    /\ host.profile \in ProfileIds

\* Who passed the first check of a publication may make the second step.
MayStill(row, u) == row.status # "absent" /\ (FourEyes => row.author # u)

ChecksHold ==
    \A u \in Administrators : \A i \in checked[u] :
        /\ i \in ModuleIds => MayStill(modules[i], u)
        /\ i \in ProfileIds => MayStill(profiles[i], u)

Signed(row) == FourEyes /\ row.status = "published" => row.publisher \notin {row.author, NoUser}

RowsSigned ==
    /\ \A m \in ModuleIds : Signed(modules[m])
    /\ \A p \in ProfileIds : Signed(profiles[p])

IInv == Tables /\ ChecksHold /\ RowsSigned

-----------------------------------------------------------------------------
LEMMA InitHolds == Init => IInv
PROOF
  <1> SUFFICES ASSUME Init PROVE IInv
    OBVIOUS
  <1> USE CatalogAssumption DEF Init
  <1>1. Tables
    <2>1. \A m \in ModuleIds : Fields \subseteq DOMAIN modules[m]
      BY DEF Fields, NoModule
    <2>2. \A p \in ProfileIds : Fields \subseteq DOMAIN profiles[p]
      BY DEF Fields, NoProfile
    <2>3. PICK p \in ProfileIds : host = [version |-> 1, blocked |-> FALSE, profile |-> p]
      OBVIOUS
    <2>4. /\ DOMAIN host = {"version", "blocked", "profile"} /\ host.version = 1
          /\ host.profile \in ProfileIds
      BY <2>3
    <2>5. DOMAIN shown = {"version", "plan", "at"} /\ shown.version = 0
      BY DEF NothingShown
    <2> QED
      BY <2>1, <2>2, <2>4, <2>5 DEF Tables
  <1>2. ChecksHold
    BY DEF ChecksHold
  <1>3. RowsSigned
    BY DEF RowsSigned, Signed, NoModule, NoProfile
  <1> QED
    BY <1>1, <1>2, <1>3 DEF IInv

\* The steps that leave rows and checks alone.
LEMMA RowsKept ==
    ASSUME IInv, UNCHANGED <<modules, profiles, checked>>,
           DOMAIN host' = {"version", "blocked", "profile"}, host'.version \in Nat,
           host'.profile \in ProfileIds,
           DOMAIN shown' = {"version", "plan", "at"}, shown'.version \in 0..host'.version
    PROVE  IInv'
PROOF
  <1>1. Tables'
    BY DEF IInv, Tables
  <1>2. ChecksHold' /\ RowsSigned'
    BY DEF IInv, ChecksHold, RowsSigned
  <1> QED
    BY <1>1, <1>2 DEF IInv

LEMMA ScreenKeeps ==
    ASSUME IInv,
           \/ \E c \in Sources : StoreSource(c)
           \/ \E p \in ProfileIds : Assign(p)
           \/ Block \/ RevokeGroup \/ ReadHost \/ ReadPreview \/ CloseDialog \/ Approve \/ EndRun
    PROVE  IInv'
PROOF
  <1>1. /\ DOMAIN host = {"version", "blocked", "profile"} /\ host.version \in Nat
        /\ host.profile \in ProfileIds
        /\ DOMAIN shown = {"version", "plan", "at"} /\ shown.version \in 0..host.version
    BY DEF IInv, Tables
  <1>2. CASE \E c \in Sources : StoreSource(c)
    BY <1>1, <1>2, RowsKept DEF StoreSource
  <1>3. ASSUME NEW p \in ProfileIds, Assign(p)
        PROVE  IInv'
    <2>1. host' = [[host EXCEPT !.profile = p] EXCEPT !.version = @ + 1]
      BY <1>3 DEF Assign, UpdateHost, Edited
    <2>2. /\ DOMAIN host' = {"version", "blocked", "profile"}
          /\ host'.version = host.version + 1 /\ host'.profile = p
      BY <1>1, <2>1
    <2>3. UNCHANGED <<modules, profiles, checked, shown>>
      BY <1>3 DEF Assign, UpdateHost
    <2> QED
      BY <1>1, <2>2, <2>3, RowsKept
  <1>4. CASE Block
    BY <1>1, <1>4, RowsKept DEF Block, UpdateHost, Edited
  <1>5. CASE RevokeGroup \/ EndRun
    BY <1>1, <1>5, RowsKept DEF RevokeGroup, EndRun
  <1>6. CASE ReadHost \/ ReadPreview
    <2>1. \/ shown' = [shown EXCEPT !.version = host.version]
          \/ shown' = [shown EXCEPT !.plan = Plan, !.at = host.version]
      BY <1>6 DEF ReadHost, ReadPreview
    <2>2. DOMAIN shown' = {"version", "plan", "at"} /\ shown'.version \in 0..host.version
      <3>1. CASE shown' = [shown EXCEPT !.version = host.version]
        BY <1>1, <3>1
      <3>2. ASSUME NEW plan, shown' = [shown EXCEPT !.plan = plan, !.at = host.version]
            PROVE  DOMAIN shown' = DOMAIN shown /\ shown'.version = shown.version
        BY <1>1, <3>2
      <3> QED
        BY <1>1, <2>1, <3>1, <3>2
    <2>3. UNCHANGED <<modules, profiles, checked, host>>
      BY <1>6 DEF ReadHost, ReadPreview
    <2> QED
      BY <1>1, <2>2, <2>3, RowsKept
  <1>7. CASE CloseDialog
    BY <1>1, <1>7, RowsKept DEF CloseDialog, NothingShown
  <1>8. CASE Approve
    BY <1>1, <1>8, RowsKept DEF Approve, NothingShown
  <1> QED
    BY <1>2, <1>3, <1>4, <1>5, <1>6, <1>7, <1>8

\* A new row is nobody's publication and under nobody's check.
LEMMA CreateModuleKeeps ==
    ASSUME IInv, NEW u \in Authors, NEW m \in ModuleIds, NEW n \in Names, NEW c \in Sources,
           CreateModule(u, m, n, c)
    PROVE  IInv'
PROOF
  <1> DEFINE new == [status |-> "draft", name |-> n, digest |-> c,
                     version |-> NextVersion({r \in Rows(modules) : r.name = n}),
                     author |-> u, publisher |-> NoUser]
  <1>1. /\ modules' = [modules EXCEPT ![m] = new] /\ modules[m].status = "absent"
        /\ UNCHANGED <<files, profiles, checked, host, groupOpen, shown, run>>
    BY DEF CreateModule
  <1>2. Fields \subseteq DOMAIN new /\ new.status = "draft"
    BY DEF Fields
  <1> HIDE DEF new
  <1>3. \A i \in ModuleIds : modules'[i] = IF i = m THEN new ELSE modules[i]
    BY <1>1 DEF IInv, Tables
  <1>4. Tables'
    BY <1>1, <1>2, <1>3 DEF IInv, Tables
  <1>5. ChecksHold'
    BY <1>1, <1>3 DEF IInv, Tables, ChecksHold, MayStill
  <1>6. RowsSigned'
    BY <1>1, <1>2, <1>3 DEF IInv, RowsSigned, Signed
  <1> QED
    BY <1>4, <1>5, <1>6 DEF IInv

LEMMA CreateProfileKeeps ==
    ASSUME IInv, NEW u \in Authors, NEW p \in ProfileIds, NEW steps \in Plans,
           CreateProfile(u, p, steps)
    PROVE  IInv'
PROOF
  <1> DEFINE new == [status |-> "draft", version |-> NextVersion(Rows(profiles)), steps |-> steps,
                     author |-> u, publisher |-> NoUser]
  <1>1. /\ profiles' = [profiles EXCEPT ![p] = new] /\ profiles[p].status = "absent"
        /\ UNCHANGED <<files, modules, checked, host, groupOpen, shown, run>>
    BY DEF CreateProfile
  <1>2. Fields \subseteq DOMAIN new /\ new.status = "draft"
    BY DEF Fields
  <1> HIDE DEF new
  <1>3. \A i \in ProfileIds : profiles'[i] = IF i = p THEN new ELSE profiles[i]
    BY <1>1 DEF IInv, Tables
  <1>4. Tables'
    BY <1>1, <1>2, <1>3 DEF IInv, Tables
  <1>5. ChecksHold'
    BY <1>1, <1>3 DEF IInv, Tables, ChecksHold, MayStill
  <1>6. RowsSigned'
    BY <1>1, <1>2, <1>3 DEF IInv, RowsSigned, Signed
  <1> QED
    BY <1>4, <1>5, <1>6 DEF IInv

LEMMA CheckKeeps ==
    ASSUME IInv, NEW u \in Administrators, NEW i \in ModuleIds \cup ProfileIds, Check(u, i)
    PROVE  IInv'
PROOF
  <1>1. /\ checked' = [checked EXCEPT ![u] = @ \cup {i}]
        /\ UNCHANGED <<files, modules, profiles, host, groupOpen, shown, run>>
    BY DEF Check
  <1>2. \A v \in Administrators :
          checked'[v] = IF v = u THEN checked[u] \cup {i} ELSE checked[v]
    BY <1>1 DEF IInv, Tables
  <1>3. Tables' /\ RowsSigned'
    BY <1>1 DEF IInv, Tables, RowsSigned
  <1>4. /\ i \in ModuleIds => MayStill(modules[i], u)
        /\ i \in ProfileIds => MayStill(profiles[i], u)
    BY CatalogAssumption DEF Check, MayPublish, MayStill
  <1>5. ChecksHold'
    BY <1>1, <1>2, <1>4 DEF IInv, ChecksHold
  <1> QED
    BY <1>3, <1>5 DEF IInv

\* What a publication makes of a row that may still be published.
LEMMA PublishedRow ==
    ASSUME NEW table, NEW I, table = [i \in I |-> table[i]],
           \A i \in I : Fields \subseteq DOMAIN table[i],
           NEW j \in I, NEW u
    PROVE  LET new == Published(table, j, u) IN
           /\ new = [i \in I |-> new[i]]
           /\ \A i \in I : i # j => new[i] = table[i]
           /\ new[j].status = "published" /\ new[j].publisher = u
           /\ new[j].author = table[j].author
           /\ DOMAIN new[j] = DOMAIN table[j]
  BY DEF Published, Fields

LEMMA PublishKeeps ==
    ASSUME IInv, NEW u \in Administrators, NEW i \in ModuleIds \cup ProfileIds, Publish(u, i)
    PROVE  IInv'
PROOF
  <1> DEFINE Moved(table, I, new) ==
        /\ new = [j \in I |-> new[j]]
        /\ \A j \in I : \/ new[j] = table[j]
                        \/ /\ j = i /\ new[j].status = "published" /\ new[j].publisher = u
                           /\ new[j].author = table[j].author
                           /\ DOMAIN new[j] = DOMAIN table[j]
  <1>1. Moved(modules, ModuleIds, modules')
    <2>1. CASE i \in ModuleIds /\ StillDraft(modules[i])
      BY <2>1, PublishedRow DEF Publish, IInv, Tables
    <2>2. CASE ~(i \in ModuleIds /\ StillDraft(modules[i]))
      BY <2>2 DEF Publish, IInv, Tables
    <2> QED
      BY <2>1, <2>2
  <1>2. Moved(profiles, ProfileIds, profiles')
    <2>1. CASE i \in ProfileIds /\ StillDraft(profiles[i])
      BY <2>1, PublishedRow DEF Publish, IInv, Tables
    <2>2. CASE ~(i \in ProfileIds /\ StillDraft(profiles[i]))
      BY <2>2 DEF Publish, IInv, Tables
    <2> QED
      BY <2>1, <2>2
  <1>3. /\ i \in checked[u] /\ checked' = [checked EXCEPT ![u] = @ \ {i}]
        /\ UNCHANGED <<files, host, groupOpen, shown, run>>
    BY DEF Publish
  <1>4. \A v \in Administrators : checked'[v] \subseteq checked[v]
    BY <1>3 DEF IInv, Tables
  <1>5. Tables'
    BY <1>1, <1>2, <1>3 DEF IInv, Tables
  <1>6. ChecksHold'
    BY <1>1, <1>2, <1>4 DEF IInv, ChecksHold, MayStill
  <1>7. RowsSigned'
    BY <1>1, <1>2, <1>3, CatalogAssumption DEF IInv, RowsSigned, Signed, ChecksHold, MayStill, Users
  <1> QED
    BY <1>5, <1>6, <1>7 DEF IInv

LEMMA NextHolds == IInv /\ [Next]_vars => IInv'
PROOF
  <1> SUFFICES ASSUME IInv, [Next]_vars PROVE IInv'
    OBVIOUS
  <1>1. CASE UNCHANGED vars
    BY <1>1, RowsKept DEF vars, IInv, Tables
  <1>2. CASE Next
    BY <1>2, ScreenKeeps, CreateModuleKeeps, CreateProfileKeeps, CheckKeeps, PublishKeeps DEF Next
  <1> QED
    BY <1>1, <1>2

\* The inductive invariant behind the two theorems about publication (app.py:326-345).
THEOREM InvariantHolds == Spec => []IInv
PROOF
  <1> QED
    BY InitHolds, NextHolds, PTL DEF Spec

\* Nobody publishes his own work, however many look at a draft and publish it at the same
\* time, with any number of authors and administrators (app.py:326-345).
THEOREM FourEyesHold == Spec => []FourEyesKept
PROOF
  <1>1. IInv => FourEyesKept
    BY DEF IInv, Tables, RowsSigned, Signed, FourEyesKept, Rows
  <1> QED
    BY <1>1, InvariantHolds, PTL

-----------------------------------------------------------------------------
(* Published rows *)

Frozen ==
    /\ \A m \in ModuleIds : modules[m].status = "published" => modules'[m] = modules[m]
    /\ \A p \in ProfileIds : profiles[p].status = "published" => profiles'[p] = profiles[p]

LEMMA NextFrozen == IInv /\ Next => Frozen
PROOF
  <1> SUFFICES ASSUME IInv, Next PROVE Frozen
    OBVIOUS
  <1> USE DEF Frozen
  <1>1. ASSUME NEW u \in Authors, NEW m \in ModuleIds, NEW n \in Names, NEW c \in Sources,
               CreateModule(u, m, n, c)
        PROVE  Frozen
    BY <1>1 DEF CreateModule, IInv, Tables
  <1>2. ASSUME NEW u \in Authors, NEW p \in ProfileIds, NEW steps \in Plans,
               CreateProfile(u, p, steps)
        PROVE  Frozen
    BY <1>2 DEF CreateProfile, IInv, Tables
  <1>3. ASSUME NEW u \in Administrators, NEW i \in ModuleIds \cup ProfileIds, Publish(u, i)
        PROVE  Frozen
    <2>1. ASSUME NEW m \in ModuleIds, modules[m].status = "published"
          PROVE  modules'[m] = modules[m]
      BY <1>3, <2>1, PublishedRow DEF Publish, StillDraft, IInv, Tables
    <2>2. ASSUME NEW p \in ProfileIds, profiles[p].status = "published"
          PROVE  profiles'[p] = profiles[p]
      BY <1>3, <2>2, PublishedRow DEF Publish, StillDraft, IInv, Tables
    <2> QED
      BY <2>1, <2>2
  <1>4. ASSUME UNCHANGED <<modules, profiles>>
        PROVE  Frozen
    BY <1>4
  <1>5. ASSUME NEW u \in Administrators, NEW i \in ModuleIds \cup ProfileIds, Check(u, i)
        PROVE  Frozen
    BY <1>4, <1>5 DEF Check
  <1>6. CASE \/ \E c \in Sources : StoreSource(c)
             \/ \E p \in ProfileIds : Assign(p)
             \/ Block \/ RevokeGroup \/ ReadHost \/ ReadPreview \/ CloseDialog \/ Approve \/ EndRun
    BY <1>4, <1>6 DEF StoreSource, Assign, Block, UpdateHost, RevokeGroup, ReadHost,
                      ReadPreview, CloseDialog, Approve, EndRun
  <1> QED
    BY <1>1, <1>2, <1>3, <1>5, <1>6 DEF Next

\* No step changes a published module or profile (app.py:337-343).
THEOREM PublishedStays == Spec => PublishedFrozen
PROOF
  <1>1. IInv /\ [Next]_vars => [Frozen]_vars
    BY NextFrozen
  <1> QED
    BY <1>1, InvariantHolds, PTL DEF Spec, PublishedFrozen, Frozen

-----------------------------------------------------------------------------
(* From the screen to the run *)

StepsTyped == \A p \in ProfileIds : profiles[p].steps \in Seq(ModuleIds)

\* The profile of the host and the modules it names are published, and so is their plan.
Settled ==
    LET p == profiles[host.profile] IN
    p.status = "published" /\ \A i \in DOMAIN p.steps : modules[p.steps[i]].status = "published"

\* As long as the host has the version the plan on the screen was resolved at, this plan is
\* what resolving anew gives.
ScreenTrue ==
    shown.plan # NoPlan =>
        /\ shown.at \in 0..host.version
        /\ shown.at = host.version => Settled /\ shown.plan = Plan

ScreenInv == IInv /\ StepsTyped /\ ScreenTrue /\ ApprovedAsShown

LEMMA StepsStayTyped == IInv /\ StepsTyped /\ [Next]_vars => StepsTyped'
PROOF
  <1> SUFFICES ASSUME IInv, StepsTyped, [Next]_vars PROVE StepsTyped'
    OBVIOUS
  <1>1. CASE UNCHANGED profiles
    BY <1>1 DEF StepsTyped
  <1>2. ASSUME NEW u \in Authors, NEW p \in ProfileIds, NEW steps \in Plans,
               CreateProfile(u, p, steps)
        PROVE  StepsTyped'
    <2>1. \A q \in ProfileIds : profiles'[q].steps = IF q = p THEN steps ELSE profiles[q].steps
      BY <1>2 DEF CreateProfile, IInv, Tables
    <2> QED
      BY <2>1, CatalogAssumption DEF StepsTyped
  <1>3. ASSUME NEW u \in Administrators, NEW i \in ModuleIds \cup ProfileIds, Publish(u, i)
        PROVE  StepsTyped'
    <2>1. CASE i \in ProfileIds /\ StillDraft(profiles[i])
      <3>1. profiles' = Published(profiles, i, u)
        BY <1>3, <2>1 DEF Publish
      <3>2. \A q \in ProfileIds : profiles'[q].steps = profiles[q].steps
        BY <2>1, <3>1 DEF Published, IInv, Tables, Fields
      <3> QED
        BY <3>2 DEF StepsTyped
    <2>2. CASE ~(i \in ProfileIds /\ StillDraft(profiles[i]))
      BY <1>1, <1>3, <2>2 DEF Publish
    <2> QED
      BY <2>1, <2>2
  <1>4. CASE UNCHANGED vars
    BY <1>1, <1>4 DEF vars
  <1>5. CASE \/ \E c \in Sources : StoreSource(c)
             \/ \E u \in Authors, m \in ModuleIds, n \in Names, c \in Sources : CreateModule(u, m, n, c)
             \/ \E u \in Administrators, i \in ModuleIds \cup ProfileIds : Check(u, i)
             \/ \E p \in ProfileIds : Assign(p)
             \/ Block \/ RevokeGroup \/ ReadHost \/ ReadPreview \/ CloseDialog \/ Approve \/ EndRun
    BY <1>1, <1>5 DEF StoreSource, CreateModule, Check, Assign, Block, UpdateHost, RevokeGroup,
                      ReadHost, ReadPreview, CloseDialog, Approve, EndRun
  <1> QED
    BY <1>2, <1>3, <1>4, <1>5 DEF Next

\* A step is pinned to what its rows say, and to nothing behind it.
LEMMA PinFrozen ==
    ASSUME NEW s \in Seq(ModuleIds), \A j \in DOMAIN s : modules'[s[j]] = modules[s[j]],
           NEW i \in DOMAIN s
    PROVE  Pinned(s, i)' = Pinned(s, i)
PROOF
  <1>1. ASSUME NEW n
        PROVE  Before(s, i, n)' = Before(s, i, n)
    <2>1. 1..(i - 1) \subseteq DOMAIN s
      OBVIOUS
    <2> QED
      BY <2>1 DEF Before
  <1>2. modules'[s[i]] = modules[s[i]]
    OBVIOUS
  <1> QED
    BY <1>1, <1>2 DEF Pinned

\* A plan of published rows never changes while the host keeps its profile.
LEMMA PlanFrozen ==
    ASSUME Tables, StepsTyped, Settled, Frozen, UNCHANGED host
    PROVE  Settled' /\ Plan' = Plan
PROOF
  <1>1. PICK s : s = profiles[host.profile].steps
    OBVIOUS
  <1>2. host.profile \in ProfileIds /\ profiles'[host.profile] = profiles[host.profile]
    BY DEF Tables, Settled, Frozen
  <1>3. s \in Seq(ModuleIds)
    BY <1>1, <1>2 DEF StepsTyped
  <1>4. \A i \in DOMAIN s : modules'[s[i]] = modules[s[i]]
    BY <1>1, <1>3 DEF Settled, Frozen
  <1>5. Settled'
    BY <1>1, <1>2, <1>4 DEF Settled
  <1>6. \A i \in DOMAIN s : Pinned(s, i)' = Pinned(s, i)
    BY <1>3, <1>4, PinFrozen
  <1>7. Plan = [profile |-> host.profile, steps |-> [i \in DOMAIN s |-> Pinned(s, i)]]
    BY <1>1 DEF Plan
  <1>8. Plan' = [profile |-> host.profile, steps |-> [i \in DOMAIN s |-> Pinned(s, i)']]
    BY <1>1, <1>2 DEF Plan
  <1> QED
    BY <1>5, <1>6, <1>7, <1>8

LEMMA ScreenHolds ==
    ASSUME ScreenInv, [Next]_vars
    PROVE  ScreenInv'
PROOF
  <1> USE DEF ScreenInv
  <1>1. IInv' /\ StepsTyped'
    BY NextHolds, StepsStayTyped
  <1>2. Frozen /\ Tables
    BY NextFrozen DEF IInv, Frozen, vars
  <1>3. ASSUME UNCHANGED <<host, shown>>, ApprovedAsShown'
        PROVE  ScreenInv'
    <2>1. ScreenTrue'
      BY <1>2, <1>3, PlanFrozen DEF ScreenTrue
    <2> QED
      BY <1>1, <1>3, <2>1 DEF ApprovedAsShown
  <1>host. host.version \in Nat /\ shown.version \in 0..host.version
        /\ DOMAIN shown = {"version", "plan", "at"} /\ DOMAIN host = {"version", "blocked", "profile"}
    BY DEF IInv, Tables
  <1>4. ASSUME NEW new, UpdateHost(new), DOMAIN new = DOMAIN host, new.version = host.version
        PROVE  ScreenInv'
    <2>1. host'.version = host.version + 1 /\ UNCHANGED <<shown, run>>
      BY <1>host, <1>4 DEF UpdateHost, Edited
    <2>2. ScreenTrue'
      BY <1>host, <2>1 DEF ScreenTrue
    <2> QED
      BY <1>1, <2>1, <2>2 DEF ApprovedAsShown
  <1>5. CASE Block
    BY <1>host, <1>4, <1>5 DEF Block
  <1>6. ASSUME NEW p \in ProfileIds, Assign(p)
        PROVE  ScreenInv'
    BY <1>host, <1>4, <1>6 DEF Assign
  <1>7. CASE ReadHost
    <2>1. /\ shown'.plan = shown.plan /\ shown'.at = shown.at
          /\ UNCHANGED <<modules, profiles, host, run>>
      BY <1>host, <1>7 DEF ReadHost
    <2>2. ScreenTrue'
      BY <1>2, <2>1, PlanFrozen DEF ScreenTrue
    <2> QED
      BY <1>1, <2>1, <2>2 DEF ApprovedAsShown
  <1>8. CASE ReadPreview
    <2>1. /\ shown'.plan = Plan /\ shown'.at = host.version /\ host.version \in 0..host.version
          /\ UNCHANGED <<modules, profiles, host, run>>
      BY <1>host, <1>8 DEF ReadPreview
    <2>2. Settled
      BY <1>8 DEF ReadPreview, Resolvable, Settled
    <2>3. ScreenTrue'
      BY <1>2, <2>1, <2>2, PlanFrozen DEF ScreenTrue
    <2> QED
      BY <1>1, <2>1, <2>3 DEF ApprovedAsShown
  <1>9. CASE CloseDialog
    BY <1>1, <1>9 DEF CloseDialog, NothingShown, ScreenTrue, ApprovedAsShown
  <1>10. CASE Approve
    <2>1. /\ run'.plan = Plan /\ run'.shown = shown.plan /\ shown'.plan = NoPlan
          /\ run'.together = (shown.at = shown.version)
      BY <1>10 DEF Approve, NothingShown
    <2>2. shown.at = shown.version => Plan = shown.plan
      BY <1>10 DEF Approve, ScreenTrue
    <2> QED
      BY <1>1, <2>1, <2>2 DEF ScreenTrue, ApprovedAsShown
  <1>11. CASE EndRun
    BY <1>3, <1>11 DEF EndRun, ApprovedAsShown
  <1>12. CASE \/ \E c \in Sources : StoreSource(c)
              \/ \E u \in Authors, m \in ModuleIds, n \in Names, c \in Sources :
                    CreateModule(u, m, n, c)
              \/ \E u \in Authors, p \in ProfileIds, steps \in Plans : CreateProfile(u, p, steps)
              \/ \E u \in Administrators, i \in ModuleIds \cup ProfileIds :
                    Check(u, i) \/ Publish(u, i)
              \/ RevokeGroup \/ UNCHANGED vars
    BY <1>3, <1>12 DEF StoreSource, CreateModule, CreateProfile, Check, Publish, RevokeGroup, vars,
                       ApprovedAsShown
  <1> QED
    BY <1>5, <1>6, <1>7, <1>8, <1>9, <1>10, <1>11, <1>12 DEF Next

\* An approved run installs the plan that was on the screen, for any plans, edits,
\* publications and revocations before and after the page's requests, unless the host itself
\* was changed between the two (service.py:268-279, app.js:220-229).
THEOREM ApprovedShown == Spec => []ApprovedAsShown
PROOF
  <1>1. Init => ScreenInv
    <2> SUFFICES ASSUME Init PROVE ScreenInv
      OBVIOUS
    <2>1. StepsTyped
      <3>1. <<>> \in Seq(ModuleIds)
        OBVIOUS
      <3> QED
        BY <3>1 DEF Init, StepsTyped, NoProfile
    <2>2. ScreenTrue /\ ApprovedAsShown
      BY DEF Init, ScreenTrue, ApprovedAsShown, NothingShown
    <2> QED
      BY <2>1, <2>2, InitHolds DEF ScreenInv
  <1>2. ScreenInv /\ [Next]_vars => ScreenInv'
    BY ScreenHolds
  <1>3. ScreenInv => ApprovedAsShown
    BY DEF ScreenInv
  <1> QED
    BY <1>1, <1>2, <1>3, PTL DEF Spec

-----------------------------------------------------------------------------
(* Version numbers *)

ModuleRow ==
    [status: {"draft", "published"}, name: Names, version: Nat \ {0}, digest: Sources,
     author: Users, publisher: Users \cup {NoUser}]

Versions(n) == {m \in ModuleIds : modules[m].name = n}

\* The versions of a name are numbered without gaps and repetitions.
Numbered(n) == {modules[m].version : m \in Versions(n)} = 1..Cardinality(Versions(n))

RowsTyped ==
    /\ modules \in [ModuleIds -> {NoModule} \cup ModuleRow]
    /\ \A n \in Names : Numbered(n)

CatalogTyped ==
    /\ files \subseteq Sources
    /\ RowsTyped
    /\ \A p \in ProfileIds : profiles[p].status \in {"absent", "draft", "published"}
    /\ host.version \in 1..MaxVersion
    /\ groupOpen \in BOOLEAN
    /\ DOMAIN run = {"active", "plan", "shown", "together"} /\ run.active \in BOOLEAN

TypedInv == IInv /\ CatalogTyped

LEMMA VersionsFinite ==
    ASSUME NEW n
    PROVE  /\ IsFiniteSet(Versions(n)) /\ Cardinality(Versions(n)) \in Nat
           /\ Cardinality(Versions(n)) <= Cardinality(ModuleIds)
PROOF
  <1>1. Versions(n) \subseteq ModuleIds /\ IsFiniteSet(ModuleIds)
    BY CatalogAssumption DEF Versions
  <1> QED
    BY <1>1, FS_Subset, FS_CardinalityType

\* MAX(version)+1 is one more than there are versions.
LEMMA NextNumber ==
    ASSUME RowsTyped, NEW n \in Names
    PROVE  NextVersion({r \in Rows(modules) : r.name = n}) = Cardinality(Versions(n)) + 1
PROOF
  <1> DEFINE rows == {r \in Rows(modules) : r.name = n}
             numbers == {0} \cup {r.version : r \in rows}
  <1>1. PICK k : k = Cardinality(Versions(n))
    OBVIOUS
  <1>2. k \in Nat
    BY <1>1, VersionsFinite
  <1>3. {modules[m].version : m \in Versions(n)} = 1..k
    BY <1>1 DEF RowsTyped, Numbered
  <1>4. {r.version : r \in rows} = {modules[m].version : m \in Versions(n)}
    <2>1. ASSUME NEW r \in rows PROVE \E m \in Versions(n) : r = modules[m]
      BY DEF Rows, Versions, RowsTyped
    <2>2. ASSUME NEW m \in Versions(n) PROVE modules[m] \in rows
      BY DEF Rows, Versions, RowsTyped
    <2> HIDE DEF rows
    <2> QED
      BY <2>1, <2>2
  <1>5. numbers = 0..k
    <2> HIDE DEF rows
    <2>1. numbers = {0} \cup 1..k
      BY <1>3, <1>4
    <2> QED
      BY <1>2, <2>1
  <1> HIDE DEF numbers
  <1>6. Max(numbers) = k
    <2>1. k \in numbers /\ \A y \in numbers : k >= y
      BY <1>2, <1>5
    <2>2. \A x \in numbers : (\A y \in numbers : x >= y) => x = k
      BY <1>2, <1>5, <2>1
    <2> QED
      BY <2>1, <2>2 DEF Max
  <1>7. NextVersion(rows) = Max(numbers) + 1
    BY DEF NextVersion, numbers
  <1> QED
    BY <1>1, <1>6, <1>7

\* A new version takes the next number of its name.
LEMMA CreateModuleTyped ==
    ASSUME TypedInv, NEW u \in Authors, NEW m \in ModuleIds, NEW n \in Names, NEW c \in Sources,
           CreateModule(u, m, n, c)
    PROVE  RowsTyped'
PROOF
  <1>1. PICK k : k = Cardinality(Versions(n))
    OBVIOUS
  <1> DEFINE new == [status |-> "draft", name |-> n, digest |-> c, version |-> k + 1,
                     author |-> u, publisher |-> NoUser]
  <1>2. RowsTyped
    BY DEF TypedInv, CatalogTyped
  <1>3. k \in Nat /\ NextVersion({r \in Rows(modules) : r.name = n}) = k + 1
    BY <1>1, <1>2, NextNumber, VersionsFinite
  <1>4. modules' = [modules EXCEPT ![m] = new] /\ modules[m].status = "absent"
    BY <1>3 DEF CreateModule
  <1>5. new \in ModuleRow /\ new.name = n /\ new.version = k + 1
    BY <1>3 DEF ModuleRow, Users
  <1> HIDE DEF new
  <1>6. modules' \in [ModuleIds -> {NoModule} \cup ModuleRow]
    BY <1>2, <1>4, <1>5 DEF RowsTyped
  <1>7. \A i \in ModuleIds : modules'[i] = IF i = m THEN new ELSE modules[i]
    BY <1>2, <1>4 DEF RowsTyped
  <1>8. modules[m].name = NoName
    BY <1>2, <1>4 DEF RowsTyped, ModuleRow, NoModule
  <1>9. ASSUME NEW x \in Names PROVE Numbered(x)'
    <2>1. Numbered(x) /\ IsFiniteSet(Versions(x))
      BY <1>2, VersionsFinite DEF RowsTyped
    <2>2. m \notin Versions(x)
      BY <1>8, CatalogAssumption DEF Versions
    <2>3. CASE x = n
      <3>1. Versions(x)' = Versions(x) \cup {m}
        BY <1>5, <1>7, <2>3 DEF Versions
      <3>2. Cardinality(Versions(x) \cup {m}) = k + 1
        BY <1>1, <2>1, <2>2, <2>3, FS_AddElement
      <3>3. {modules'[i].version : i \in Versions(x) \cup {m}}
            = {modules[i].version : i \in Versions(x)} \cup {k + 1}
        <4>1. \A i \in Versions(x) : modules'[i] = modules[i]
          BY <1>7, <2>2 DEF Versions
        <4>2. modules'[m].version = k + 1
          BY <1>5, <1>7
        <4> QED
          BY <4>1, <4>2
      <3>4. {modules[i].version : i \in Versions(x)} = 1..k
        BY <1>1, <2>1, <2>3 DEF Numbered
      <3>5. 1..k \cup {k + 1} = 1..k + 1
        BY <1>3
      <3> QED
        BY <3>1, <3>2, <3>3, <3>4, <3>5 DEF Numbered
    <2>4. CASE x # n
      <3>1. Versions(x)' = Versions(x)
        BY <1>5, <1>7, <2>2, <2>4 DEF Versions
      <3>2. \A i \in Versions(x) : modules'[i] = modules[i]
        BY <1>7, <2>2 DEF Versions
      <3> QED
        BY <2>1, <3>1, <3>2 DEF Numbered
    <2> QED
      BY <2>3, <2>4
  <1> QED
    BY <1>6, <1>9 DEF RowsTyped

LEMMA PublishTyped ==
    ASSUME TypedInv, NEW u \in Administrators, NEW i \in ModuleIds \cup ProfileIds, Publish(u, i)
    PROVE  RowsTyped'
PROOF
  <1>1. RowsTyped
    BY DEF TypedInv, CatalogTyped
  <1>2. ASSUME NEW x \in ModuleIds
        PROVE  /\ modules'[x].name = modules[x].name /\ modules'[x].version = modules[x].version
               /\ modules'[x] \in {NoModule} \cup ModuleRow
    <2>1. CASE x = i /\ StillDraft(modules[x])
      <3>1. modules' = [modules EXCEPT ![x].status = "published", ![x].publisher = u]
        BY <2>1 DEF Publish, Published
      <3>2. modules[x] \in ModuleRow
        BY <1>1, <2>1 DEF RowsTyped, StillDraft, NoModule
      <3>3. modules'[x] = [modules[x] EXCEPT !.status = "published", !.publisher = u]
        BY <1>1, <3>1 DEF RowsTyped
      <3> QED
        BY <3>2, <3>3 DEF ModuleRow, Users
    <2>2. CASE ~(x = i /\ StillDraft(modules[x]))
      <3>1. modules'[x] = modules[x]
        BY <1>1, <2>2 DEF Publish, Published, RowsTyped
      <3> QED
        BY <1>1, <3>1 DEF RowsTyped
    <2> QED
      BY <2>1, <2>2
  <1>3. modules' \in [ModuleIds -> {NoModule} \cup ModuleRow]
    <2>1. modules' = [x \in ModuleIds |-> modules'[x]]
      BY <1>1 DEF Publish, Published, RowsTyped
    <2> QED
      BY <1>2, <2>1
  <1>4. ASSUME NEW n \in Names PROVE Numbered(n)'
    <2>1. Numbered(n)
      BY <1>1 DEF RowsTyped
    <2>2. Versions(n)' = Versions(n)
      BY <1>2 DEF Versions
    <2>3. \A m \in Versions(n) : modules'[m].version = modules[m].version
      BY <1>2 DEF Versions
    <2> QED
      BY <2>1, <2>2, <2>3 DEF Numbered
  <1> QED
    BY <1>3, <1>4 DEF RowsTyped

LEMMA RowsStayTyped == ASSUME TypedInv, [Next]_vars PROVE RowsTyped'
PROOF
  <1>1. CASE UNCHANGED modules
    <2>1. RowsTyped
      BY DEF TypedInv, CatalogTyped
    <2>2. \A n : Versions(n)' = Versions(n)
      BY <1>1 DEF Versions
    <2>3. \A n : Numbered(n)' <=> Numbered(n)
      BY <1>1, <2>2 DEF Numbered
    <2> QED
      BY <1>1, <2>1, <2>3 DEF RowsTyped
  <1>2. CASE \/ \E c \in Sources : StoreSource(c)
             \/ \E u \in Authors, p \in ProfileIds, steps \in Plans : CreateProfile(u, p, steps)
             \/ \E u \in Administrators, i \in ModuleIds \cup ProfileIds : Check(u, i)
             \/ \E p \in ProfileIds : Assign(p)
             \/ Block \/ RevokeGroup \/ ReadHost \/ ReadPreview \/ CloseDialog \/ Approve \/ EndRun
             \/ UNCHANGED vars
    BY <1>1, <1>2 DEF StoreSource, CreateProfile, Check, Assign, Block, UpdateHost, RevokeGroup,
                      ReadHost, ReadPreview, CloseDialog, Approve, EndRun, vars
  <1> QED
    BY <1>2, CreateModuleTyped, PublishTyped DEF Next

LEMMA TypedHolds == TypedInv /\ [Next]_vars => TypedInv'
PROOF
  <1> SUFFICES ASSUME TypedInv, [Next]_vars PROVE TypedInv'
    OBVIOUS
  <1>1. IInv' /\ RowsTyped'
    BY NextHolds, RowsStayTyped DEF TypedInv
  <1>2. /\ files \subseteq Sources
        /\ \A p \in ProfileIds : profiles[p].status \in {"absent", "draft", "published"}
        /\ host.version \in 1..MaxVersion /\ groupOpen \in BOOLEAN
        /\ DOMAIN run = {"active", "plan", "shown", "together"} /\ run.active \in BOOLEAN
        /\ DOMAIN host = {"version", "blocked", "profile"}
        /\ \A p \in ProfileIds : Fields \subseteq DOMAIN profiles[p]
        /\ profiles = [p \in ProfileIds |-> profiles[p]]
    BY DEF TypedInv, CatalogTyped, IInv, Tables
  <1>3. MaxVersion \in Nat \ {0}
    BY CatalogAssumption
  <1>4. files' \subseteq Sources
    BY <1>2 DEF Next, vars, StoreSource, CreateModule, CreateProfile, Check, Publish, Assign, Block,
                UpdateHost, RevokeGroup, ReadHost, ReadPreview, CloseDialog, Approve, EndRun
  <1>5. groupOpen' \in BOOLEAN
    BY <1>2 DEF Next, vars, StoreSource, CreateModule, CreateProfile, Check, Publish, Assign, Block,
                UpdateHost, RevokeGroup, ReadHost, ReadPreview, CloseDialog, Approve, EndRun
  <1>6. DOMAIN run' = {"active", "plan", "shown", "together"} /\ run'.active \in BOOLEAN
    <2>1. CASE UNCHANGED run
      BY <1>2, <2>1
    <2>2. CASE Approve
      BY <2>2 DEF Approve
    <2>3. CASE EndRun
      BY <1>2, <2>3 DEF EndRun
    <2> QED
      BY <2>1, <2>2, <2>3 DEF Next, vars, StoreSource, CreateModule, CreateProfile, Check, Publish,
            Assign, Block, UpdateHost, RevokeGroup, ReadHost, ReadPreview, CloseDialog
  <1>7. host'.version \in 1..MaxVersion
    <2>1. CASE UNCHANGED host
      BY <1>2, <2>1
    <2>2. ASSUME NEW new, DOMAIN new = DOMAIN host, new.version = host.version, UpdateHost(new)
          PROVE  host'.version \in 1..MaxVersion
      <3>1. host.version < MaxVersion /\ host' = [new EXCEPT !.version = @ + 1]
        BY <2>2 DEF UpdateHost, Edited
      <3>2. host'.version = host.version + 1
        BY <1>2, <2>2, <3>1
      <3> QED
        BY <1>2, <1>3, <3>1, <3>2
    <2>3. CASE Block
      BY <1>2, <2>2, <2>3 DEF Block
    <2>4. ASSUME NEW p \in ProfileIds, Assign(p) PROVE host'.version \in 1..MaxVersion
      BY <1>2, <2>2, <2>4 DEF Assign
    <2>5. CASE Approve
      <3>1. host.version < MaxVersion /\ host' = [host EXCEPT !.version = @ + 1]
        BY <2>5 DEF Approve
      <3> QED
        BY <1>2, <1>3, <3>1
    <2> QED
      BY <2>1, <2>3, <2>4, <2>5 DEF Next, vars, StoreSource, CreateModule, CreateProfile, Check,
            Publish, RevokeGroup, ReadHost, ReadPreview, CloseDialog, EndRun
  <1>8. ASSUME NEW p \in ProfileIds
        PROVE  profiles'[p].status \in {"absent", "draft", "published"}
    <2>1. CASE UNCHANGED profiles
      BY <1>2, <2>1
    <2>2. ASSUME NEW u \in Authors, NEW q \in ProfileIds, NEW steps \in Plans,
                 CreateProfile(u, q, steps)
          PROVE  profiles'[p].status \in {"absent", "draft", "published"}
      <3>1. CASE p = q
        <4>1. profiles'[p] = [status |-> "draft", version |-> NextVersion(Rows(profiles)),
                              steps |-> steps, author |-> u, publisher |-> NoUser]
          BY <1>2, <2>2, <3>1 DEF CreateProfile
        <4> QED
          BY <4>1
      <3>2. CASE p # q
        BY <1>2, <2>2, <3>2 DEF CreateProfile
      <3> QED
        BY <3>1, <3>2
    <2>3. ASSUME NEW u \in Administrators, NEW i \in ModuleIds \cup ProfileIds, Publish(u, i)
          PROVE  profiles'[p].status \in {"absent", "draft", "published"}
      <3>1. CASE p = i /\ StillDraft(profiles[p])
        <4>1. profiles' = [profiles EXCEPT ![p].status = "published", ![p].publisher = u]
          BY <2>3, <3>1 DEF Publish, Published
        <4>2. profiles'[p] = [profiles[p] EXCEPT !.status = "published", !.publisher = u]
          BY <1>2, <4>1
        <4>3. "status" \in DOMAIN profiles[p]
          BY <1>2 DEF Fields
        <4> QED
          BY <4>2, <4>3
      <3>2. CASE ~(p = i /\ StillDraft(profiles[p]))
        <4>1. profiles'[p] = profiles[p]
          BY <1>2, <2>3, <3>2 DEF Publish, Published
        <4> QED
          BY <1>2, <4>1
      <3> QED
        BY <3>1, <3>2
    <2> QED
      BY <2>1, <2>2, <2>3 DEF Next, vars, StoreSource, CreateModule, Check, Assign, Block, UpdateHost,
            RevokeGroup, ReadHost, ReadPreview, CloseDialog, Approve, EndRun
  <1> QED
    BY <1>1, <1>4, <1>5, <1>6, <1>7, <1>8 DEF TypedInv, CatalogTyped

\* The shapes of the rows, and gap-free version numbers, for any authors and names
\* (app.py:287-300).
THEOREM CatalogTypes == Spec => []TypeOK
PROOF
  <1>1. Init => TypedInv
    <2> SUFFICES ASSUME Init PROVE TypedInv
      OBVIOUS
    <2>1. RowsTyped
      <3>1. ASSUME NEW n \in Names PROVE Numbered(n)
        <4>1. Versions(n) = {}
          BY CatalogAssumption DEF Init, Versions, NoModule
        <4>2. Cardinality({}) = 0
          BY FS_EmptySet
        <4>3. {modules[m].version : m \in {}} = {} /\ 1..0 = {}
          OBVIOUS
        <4> QED
          BY <4>1, <4>2, <4>3 DEF Numbered
      <3> QED
        BY <3>1 DEF RowsTyped, Init
    <2>2. DOMAIN run = {"active", "plan", "shown", "together"} /\ run.active \in BOOLEAN
      BY DEF Init
    <2>3. host.version \in 1..MaxVersion
      <3>1. MaxVersion \in Nat \ {0}
        BY CatalogAssumption
      <3>2. host.version = 1
        BY DEF Init
      <3> QED
        BY <3>1, <3>2
    <2>4. \A p \in ProfileIds : profiles[p].status \in {"absent", "draft", "published"}
      BY DEF Init, NoProfile
    <2>5. files \subseteq Sources /\ groupOpen \in BOOLEAN
      BY DEF Init
    <2> QED
      BY <2>1, <2>2, <2>3, <2>4, <2>5, InitHolds DEF TypedInv, CatalogTyped
  <1>2. TypedInv => TypeOK
    <2> SUFFICES ASSUME TypedInv PROVE TypeOK
      OBVIOUS
    <2> DEFINE Row == [status: {"draft", "published"}, name: Names,
                       version: 1..Cardinality(ModuleIds), digest: Sources, author: Users,
                       publisher: Users \cup {NoUser}]
    <2>1. RowsTyped
      BY DEF TypedInv, CatalogTyped
    <2>2. ASSUME NEW m \in ModuleIds PROVE modules[m] \in {NoModule} \cup Row
      <3>1. CASE modules[m] = NoModule
        BY <3>1
      <3>2. CASE modules[m] # NoModule
        <4>1. modules[m] \in ModuleRow
          BY <2>1, <3>2 DEF RowsTyped
        <4>2. PICK n \in Names : n = modules[m].name
          BY <4>1 DEF ModuleRow
        <4>3. modules[m].version \in 1..Cardinality(Versions(n))
          BY <2>1, <4>2 DEF RowsTyped, Numbered, Versions
        <4>4. modules[m].version \in 1..Cardinality(ModuleIds)
          <5>1. Cardinality(ModuleIds) \in Nat
            BY CatalogAssumption, FS_CardinalityType
          <5> QED
            BY <4>3, <5>1, VersionsFinite
        <4> QED
          BY <4>1, <4>4 DEF ModuleRow
      <3> QED
        BY <3>1, <3>2
    <2>3. modules \in [ModuleIds -> {NoModule} \cup Row]
      <3> HIDE DEF Row
      <3> QED
        BY <2>1, <2>2 DEF RowsTyped
    <2>4. ASSUME NEW n \in Names
          PROVE  LET ids == {m \in ModuleIds : modules[m].name = n} IN
                 {modules[m].version : m \in ids} = 1..Cardinality(ids)
      BY <2>1 DEF RowsTyped, Numbered, Versions
    <2>5. /\ files \subseteq Sources
          /\ \A p \in ProfileIds : profiles[p].status \in {"absent", "draft", "published"}
          /\ host.version \in 1..MaxVersion /\ host.profile \in ProfileIds
          /\ groupOpen \in BOOLEAN /\ run.active \in BOOLEAN
      BY DEF TypedInv, CatalogTyped, IInv, Tables
    <2> QED
      BY <2>3, <2>4, <2>5 DEF TypeOK
  <1> QED
    BY <1>1, <1>2, TypedHolds, PTL DEF Spec

-----------------------------------------------------------------------------
(* The plan of a run *)

\* A step is published and complete, and comes after those it depends on.
StepExecutable(plan, i) ==
    LET s == plan.steps[i] IN
    /\ s.module \in ModuleIds /\ modules[s.module].status = "published"
    /\ s.digest = modules[s.module].digest /\ s.digest \in files
    /\ s.dependsOn \subseteq 1..(i - 1)
    /\ \A n \in Needs[modules[s.module].name] :
          \E d \in s.dependsOn : modules[plan.steps[d].module].name = n

Executable(plan) ==
    \E N \in Nat : DOMAIN plan.steps = 1..N /\ \A i \in 1..N : StepExecutable(plan, i)

PlanInv == IInv /\ StepsTyped /\ (run.plan # NoPlan => Executable(run.plan))

LEMMA Greatest == ASSUME NEW n \in Int, NEW T, T \subseteq 1..n, T # {} PROVE Max(T) \in T
PROOF
  <1> DEFINE P == {k \in 1..n : \A y \in T : k >= y}
  <1>1. n \in P /\ P \subseteq Nat
    <2>1. \A y \in T : y \in Int /\ 1 <= y /\ y <= n
      OBVIOUS
    <2>2. PICK y \in T : TRUE
      OBVIOUS
    <2>3. n \in 1..n
      BY <2>1, <2>2
    <2> QED
      BY <2>1, <2>3
  <1>2. \E k \in P : \A j \in P : k <= j
    <2> DEFINE Smaller == OpToRel(<, Nat)
    <2>1. IsWellFoundedOn(Smaller, Nat)
      BY NatLessThanWellFounded
    <2>2. \A i, j \in Nat : <<i, j>> \in Smaller <=> i < j
      BY DEF OpToRel
    <2> HIDE DEF Smaller, P
    <2>3. PICK k \in P : \A j \in P : ~(<<j, k>> \in Smaller)
      BY <1>1, <2>1, WFMin
    <2>4. ASSUME NEW j \in P PROVE k <= j
      <3>1. j \in Nat /\ k \in Nat
        BY <1>1
      <3>2. ~(j < k)
        BY <2>2, <2>3, <3>1
      <3> QED
        BY <3>1, <3>2
    <2> QED
      BY <2>4
  <1>3. PICK k \in P : \A j \in P : k <= j
    BY <1>2
  <1>4. k \in T
    <2> SUFFICES ASSUME k \notin T PROVE FALSE
      OBVIOUS
    <2>1. PICK y \in T : TRUE
      OBVIOUS
    <2>2. \A x \in T : k - 1 >= x
      OBVIOUS
    <2>3. k - 1 \in P
      BY <2>1, <2>2
    <2> QED
      BY <1>3, <2>3
  <1>5. \E x \in T : \A y \in T : x >= y
    BY <1>4
  <1> QED
    BY <1>5 DEF Max

\* What resolve() lets pass is a plan that can be executed.
LEMMA ResolvedPlan == ASSUME IInv, StepsTyped, Resolvable PROVE Executable(Plan)
PROOF
  <1>1. PICK steps : steps = profiles[host.profile].steps
    OBVIOUS
  <1>2. steps \in Seq(ModuleIds)
    BY <1>1 DEF StepsTyped, IInv, Tables
  <1>3. PICK N : N = Len(steps)
    OBVIOUS
  <1>4. N \in Nat /\ DOMAIN steps = 1..N /\ \A i \in 1..N : steps[i] \in ModuleIds
    BY <1>2, <1>3
  <1>5. Plan = [profile |-> host.profile, steps |-> [i \in 1..N |-> Pinned(steps, i)]]
    BY <1>1, <1>4 DEF Plan
  <1>6. PICK plan : plan = Plan
    OBVIOUS
  <1>7. DOMAIN plan.steps = 1..N /\ \A i \in 1..N : plan.steps[i] = Pinned(steps, i)
    BY <1>5, <1>6
  <1>8. ASSUME NEW i \in 1..N
        PROVE  /\ plan.steps[i].module = steps[i]
               /\ plan.steps[i].digest = modules[steps[i]].digest
               /\ plan.steps[i].dependsOn
                    = {Max(Before(steps, i, n)) : n \in Needs[modules[steps[i]].name]}
    <2> DEFINE pins == {Max(Before(steps, i, n)) : n \in Needs[modules[steps[i]].name]}
    <2>1. plan.steps[i] = [module |-> steps[i], digest |-> modules[steps[i]].digest,
                           dependsOn |-> pins]
      BY <1>7 DEF Pinned
    <2> HIDE DEF pins
    <2>2. /\ plan.steps[i].module = steps[i]
          /\ plan.steps[i].digest = modules[steps[i]].digest
          /\ plan.steps[i].dependsOn = pins
      BY <2>1
    <2> QED
      BY <2>2 DEF pins
  <1>9. ASSUME NEW i \in 1..N PROVE StepExecutable(plan, i)
    <2>1. /\ modules[steps[i]].status = "published" /\ modules[steps[i]].digest \in files
          /\ \A n \in Needs[modules[steps[i]].name] : Before(steps, i, n) # {}
      BY <1>1, <1>4 DEF Resolvable
    <2>2. ASSUME NEW n \in Needs[modules[steps[i]].name]
          PROVE  /\ Max(Before(steps, i, n)) \in 1..(i - 1)
                 /\ modules[steps[Max(Before(steps, i, n))]].name = n
      <3>1. Before(steps, i, n) \subseteq 1..(i - 1) /\ i - 1 \in Int
        BY DEF Before
      <3>2. Max(Before(steps, i, n)) \in Before(steps, i, n)
        BY <2>1, <3>1, Greatest
      <3> QED
        BY <3>2 DEF Before
    <2>3. plan.steps[i].dependsOn \subseteq 1..(i - 1)
      BY <1>8, <2>2
    <2>4. ASSUME NEW n \in Needs[modules[steps[i]].name]
          PROVE  \E d \in plan.steps[i].dependsOn : modules[plan.steps[d].module].name = n
      <3>1. PICK d : d = Max(Before(steps, i, n))
        OBVIOUS
      <3>2. d \in 1..(i - 1) /\ modules[steps[d]].name = n
        BY <2>2, <3>1
      <3>3. d \in 1..N
        BY <1>4, <3>2
      <3> QED
        BY <1>8, <3>1, <3>2, <3>3
    <2> QED
      BY <1>4, <1>8, <2>1, <2>3, <2>4 DEF StepExecutable
  <1> QED
    BY <1>4, <1>6, <1>7, <1>9 DEF Executable

\* What a plan refers to stays: published rows are frozen, stored sources are kept.
LEMMA PlanStays ==
    ASSUME NEW plan, Executable(plan), Frozen, files \subseteq files'
    PROVE  Executable(plan)'
PROOF
  <1>1. PICK N \in Nat : DOMAIN plan.steps = 1..N /\ \A i \in 1..N : StepExecutable(plan, i)
    BY DEF Executable
  <1>2. ASSUME NEW i \in 1..N
        PROVE  modules'[plan.steps[i].module] = modules[plan.steps[i].module]
    BY <1>1 DEF Frozen, StepExecutable
  <1>3. ASSUME NEW i \in 1..N PROVE StepExecutable(plan, i)'
    <2>1. 1..(i - 1) \subseteq 1..N
      OBVIOUS
    <2>2. ASSUME NEW d \in plan.steps[i].dependsOn
          PROVE  modules'[plan.steps[d].module] = modules[plan.steps[d].module]
      BY <1>1, <1>2, <2>1 DEF StepExecutable
    <2>3. StepExecutable(plan, i)
      BY <1>1
    <2> QED
      BY <1>2, <2>2, <2>3 DEF StepExecutable
  <1> QED
    BY <1>1, <1>3 DEF Executable

LEMMA PlanHolds == PlanInv /\ [Next]_vars => PlanInv'
PROOF
  <1> SUFFICES ASSUME PlanInv, [Next]_vars PROVE PlanInv'
    OBVIOUS
  <1>1. IInv' /\ StepsTyped'
    BY NextHolds, StepsStayTyped DEF PlanInv
  <1>2. Frozen
    BY NextFrozen DEF PlanInv, Frozen, vars
  <1>3. files \subseteq files'
    BY DEF Next, vars, StoreSource, CreateModule, CreateProfile, Check, Publish, Assign, Block,
           UpdateHost, RevokeGroup, ReadHost, ReadPreview, CloseDialog, Approve, EndRun
  <1>4. ASSUME NEW plan, Executable(plan) PROVE Executable(plan)'
    BY <1>2, <1>3, <1>4, PlanStays
  <1>5. CASE Approve
    <2>1. PICK plan : plan = Plan
      OBVIOUS
    <2>2. run'.plan = plan
      BY <1>5, <2>1 DEF Approve
    <2>3. Executable(plan)
      <3>1. Executable(Plan)
        BY <1>5, ResolvedPlan DEF PlanInv, Approve
      <3> QED
        BY <2>1, <3>1
    <2>4. Executable(plan)'
      BY <1>4, <2>3
    <2> QED
      BY <1>1, <2>2, <2>4 DEF PlanInv
  <1>6. ASSUME run'.plan = run.plan PROVE PlanInv'
    <2>1. PICK plan : plan = run.plan
      OBVIOUS
    <2>2. plan # NoPlan => Executable(plan)
      BY <2>1 DEF PlanInv
    <2>3. plan # NoPlan => Executable(plan)'
      BY <1>4, <2>2
    <2>4. run'.plan = plan
      BY <1>6, <2>1
    <2> QED
      BY <1>1, <2>3, <2>4 DEF PlanInv
  <1>7. CASE EndRun
    <2>1. run'.plan = run.plan
      BY <1>7 DEF EndRun
    <2> QED
      BY <1>6, <2>1
  <1>8. CASE UNCHANGED run
    BY <1>6, <1>8
  <1> QED
    BY <1>5, <1>7, <1>8 DEF Next, vars, StoreSource, CreateModule, CreateProfile, Check, Publish,
          Assign, Block, UpdateHost, RevokeGroup, ReadHost, ReadPreview, CloseDialog

\* The plan a run was approved with stays executable, whatever is written, published,
\* revoked or edited meanwhile and afterwards (service.py:177-200, app.py:337-343).
THEOREM PlansExecutable == Spec => []PlanExecutable
PROOF
  <1>1. Init => PlanInv
    <2> SUFFICES ASSUME Init PROVE PlanInv
      OBVIOUS
    <2>1. StepsTyped
      <3>1. <<>> \in Seq(ModuleIds)
        OBVIOUS
      <3> QED
        BY <3>1 DEF Init, StepsTyped, NoProfile
    <2>2. run.plan = NoPlan
      BY DEF Init
    <2> QED
      BY <2>1, <2>2, InitHolds DEF PlanInv
  <1>2. PlanInv => PlanExecutable
    BY DEF PlanInv, Executable, StepExecutable, PlanExecutable
  <1> QED
    BY <1>1, <1>2, PlanHolds, PTL DEF Spec
=============================================================================
