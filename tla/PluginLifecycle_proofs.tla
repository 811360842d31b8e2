------------------------ MODULE PluginLifecycle_proofs ------------------------
(***************************************************************************)
(* Theorems of PluginLifecycle, for any plugins, tools and callers.        *)
(***************************************************************************)
EXTENDS PluginLifecycle, TLAPS

\* A client's step is one of these, and so is the start's.
USE DEF dbVars, guardVars, liveVars, argVars, callVars, bootVars, countVars

\* A call that returns or throws leaves well-typed call variables behind.
LEMMA ReturnType ==
  ASSUME TypeOK, NEW c \in Callers, Return(c)
  PROVE  /\ at' \in [Callers -> Awaits]
         /\ plugin' \in [Callers -> Plugins \union {None}]
         /\ previous' \in [Callers -> Plugins \union {None}]
         /\ auto' \in SUBSET Callers /\ sawActive' \in SUBSET Callers
         /\ shared' \in SUBSET Plugins
         /\ \A d \in Callers : at'[d] # "idle" => plugin'[d] \in Plugins
  BY DEF TypeOK, Return, Call, About, Awaits

LEMMA ThrowType ==
  ASSUME TypeOK, NEW c \in Callers, Throw(c)
  PROVE  /\ at' \in [Callers -> Awaits]
         /\ plugin' \in [Callers -> Plugins \union {None}]
         /\ previous' \in [Callers -> Plugins \union {None}]
         /\ auto' \in SUBSET Callers /\ sawActive' \in SUBSET Callers
         /\ shared' \in SUBSET Plugins
         /\ \A d \in Callers : at'[d] # "idle" => plugin'[d] \in Plugins
         /\ stage' \in {"initialize", "bootstrap", "ready", "failed"}
         /\ todo' \in SUBSET Plugins
  <1>1. Return(c)
    BY DEF Throw
  <1>2. stage' \in {"initialize", "bootstrap", "ready", "failed"}
    BY DEF Throw, TypeOK
  <1>3. todo' \in SUBSET Plugins
    BY DEF Throw, Visited, TypeOK
  <1> QED BY <1>1, <1>2, <1>3, ReturnType

LEMMA BeginLoadType ==
  ASSUME TypeOK, NEW c \in Callers, NEW p \in Plugins, NEW q \in Plugins \union {None},
         BeginLoad(c, p, q)
  PROVE  /\ at' \in [Callers -> Awaits]
         /\ plugin' \in [Callers -> Plugins \union {None}]
         /\ previous' \in [Callers -> Plugins \union {None}]
         /\ auto' \in SUBSET Callers /\ sawActive' \in SUBSET Callers
         /\ shared' \in SUBSET Plugins
         /\ \A d \in Callers : at'[d] # "idle" => plugin'[d] \in Plugins
         /\ loader' \in SUBSET Plugins
         /\ originalLoad' \in [Callers -> SUBSET Plugins]
         /\ overlapped' \in BOOLEAN
  BY DEF TypeOK, BeginLoad, InstallGuard, Call, About, Awaits

LEMMA RestoreType ==
  ASSUME TypeOK, NEW c \in Callers, RestoreLoad(c)
  PROVE  /\ loader' \in SUBSET Plugins
         /\ originalLoad' \in [Callers -> SUBSET Plugins]
         /\ overlapped' \in BOOLEAN
  BY DEF TypeOK, RestoreLoad

\* A fault is counted, and never beyond the bound.
LEMMA FaultType ==
  ASSUME TypeOK, Fault
  PROVE  faults' \in 0 .. MaxFaults
  BY PluginBounds DEF TypeOK, Fault

\* What activate() and update() do to the rows once the registrations are made.
LEMMA ActivatedType ==
  ASSUME TypeOK, NEW c \in Callers, at[c] # "idle", NEW seen, Activated(c, seen)
  PROVE  /\ row' \in [Plugins -> States \union {"none"}]
         /\ \A p \in Plugins : row'[p] = "none" <=> row[p] = "none"
         /\ capable' \in SUBSET Plugins
         /\ \A p \in capable' : p \in capable \/ row[p] # "none"
         /\ captured' \in SUBSET Plugins
         /\ captured' \subseteq captured \union {plugin[c]}
         /\ Return(c)
         /\ todo' \in SUBSET Plugins
  <1>1. plugin[c] \in Plugins /\ previous[c] \in Plugins \union {None}
    BY DEF TypeOK
  <1> QED BY <1>1 DEF TypeOK, Activated, ActiveRow, WithCapabilities, Visited, States

\* What a crash may leave of the two writes of uninstall() and of update().
LEMMA RestartRows ==
  ASSUME TypeOK, Restart
  PROVE  /\ row' \in [Plugins -> States \union {"none"}]
         /\ \A p \in Plugins : row'[p] = "none" <=> row[p] = "none"
         /\ capable' \in SUBSET Plugins
         /\ \A p \in capable' : p \in capable \/ row[p] # "none"
  <1>1. CASE UNCHANGED <<row, capable>>
    BY <1>1 DEF TypeOK
  <1>2. CASE UninstallCut
    BY <1>2 DEF UninstallCut, SetState, TypeOK, States
  <1>3. CASE UpdateCut
    <2>1. PICK c \in Clients : /\ at[c] = "load" /\ row' = ActiveRow(plugin[c], c \in sawActive)
                               /\ capable' = WithCapabilities(plugin[c])
      BY <1>3 DEF UpdateCut
    <2>2. plugin[c] \in Plugins
      BY <2>1 DEF TypeOK, Callers
    <2> QED BY <2>1, <2>2 DEF ActiveRow, WithCapabilities, TypeOK, States
  <1> QED BY <1>1, <1>2, <1>3 DEF Restart

\* Every variable keeps its type, and a call under way is always about some plugin.
THEOREM TypeCorrect == Spec => []TypeOK
<1>1. Init => TypeOK
  <2> SUFFICES ASSUME Init PROVE TypeOK
    OBVIOUS
  <2>1. overlapped \in BOOLEAN
    BY DEF Init
  <2> QED BY <2>1, PluginBounds, PluginAssumption
             DEF Init, TypeOK, NoServes, NoCalls, NoArgs, NoGuards, States, Awaits, Callers
<1>2. TypeOK /\ [Next]_vars => TypeOK'
  <2> SUFFICES ASSUME TypeOK, [Next]_vars PROVE TypeOK'
    OBVIOUS
  <2> USE PluginBounds, PluginAssumption
  <2>0. \A p, q \in Plugins : p # None /\ q # None
    OBVIOUS
  <2>1. CASE Restart
    <3>1. overlapped' \in BOOLEAN
      BY <2>1 DEF Restart
    <3>2. row' \in [Plugins -> States \union {"none"}] /\ capable' \in SUBSET Plugins
      BY <2>1, RestartRows DEF TypeOK
    <3> QED BY <2>1, <3>1, <3>2 DEF Restart, TypeOK, NoServes, NoCalls, NoArgs, NoGuards,
                                    StartList, Awaits
  <2>2. ASSUME NEW c \in Callers, NEW p \in Plugins, Activate(c, p) PROVE TypeOK'
    <3>1. CASE IsLoaded(p)
      BY <2>2, <3>1 DEF Activate, WithCapabilities, Visited, TypeOK
    <3>2. CASE ~IsLoaded(p) /\ HasRoot(p)
      <4>1. BeginLoad(c, p, None)
        BY <2>2, <3>2 DEF Activate
      <4> QED BY <2>2, <3>2, <4>1, BeginLoadType DEF Activate, TypeOK
    <3>3. CASE ~IsLoaded(p) /\ ~HasRoot(p)
      BY <2>2, <3>3 DEF Activate, Visited, TypeOK
    <3> QED BY <3>1, <3>2, <3>3
  <2>3. ASSUME NEW c \in Clients, NEW p \in Plugins, Deactivate(c, p) PROVE TypeOK'
    BY <2>3 DEF Deactivate, Unregistered, About, SetState, TypeOK, States
  <2>4. ASSUME NEW c \in Clients, NEW p \in Plugins, Uninstall(c, p) PROVE TypeOK'
    <3>1. CASE MayDelete(p)
      BY <2>4, <3>1 DEF Uninstall, Unregistered, About, DeleteRow, TypeOK, States
    <3>2. CASE ~MayDelete(p)
      BY <2>4, <3>2 DEF Uninstall, Unregistered, About, SetState, TypeOK, States
    <3> QED BY <3>1, <3>2
  <2>5. ASSUME NEW c \in Clients, NEW p \in Plugins, Install(c, p) PROVE TypeOK'
    BY <2>5 DEF Install, Call, About, TypeOK, Awaits, Callers
  <2>6. ASSUME NEW c \in Clients, NEW n \in Names, NEW p \in Plugins, Update(c, n, p)
        PROVE TypeOK'
    <3>1. PICK q \in Newest(n) : SetState(q, "updating") /\ Call(c, "artifact", p, q)
      BY <2>6 DEF Update
    <3>2. q \in Plugins /\ row[q] # "none"
      BY DEF Newest, ByName
    <3> QED BY <2>6, <3>1, <3>2 DEF Update, SetState, Call, About, TypeOK, Awaits, States, Callers
  <2>7. ASSUME NEW c \in Callers, LoadFails(c) PROVE TypeOK'
    BY <2>7, ThrowType, RestoreType, FaultType DEF LoadFails, TypeOK
  <2>8. ASSUME NEW c \in Callers, LoadCollides(c) PROVE TypeOK'
    <3>1. plugin[c] \in Plugins
      BY <2>8 DEF LoadCollides, TypeOK
    <3>2. serves' \in [Tools -> Plugins \union {None}]
      BY <2>8, <3>1 DEF LoadCollides, Register, TypeOK
    <3> QED BY <2>8, <3>2, ThrowType, RestoreType DEF LoadCollides, TypeOK
  <2>9. ASSUME NEW c \in Callers, LoadSucceeds(c) PROVE TypeOK'
    <3>1. plugin[c] \in Plugins
      BY <2>9 DEF LoadSucceeds, TypeOK
    <3>2. serves' \in [Tools -> Plugins \union {None}]
      BY <2>9, <3>1 DEF LoadSucceeds, Register, TypeOK
    <3> QED BY <2>9, <3>2, ActivatedType, ReturnType, RestoreType DEF LoadSucceeds, TypeOK
  <2>10. ASSUME NEW c \in Callers, InstallRefused(c) PROVE TypeOK'
    BY <2>10, ThrowType, FaultType DEF InstallRefused, TypeOK
  <2>11. ASSUME NEW c \in Callers, InstallChecked(c) PROVE TypeOK'
    BY <2>11 DEF InstallChecked, TypeOK, Awaits
  <2>12. ASSUME NEW c \in Callers, Insert(c) PROVE TypeOK'
    <3>1. plugin[c] \in Plugins
      BY <2>12 DEF Insert, TypeOK
    <3>2. installedAt' \in [Plugins -> Nat]
      <4>1. PICK q \in Plugins, passed \in {0, 1} :
              installedAt' = [installedAt EXCEPT ![plugin[c]] = installedAt[q] + passed]
        BY <2>12 DEF Insert
      <4>2. installedAt[q] + passed \in Nat
        BY <4>1 DEF TypeOK
      <4> QED BY <4>1, <4>2 DEF TypeOK
    <3> QED BY <2>12, <3>1, <3>2 DEF Insert, TypeOK, Awaits, States
  <2>13. ASSUME NEW c \in Callers, InsertCollides(c) PROVE TypeOK'
    BY <2>13, ThrowType DEF InsertCollides, TypeOK
  <2>14. ASSUME NEW c \in Callers, Copied(c) PROVE TypeOK'
    <3>1. plugin[c] \in Plugins /\ previous[c] \in Plugins \union {None}
      BY <2>14 DEF Copied, TypeOK
    <3>2. CASE c \notin auto
      BY <2>14, <3>1, <3>2, ReturnType DEF Copied, TypeOK
    <3>3. CASE c \in auto /\ ~IsLoaded(plugin[c])
      BY <2>14, <3>1, <3>3, BeginLoadType DEF Copied, TypeOK
    <3>4. CASE c \in auto /\ IsLoaded(plugin[c])
      BY <2>14, <3>1, <3>4, ActivatedType, ReturnType DEF Copied, TypeOK
    <3> QED BY <3>2, <3>3, <3>4
  <2>15. ASSUME NEW c \in Callers, CopyFails(c) PROVE TypeOK'
    BY <2>15, ThrowType, FaultType DEF CopyFails, TypeOK
  <2>16. CASE InitializeDone \/ BootstrapDone
    BY <2>16 DEF InitializeDone, BootstrapDone, TypeOK
  <2>17. ASSUME NEW p \in Plugins, Bootstrap(p) PROVE TypeOK'
    <3>1. CASE row[p] = "none"
      BY <2>17, <3>1 DEF Bootstrap, Call, About, TypeOK, Awaits, Callers
    <3>2. CASE row[p] # "none" /\ NeedsActivation(row[p])
      BY <2>2, <2>17, <3>2 DEF Bootstrap, Callers
    <3>3. CASE row[p] # "none" /\ ~NeedsActivation(row[p])
      BY <2>17, <3>3 DEF Bootstrap, Visited, TypeOK
    <3> QED BY <3>1, <3>2, <3>3
  <2>18. ASSUME NEW p \in Plugins, Initialize(p) PROVE TypeOK'
    BY <2>2, <2>18 DEF Initialize, Callers
  <2>19. ASSUME NEW c \in Clients, Begin(c) PROVE TypeOK'
    BY <2>2, <2>3, <2>4, <2>5, <2>6, <2>19 DEF Begin, Callers
  <2>20. ASSUME NEW c \in Callers, Continue(c) PROVE TypeOK'
    BY <2>7, <2>8, <2>9, <2>10, <2>11, <2>12, <2>13, <2>14, <2>15, <2>20 DEF Continue
  <2>21. CASE UNCHANGED vars
    BY <2>21 DEF vars, TypeOK
  <2> QED BY <2>1, <2>16, <2>17, <2>18, <2>19, <2>20, <2>21 DEF Next, BootStep
<1> QED BY <1>1, <1>2, PTL DEF Spec

-----------------------------------------------------------------------------
(***************************************************************************)
(* A registration the server has is never replaced, only lost in a         *)
(* restart: names are taken when they are free, and never given back.      *)
(***************************************************************************)

LEMMA RegisterKeeps ==
  ASSUME TypeOK, NEW p \in Plugins, NEW R \in SUBSET Free(p), Register(p, R),
         NEW t \in Tools, serves[t] # None
  PROVE  serves'[t] = serves[t]
  BY DEF Register, Free, TypeOK

\* activeRegistrations never claims names the server has not, or has from
\* another plugin.
THEOREM RegisteredIsServedHolds == Spec => []RegisteredIsServed
<1>1. Init => RegisteredIsServed
  BY DEF Init, RegisteredIsServed
<1>2. TypeOK /\ RegisteredIsServed /\ [Next]_vars => RegisteredIsServed'
  <2> SUFFICES ASSUME TypeOK, RegisteredIsServed, [Next]_vars PROVE RegisteredIsServed'
    OBVIOUS
  <2> USE PluginAssumption
  <2>0. \A p \in captured : \A t \in ToolsOf[p] : t \in Tools /\ serves[t] = p /\ serves[t] # None
    BY DEF TypeOK, RegisteredIsServed
  <2>1. ASSUME captured' \subseteq captured, UNCHANGED serves PROVE RegisteredIsServed'
    BY <2>1 DEF RegisteredIsServed
  <2>2. CASE Restart
    BY <2>2 DEF Restart, RegisteredIsServed
  <2>3. ASSUME NEW c \in Callers, NEW p \in Plugins, Activate(c, p) PROVE RegisteredIsServed'
    BY <2>1, <2>3 DEF Activate
  <2>4. ASSUME NEW c \in Clients, Begin(c) PROVE RegisteredIsServed'
    <3>1. c \in Callers
      BY DEF Callers
    <3> QED BY <2>1, <2>3, <2>4, <3>1 DEF Begin, Deactivate, Uninstall, Unregistered, Install, Update
  <2>5. CASE BootStep
    <3>1. Boot \in Callers
      BY DEF Callers
    <3> QED BY <2>1, <2>3, <2>5, <3>1 DEF BootStep, Initialize, Bootstrap, InitializeDone, BootstrapDone
  <2>6. ASSUME NEW c \in Callers, LoadCollides(c) PROVE RegisteredIsServed'
    <3>1. plugin[c] \in Plugins /\ captured' = captured
      BY <2>6 DEF LoadCollides, TypeOK
    <3>2. PICK R \in SUBSET Free(plugin[c]) : Register(plugin[c], R)
      BY <2>6 DEF LoadCollides
    <3> QED BY <2>0, <3>1, <3>2, RegisterKeeps DEF RegisteredIsServed
  <2>7. ASSUME NEW c \in Callers, LoadSucceeds(c) PROVE RegisteredIsServed'
    <3>1. plugin[c] \in Plugins /\ at[c] # "idle"
      BY <2>7 DEF LoadSucceeds, TypeOK
    <3>2. captured' \subseteq captured \union {plugin[c]}
      BY <2>7, <3>1, ActivatedType DEF LoadSucceeds
    <3>3. Register(plugin[c], ToolsOf[plugin[c]]) /\ ToolsOf[plugin[c]] \in SUBSET Free(plugin[c])
      BY <2>7 DEF LoadSucceeds
    <3>4. \A t \in ToolsOf[plugin[c]] : serves'[t] = plugin[c]
      BY <3>1, <3>3 DEF Register
    <3> QED BY <2>0, <3>1, <3>2, <3>3, <3>4, RegisterKeeps DEF RegisteredIsServed
  <2>8. ASSUME NEW c \in Callers, Copied(c) PROVE RegisteredIsServed'
    <3>1. serves' = serves
      BY <2>8 DEF Copied
    <3>2. CASE c \in auto /\ IsLoaded(plugin[c])
      <4>1. captured' \subseteq captured \union {plugin[c]}
        BY <2>8, <3>2, ActivatedType DEF Copied
      <4> QED BY <2>1, <3>1, <3>2, <4>1 DEF IsLoaded
    <3>3. CASE ~(c \in auto /\ IsLoaded(plugin[c]))
      BY <2>1, <2>8, <3>1, <3>3 DEF Copied
    <3> QED BY <3>2, <3>3
  <2>9. ASSUME NEW c \in Callers, Continue(c) PROVE RegisteredIsServed'
    BY <2>1, <2>6, <2>7, <2>8, <2>9
       DEF Continue, LoadFails, InstallRefused, InstallChecked, Insert, InsertCollides, CopyFails
  <2>10. CASE UNCHANGED vars
    BY <2>1, <2>10 DEF vars
  <2> QED BY <2>2, <2>4, <2>5, <2>9, <2>10 DEF Next
<1> QED BY <1>1, <1>2, TypeCorrect, PTL DEF Spec

-----------------------------------------------------------------------------
\* What has no row has neither active capabilities nor an extraction record,
\* whatever was under way when it was uninstalled.
THEOREM NoOrphansHolds == Spec => []NoOrphans
<1>1. Init => NoOrphans
  BY DEF Init, NoOrphans
<1>2. TypeOK /\ NoOrphans /\ [Next]_vars => NoOrphans'
  <2> SUFFICES ASSUME TypeOK, NoOrphans, [Next]_vars PROVE NoOrphans'
    OBVIOUS
  <2>1. ASSUME UNCHANGED <<row, capable, extracted>> PROVE NoOrphans'
    BY <2>1 DEF NoOrphans
  <2>2. ASSUME NEW c \in Callers, NEW p \in Plugins, Activate(c, p) PROVE NoOrphans'
    BY <2>2 DEF Activate, WithCapabilities, NoOrphans
  <2>3. ASSUME NEW c \in Clients, NEW p \in Plugins, Deactivate(c, p) PROVE NoOrphans'
    BY <2>3 DEF Deactivate, SetState, NoOrphans, TypeOK
  <2>4. ASSUME NEW c \in Clients, NEW p \in Plugins, Uninstall(c, p) PROVE NoOrphans'
    BY <2>4 DEF Uninstall, SetState, DeleteRow, NoOrphans, TypeOK
  <2>5. ASSUME NEW c \in Clients, NEW n \in Names, NEW p \in Plugins, Update(c, n, p)
        PROVE NoOrphans'
    <3>1. PICK q \in Newest(n) : SetState(q, "updating")
      BY <2>5 DEF Update
    <3>2. q \in Plugins /\ row[q] # "none"
      BY DEF Newest, ByName
    <3> QED BY <2>5, <3>1, <3>2 DEF Update, SetState, NoOrphans, TypeOK
  <2>6. ASSUME NEW c \in Clients, Begin(c) PROVE NoOrphans'
    <3>1. c \in Callers
      BY DEF Callers
    <3> QED BY <2>1, <2>2, <2>3, <2>4, <2>5, <2>6, <3>1 DEF Begin, Install
  <2>7. CASE BootStep
    <3>1. Boot \in Callers
      BY DEF Callers
    <3> QED BY <2>1, <2>2, <2>7, <3>1 DEF BootStep, Initialize, Bootstrap, InitializeDone, BootstrapDone
  <2>8. ASSUME NEW c \in Callers, LoadSucceeds(c) PROVE NoOrphans'
    BY <2>8, ActivatedType DEF LoadSucceeds, NoOrphans
  <2>9. ASSUME NEW c \in Callers, Copied(c) PROVE NoOrphans'
    <3>1. plugin[c] \in Plugins /\ row[plugin[c]] # "none" /\ extracted' = extracted \union {plugin[c]}
      BY <2>9 DEF Copied, TypeOK
    <3>2. CASE c \in auto /\ IsLoaded(plugin[c])
      BY <2>9, <3>1, <3>2, ActivatedType DEF Copied, NoOrphans
    <3>3. CASE ~(c \in auto /\ IsLoaded(plugin[c]))
      BY <2>9, <3>1, <3>3 DEF Copied, NoOrphans
    <3> QED BY <3>2, <3>3
  <2>10. ASSUME NEW c \in Callers, Insert(c) PROVE NoOrphans'
    BY <2>10 DEF Insert, NoOrphans, TypeOK
  <2>11. ASSUME NEW c \in Callers, Continue(c) PROVE NoOrphans'
    BY <2>1, <2>8, <2>9, <2>10, <2>11
       DEF Continue, LoadFails, LoadCollides, InstallRefused, InstallChecked, InsertCollides, CopyFails
  <2>12. CASE UNCHANGED vars
    BY <2>1, <2>12 DEF vars
  <2>13. CASE Restart
    BY <2>13, RestartRows DEF Restart, NoOrphans
  <2> QED BY <2>6, <2>7, <2>11, <2>12, <2>13 DEF Next
<1> QED BY <1>1, <1>2, TypeCorrect, PTL DEF Spec

-----------------------------------------------------------------------------
(***************************************************************************)
(* The start runs alone.  Until it is over no client is served, so what    *)
(* its own call is about tells which rows the call may still write.        *)
(***************************************************************************)

StartAlone ==
  /\ \A c \in Clients : at[c] = "idle"
  /\ previous[Boot] = None

\* initialize() visits active plugins, which activate() leaves as they are;
\* bootstrapBuiltinPlugins() visits built-in ones; a failed start does nothing.
StartVisits ==
  /\ stage = "initialize" =>
       /\ \A p \in todo : row[p] = "active"
       /\ at[Boot] # "idle" => /\ at[Boot] = "load" /\ Boot \in sawActive
                               /\ row[plugin[Boot]] = "active"
  /\ stage = "bootstrap" =>
       todo \subseteq Builtin /\ (at[Boot] # "idle" => plugin[Boot] \in Builtin)
  /\ stage = "failed" => at[Boot] = "idle"

StartInv == stage # "ready" => StartAlone /\ StartVisits

KeepsOthers == \A p \in Plugins \ Builtin : row'[p] = row[p]

\* Restarting gives the start the active rows to visit.
LEMMA RestartStartsAlone ==
  ASSUME Restart PROVE StartInv'
  BY DEF Restart, StartInv, StartAlone, StartVisits, NoCalls, NoArgs, StartList, Callers

\* Once clients are served only a restart ends that.
LEMMA ReadyStays ==
  ASSUME stage = "ready", Next, ~Restart PROVE stage' = "ready"
  <1>1. ASSUME NEW c \in Clients, Begin(c) PROVE stage' = "ready"
    BY <1>1 DEF Begin, MayCall, Activate, Deactivate, Uninstall, Install, Update, BootFails
  <1>2. ASSUME NEW c \in Callers, Continue(c) PROVE stage' = "ready"
    BY <1>2 DEF Continue, LoadFails, LoadCollides, LoadSucceeds, InstallRefused, InstallChecked,
                Insert, InsertCollides, Copied, CopyFails, Throw, BootFails
  <1>3. ASSUME BootStep PROVE FALSE
    BY <1>3 DEF BootStep, BootIdle, Initialize, Bootstrap, InitializeDone, BootstrapDone
  <1> QED BY <1>1, <1>2, <1>3 DEF Next

\* Before that no client acts.
LEMMA OnlyTheStartActs ==
  ASSUME stage # "ready", StartAlone, Next, ~Restart PROVE BootStep \/ Continue(Boot)
  <1>1. ASSUME NEW c \in Clients PROVE ~Begin(c)
    BY DEF Begin, MayCall, Deactivate, Uninstall, Install, Update
  <1>2. ASSUME NEW c \in Clients PROVE ~Continue(c)
    BY DEF StartAlone, Continue, LoadFails, LoadCollides, LoadSucceeds, InstallRefused,
           InstallChecked, Insert, InsertCollides, Copied, CopyFails
  <1> QED BY <1>1, <1>2 DEF Next, Callers

\* A call of the start that ends leaves the other rows as it found them.
LEMMA StartCallEnds ==
  ASSUME TypeOK, StartInv, stage # "ready", at[Boot] # "idle", Return(Boot),
         \A p \in Plugins : row'[p] # row[p] => p \in Builtin /\ stage = "bootstrap",
         \/ stage' = stage
         \/ stage' = "failed",
         todo' \in SUBSET todo
  PROVE  StartInv' /\ KeepsOthers
  <1> USE PluginAssumption
  <1>1. Boot \in Callers
    BY DEF Callers
  <1>2. \A c \in Callers : at'[c] = IF c = Boot THEN "idle" ELSE at[c]
    BY <1>1 DEF Return, Call, TypeOK
  <1>3. StartAlone'
    BY <1>1, <1>2 DEF StartInv, StartAlone, Callers, Return, Call, TypeOK
  <1>4. StartVisits'
    BY <1>1, <1>2 DEF StartInv, StartVisits, TypeOK
  <1> QED BY <1>3, <1>4 DEF StartInv, KeepsOthers

\* So does one that begins.
LEMMA StartCallLoads ==
  ASSUME TypeOK, StartInv, stage \in {"initialize", "bootstrap"}, at[Boot] # "load",
         NEW p \in Plugins, BeginLoad(Boot, p, None),
         stage = "initialize" => row[p] = "active",
         stage = "bootstrap" => p \in Builtin,
         UNCHANGED <<row, stage, todo>>
  PROVE  StartInv' /\ KeepsOthers
  <1> USE PluginAssumption
  <1>1. Boot \in Callers
    BY DEF Callers
  <1>2. \A c \in Callers : at'[c] = IF c = Boot THEN "load" ELSE at[c]
    BY <1>1 DEF BeginLoad, Call, TypeOK
  <1>3. StartAlone'
    BY <1>1, <1>2 DEF StartInv, StartAlone, Callers, BeginLoad, Call, TypeOK
  <1>4. plugin'[Boot] = p
    BY <1>1 DEF BeginLoad, Call, TypeOK
  <1>5. StartVisits'
    BY <1>1, <1>2, <1>4 DEF StartInv, StartVisits, BeginLoad
  <1> QED BY <1>3, <1>5 DEF StartInv, KeepsOthers

\* One plugin of the start's loop, as far as its call goes at once.
LEMMA StartActivates ==
  ASSUME TypeOK, StartInv, stage \in {"initialize", "bootstrap"}, at[Boot] = "idle",
         NEW p \in Plugins, Activate(Boot, p),
         stage = "initialize" => row[p] = "active",
         stage = "bootstrap" => p \in Builtin
  PROVE  StartInv' /\ KeepsOthers
  <1>1. CASE ~IsLoaded(p) /\ HasRoot(p)
    <2>1. BeginLoad(Boot, p, None) /\ UNCHANGED <<row, stage, todo>>
      BY <1>1 DEF Activate
    <2> QED BY <2>1, StartCallLoads
  <1>2. CASE IsLoaded(p) \/ ~HasRoot(p)
    <2>1. /\ UNCHANGED <<row, at, plugin, previous, sawActive>>
          /\ todo' \in SUBSET todo
          /\ stage' \in {stage, "failed"}
      BY <1>2 DEF Activate, Visited, IsLoaded
    <2> QED BY <2>1 DEF StartInv, StartAlone, StartVisits, KeepsOthers
  <1> QED BY <1>1, <1>2

\* The registrations are made: the row of a plugin that was active stays.
LEMMA StartActivated ==
  ASSUME TypeOK, StartInv, stage # "ready", at[Boot] # "idle", NEW seen,
         Activated(Boot, seen), stage' = stage,
         stage = "initialize" => seen
  PROVE  StartInv' /\ KeepsOthers
  <1> USE PluginAssumption
  <1>1. previous[Boot] = None /\ plugin[Boot] \in Plugins
    BY DEF StartInv, StartAlone, TypeOK, Callers
  <1>2. Return(Boot) /\ todo' \in SUBSET todo
    BY DEF Activated, Visited
  <1>3. row' = IF row[plugin[Boot]] = "none" \/ seen THEN row
               ELSE [row EXCEPT ![plugin[Boot]] = "active"]
    BY <1>1 DEF Activated, ActiveRow
  <1>4. \A p \in Plugins : row'[p] # row[p] => p \in Builtin /\ stage = "bootstrap"
    BY <1>1, <1>3 DEF StartInv, StartVisits, TypeOK
  <1> QED BY <1>2, <1>4, StartCallEnds

LEMMA StartStep ==
  ASSUME TypeOK, StartInv, stage # "ready", [Next]_vars, ~Restart
  PROVE  StartInv' /\ KeepsOthers
<1> USE PluginAssumption
<1>0. Boot \in Callers /\ (at[Boot] # "idle" => plugin[Boot] \in Plugins)
  BY DEF Callers, TypeOK
<1>1. ASSUME NEW p \in Plugins, Initialize(p) PROVE StartInv' /\ KeepsOthers
  <2>1. row[p] = "active" /\ stage = "initialize" /\ at[Boot] = "idle" /\ Activate(Boot, p)
    BY <1>1 DEF Initialize, BootIdle, StartInv, StartVisits
  <2> QED BY <2>1, StartActivates
<1>2. ASSUME NEW p \in Plugins, Bootstrap(p) PROVE StartInv' /\ KeepsOthers
  <2>1. p \in Builtin /\ stage = "bootstrap" /\ at[Boot] = "idle"
    BY <1>2 DEF Bootstrap, BootIdle, StartInv, StartVisits
  <2>2. CASE row[p] = "none"
    <3>1. /\ Call(Boot, "artifact", p, None)
          /\ UNCHANGED <<row, stage, todo>>
      BY <1>2, <2>2 DEF Bootstrap
    <3>2. \A c \in Callers : at'[c] = IF c = Boot THEN "artifact" ELSE at[c]
      BY <1>0, <3>1 DEF Call, TypeOK
    <3>3. plugin'[Boot] = p /\ previous'[Boot] = None
      BY <1>0, <3>1 DEF Call, TypeOK
    <3> QED BY <1>0, <2>1, <3>1, <3>2, <3>3
            DEF StartInv, StartAlone, StartVisits, KeepsOthers, Callers
  <2>3. CASE row[p] # "none" /\ NeedsActivation(row[p])
    BY <1>2, <2>1, <2>3, StartActivates DEF Bootstrap
  <2>4. CASE row[p] # "none" /\ ~NeedsActivation(row[p])
    <3>1. /\ UNCHANGED <<row, at, plugin, previous, sawActive, stage>>
          /\ todo' \in SUBSET todo
      BY <1>2, <2>4 DEF Bootstrap, Visited
    <3> QED BY <3>1 DEF StartInv, StartAlone, StartVisits, KeepsOthers
  <2> QED BY <2>2, <2>3, <2>4
<1>3. CASE InitializeDone
  BY <1>3 DEF InitializeDone, BootIdle, StartInv, StartAlone, StartVisits, KeepsOthers
<1>4. CASE BootstrapDone
  BY <1>4 DEF BootstrapDone, StartInv, KeepsOthers
<1>5. CASE LoadFails(Boot) \/ LoadCollides(Boot)
  <2>1. /\ at[Boot] = "load" /\ Throw(Boot) /\ UNCHANGED row
    BY <1>5 DEF LoadFails, LoadCollides
  <2>2. Return(Boot) /\ todo' \in SUBSET todo /\ (stage' = stage \/ stage' = "failed")
    BY <2>1 DEF Throw, Visited
  <2> QED BY <2>1, <2>2, StartCallEnds
<1>6. CASE InstallRefused(Boot) \/ InsertCollides(Boot) \/ CopyFails(Boot)
  <2>1. /\ at[Boot] \in {"artifact", "mkdir", "copy"} /\ Throw(Boot)
        /\ UNCHANGED row
    BY <1>6 DEF InstallRefused, InsertCollides, CopyFails
  <2>2. Return(Boot) /\ todo' \in SUBSET todo /\ (stage' = stage \/ stage' = "failed")
    BY <2>1 DEF Throw, Visited
  <2> QED BY <2>1, <2>2, StartCallEnds
<1>7. CASE LoadSucceeds(Boot)
  <2>1. /\ at[Boot] = "load" /\ Activated(Boot, Boot \in sawActive)
        /\ stage' = stage
    BY <1>7 DEF LoadSucceeds
  <2>2. stage = "initialize" => Boot \in sawActive
    BY <2>1 DEF StartInv, StartVisits
  <2> QED BY <2>1, <2>2, StartActivated
<1>8. CASE InstallChecked(Boot) \/ Insert(Boot)
  <2>1. /\ at[Boot] \in {"artifact", "mkdir"}
        /\ at' = [at EXCEPT ![Boot] = IF InstallChecked(Boot) THEN "mkdir" ELSE "copy"]
        /\ UNCHANGED <<plugin, previous, sawActive, stage, todo>>
        /\ \A p \in Plugins : row'[p] # row[p] => p = plugin[Boot]
    BY <1>0, <1>8 DEF InstallChecked, Insert, TypeOK
  <2>2. at'[Boot] \in {"mkdir", "copy"} /\ \A c \in Clients : at'[c] = at[c]
    BY <1>0, <2>1 DEF TypeOK, Callers
  <2>3. stage = "bootstrap" /\ plugin[Boot] \in Builtin
    BY <1>0, <2>1 DEF StartInv, StartVisits, TypeOK
  <2> QED BY <2>1, <2>2, <2>3 DEF StartInv, StartAlone, StartVisits, KeepsOthers
<1>9. CASE Copied(Boot)
  <2>1. at[Boot] = "copy" /\ UNCHANGED stage
    BY <1>9 DEF Copied
  <2>2. stage = "bootstrap" /\ plugin[Boot] \in Builtin /\ previous[Boot] = None
    BY <1>0, <2>1 DEF StartInv, StartAlone, StartVisits, TypeOK
  <2>3. CASE Boot \notin auto
    <3>1. Return(Boot) /\ UNCHANGED <<row, todo>>
      BY <1>9, <2>3 DEF Copied
    <3> QED BY <2>1, <2>2, <3>1, StartCallEnds
  <2>4. CASE Boot \in auto /\ ~IsLoaded(plugin[Boot])
    <3>1. BeginLoad(Boot, plugin[Boot], None) /\ UNCHANGED <<row, todo>>
      BY <1>9, <2>2, <2>4 DEF Copied
    <3> QED BY <1>0, <2>1, <2>2, <3>1, StartCallLoads
  <2>5. CASE Boot \in auto /\ IsLoaded(plugin[Boot])
    <3>1. Activated(Boot, TRUE)
      BY <1>9, <2>5 DEF Copied
    <3> QED BY <2>1, <3>1, StartActivated
  <2> QED BY <2>3, <2>4, <2>5
<1>10. CASE UNCHANGED vars
  BY <1>10 DEF vars, StartInv, StartAlone, StartVisits, KeepsOthers
<1>11. BootStep \/ Continue(Boot) \/ UNCHANGED vars
  BY OnlyTheStartActs DEF StartInv
<1> QED BY <1>1, <1>2, <1>3, <1>4, <1>5, <1>6, <1>7, <1>8, <1>9, <1>10, <1>11
        DEF BootStep, Continue

LEMMA StartInvStep ==
  ASSUME TypeOK, StartInv, [Next]_vars PROVE StartInv'
  <1>1. CASE Restart
    BY <1>1, RestartStartsAlone
  <1>2. CASE ~Restart /\ stage # "ready"
    BY <1>2, StartStep
  <1>3. CASE ~Restart /\ stage = "ready"
    <2>1. stage' = "ready"
      BY <1>3, ReadyStays DEF vars
    <2> QED BY <2>1 DEF StartInv
  <1> QED BY <1>1, <1>2, <1>3

\* A start leaves the state of every plugin that is not built in as it found it.
THEOREM StartKeepsChoicesHolds == Spec => StartKeepsChoices
<1>1. Init => StartInv
  BY DEF Init, StartInv, StartAlone, StartVisits, NoCalls, NoArgs, Callers
<1>2. TypeOK /\ StartInv /\ [Next]_vars
        => [stage # "ready" => \A p \in Plugins \ Builtin : row'[p] = row[p]]_vars
  <2> SUFFICES ASSUME TypeOK, StartInv, [Next]_vars, stage # "ready"
               PROVE  \A p \in Plugins \ Builtin : row'[p] = row[p]
    OBVIOUS
  <2>1. CASE Restart
    <3>1. ~UninstallCut /\ ~UpdateCut
      BY DEF StartInv, StartAlone, UninstallCut, UpdateCut, MayCall
    <3> QED BY <2>1, <3>1 DEF Restart
  <2>2. CASE ~Restart
    BY <2>2, StartStep DEF KeepsOthers
  <2> QED BY <2>1, <2>2
<1> QED BY <1>1, <1>2, StartInvStep, TypeCorrect, PTL DEF Spec, StartKeepsChoices

-----------------------------------------------------------------------------
(***************************************************************************)
(* Module._load.  Until two loads overlap there is one at most, and what   *)
(* it saved is the unguarded loader.                                       *)
(***************************************************************************)

GuardInv ==
  ~overlapped => /\ \A c, d \in Loading : c = d
                 /\ \A c \in Loading : originalLoad[c] = {}
                 /\ GuardMatchesLoad

\* A step that begins or ends no load.
LEMMA OtherCallKeepsGuard ==
  ASSUME TypeOK, GuardInv, NEW c \in Callers, UNCHANGED guardVars, at[c] # "load", at'[c] # "load",
         \A d \in Callers : d # c => at'[d] = at[d] /\ plugin'[d] = plugin[d]
  PROVE  GuardInv'
  <1>1. Loading' = Loading /\ \A d \in Loading : plugin'[d] = plugin[d]
    BY DEF Loading
  <1> QED BY <1>1 DEF GuardInv, GuardMatchesLoad

LEMMA ReturnKeepsGuard ==
  ASSUME TypeOK, GuardInv, NEW c \in Callers, UNCHANGED guardVars, at[c] # "load", Return(c)
  PROVE  GuardInv'
  <1>1. at'[c] # "load" /\ \A d \in Callers : d # c => at'[d] = at[d] /\ plugin'[d] = plugin[d]
    BY DEF Return, Call, TypeOK
  <1> QED BY <1>1, OtherCallKeepsGuard

LEMMA BeginKeepsGuard ==
  ASSUME TypeOK, GuardInv, NEW c \in Callers, at[c] # "load",
         NEW p \in Plugins, NEW q, BeginLoad(c, p, q)
  PROVE  GuardInv'
  <1>1. Loading' = Loading \union {c} /\ plugin'[c] = p
    BY DEF Loading, BeginLoad, Call, TypeOK
  <1>2. overlapped' = (overlapped \/ Loading # {}) /\ originalLoad'[c] = loader
        /\ loader' = loader \union {p}
    BY DEF BeginLoad, InstallGuard, TypeOK
  <1>3. CASE overlapped \/ Loading # {}
    BY <1>2, <1>3 DEF GuardInv
  <1>4. CASE ~overlapped /\ Loading = {}
    <2>1. loader = {}
      BY <1>4 DEF GuardInv, GuardMatchesLoad
    <2>2. Loading' = {c} /\ originalLoad'[c] = {} /\ loader' = {p}
      BY <1>1, <1>2, <1>4, <2>1
    <2> QED BY <1>1, <2>2 DEF GuardInv, GuardMatchesLoad
  <1> QED BY <1>3, <1>4

LEMMA EndKeepsGuard ==
  ASSUME TypeOK, GuardInv, NEW c \in Callers, at[c] = "load", RestoreLoad(c), Return(c)
  PROVE  GuardInv'
  <1>1. Loading' = Loading \ {c} /\ c \in Loading
    BY DEF Loading, Return, Call, TypeOK
  <1>2. overlapped' = overlapped /\ loader' = originalLoad[c]
    BY DEF RestoreLoad
  <1>3. CASE overlapped
    BY <1>2, <1>3 DEF GuardInv
  <1>4. CASE ~overlapped
    <2>1. Loading' = {} /\ loader' = {}
      BY <1>1, <1>2, <1>4 DEF GuardInv
    <2> QED BY <2>1 DEF GuardInv, GuardMatchesLoad
  <1> QED BY <1>3, <1>4

LEMMA ActivateKeepsGuard ==
  ASSUME TypeOK, GuardInv, NEW c \in Callers, at[c] # "load", NEW p \in Plugins, Activate(c, p)
  PROVE  GuardInv'
  <1>1. CASE ~IsLoaded(p) /\ HasRoot(p)
    BY <1>1, BeginKeepsGuard DEF Activate
  <1>2. CASE IsLoaded(p) \/ ~HasRoot(p)
    <2>1. UNCHANGED <<guardVars, callVars>>
      BY <1>2 DEF Activate
    <2> QED BY <2>1, OtherCallKeepsGuard
  <1> QED BY <1>1, <1>2

\* As long as loads do not overlap Module._load is guarded for the plugin that is
\* being created and for no other, whoever calls and however loads end.
THEOREM GuardMatchesLoadHolds == Spec => []GuardMatchesLoad
<1>1. Init => GuardInv
  BY DEF Init, GuardInv, GuardMatchesLoad, Loading, NoCalls
<1>2. TypeOK /\ GuardInv /\ [Next]_vars => GuardInv'
  <2> SUFFICES ASSUME TypeOK, GuardInv, [Next]_vars PROVE GuardInv'
    OBVIOUS
  <2> USE PluginAssumption
  <2>1. CASE Restart
    BY <2>1 DEF Restart, GuardInv, GuardMatchesLoad, Loading, NoCalls
  <2>2. CASE UNCHANGED vars
    BY <2>2 DEF vars, GuardInv, GuardMatchesLoad, Loading
  <2>3. ASSUME NEW c \in Clients, Begin(c) PROVE GuardInv'
    <3>1. c \in Callers
      BY DEF Callers
    <3>2. ASSUME NEW p \in Plugins, MayCall(c), Activate(c, p) PROVE GuardInv'
      BY <3>1, <3>2, ActivateKeepsGuard DEF MayCall
    <3>3. ASSUME NEW p \in Plugins, Deactivate(c, p) \/ Uninstall(c, p) PROVE GuardInv'
      BY <3>1, <3>3, OtherCallKeepsGuard DEF Deactivate, Uninstall, MayCall
    <3>4. ASSUME NEW p \in Plugins, NEW q, Call(c, "artifact", p, q), at[c] = "idle",
                 UNCHANGED guardVars
          PROVE  GuardInv'
      <4>1. at'[c] # "load" /\ \A d \in Callers : d # c => at'[d] = at[d] /\ plugin'[d] = plugin[d]
        BY <3>1, <3>4 DEF Call, TypeOK
      <4> QED BY <3>1, <3>4, <4>1, OtherCallKeepsGuard
    <3>5. ASSUME NEW p \in Plugins, Install(c, p) PROVE GuardInv'
      BY <3>4, <3>5 DEF Install, MayCall
    <3>6. ASSUME NEW n \in Names, NEW p \in Plugins, Update(c, n, p) PROVE GuardInv'
      BY <3>4, <3>6 DEF Update, MayCall
    <3> QED BY <2>3, <3>2, <3>3, <3>5, <3>6 DEF Begin
  <2>4. CASE BootStep
    <3>1. Boot \in Callers
      BY DEF Callers
    <3>2. CASE InitializeDone \/ BootstrapDone
      BY <3>1, <3>2, OtherCallKeepsGuard DEF InitializeDone, BootstrapDone, BootIdle
    <3>3. ASSUME NEW p \in Plugins, Initialize(p) PROVE GuardInv'
      BY <3>1, <3>3, ActivateKeepsGuard DEF Initialize, BootIdle
    <3>4. ASSUME NEW p \in Plugins, Bootstrap(p) PROVE GuardInv'
      <4>1. CASE row[p] = "none"
        <5>1. at'[Boot] # "load" /\ \A d \in Callers : d # Boot => at'[d] = at[d] /\ plugin'[d] = plugin[d]
          BY <3>1, <3>4, <4>1 DEF Bootstrap, Call, TypeOK
        <5> QED BY <3>1, <3>4, <4>1, <5>1, OtherCallKeepsGuard DEF Bootstrap, BootIdle
      <4>2. CASE row[p] # "none" /\ NeedsActivation(row[p])
        BY <3>1, <3>4, <4>2, ActivateKeepsGuard DEF Bootstrap, BootIdle
      <4>3. CASE row[p] # "none" /\ ~NeedsActivation(row[p])
        BY <3>1, <3>4, <4>3, OtherCallKeepsGuard DEF Bootstrap, BootIdle
      <4> QED BY <4>1, <4>2, <4>3
    <3> QED BY <2>4, <3>2, <3>3, <3>4 DEF BootStep
  <2>5. ASSUME NEW c \in Callers, Continue(c) PROVE GuardInv'
    <3>1. ASSUME LoadFails(c) \/ LoadCollides(c) \/ LoadSucceeds(c) PROVE GuardInv'
      BY <3>1, EndKeepsGuard DEF LoadFails, LoadCollides, LoadSucceeds, Throw, Activated
    <3>2. ASSUME InstallRefused(c) \/ InsertCollides(c) \/ CopyFails(c) PROVE GuardInv'
      BY <3>2, ReturnKeepsGuard DEF InstallRefused, InsertCollides, CopyFails, Throw
    <3>3. ASSUME InstallChecked(c) \/ Insert(c) PROVE GuardInv'
      <4>1. at'[c] # "load" /\ \A d \in Callers : d # c => at'[d] = at[d] /\ plugin'[d] = plugin[d]
        BY <3>3 DEF InstallChecked, Insert, TypeOK
      <4> QED BY <3>3, <4>1, OtherCallKeepsGuard DEF InstallChecked, Insert
    <3>4. ASSUME Copied(c) PROVE GuardInv'
      <4>1. plugin[c] \in Plugins /\ at[c] = "copy"
        BY <3>4 DEF Copied, TypeOK
      <4>2. CASE c \in auto /\ ~IsLoaded(plugin[c])
        BY <3>4, <4>1, <4>2, BeginKeepsGuard DEF Copied
      <4>3. CASE ~(c \in auto /\ ~IsLoaded(plugin[c]))
        BY <3>4, <4>1, <4>3, ReturnKeepsGuard DEF Copied, Activated
      <4> QED BY <4>2, <4>3
    <3> QED BY <2>5, <3>1, <3>2, <3>3, <3>4 DEF Continue
  <2> QED BY <2>1, <2>2, <2>3, <2>4, <2>5 DEF Next
<1>3. GuardInv => GuardMatchesLoad
  BY DEF GuardInv, GuardMatchesLoad
<1> QED BY <1>1, <1>2, <1>3, TypeCorrect, PTL DEF Spec

-----------------------------------------------------------------------------
(***************************************************************************)
(* What a call that waits for a load may rely on, unless another call is   *)
(* about the same plugin: its row is there, and still active if it was     *)
(* when it began.                                                          *)
(***************************************************************************)

\* The steps of one caller, the start being one of them.
StepOf(c) ==
  \/ c \in Clients /\ Begin(c)
  \/ c = Boot /\ BootStep
  \/ Continue(c)

LoadsRow(c) ==
  at[c] = "load" => /\ row[plugin[c]] # "none"
                    /\ c \in sawActive => row[plugin[c]] = "active"

\* What a step of c leaves alone: the calls of others, and what was ever shared.
OthersStay(c) ==
  /\ \A d \in Callers \ {c} : /\ at'[d] = at[d] /\ plugin'[d] = plugin[d]
                              /\ previous'[d] = previous[d]
                              /\ d \in sawActive' <=> d \in sawActive
  /\ shared \subseteq shared'

\* What its own call is about afterwards: the same, nothing, or what About() saw.
OwnCall(c) ==
  \/ plugin'[c] = plugin[c] /\ previous'[c] = previous[c]
  \/ About(c, {plugin'[c], previous'[c]})

LEMMA CallArgs ==
  ASSUME TypeOK, NEW c \in Callers, NEW await, NEW p, NEW q, Call(c, await, p, q),
         \A d \in Callers \ {c} : d \in sawActive' <=> d \in sawActive
  PROVE  OthersStay(c) /\ OwnCall(c)
<1>1. plugin'[c] = p /\ previous'[c] = q /\ About(c, {p, q})
  BY DEF Call, TypeOK
<1>2. shared \subseteq shared'
  BY <1>1 DEF About
<1>3. \A d \in Callers \ {c} : at'[d] = at[d] /\ plugin'[d] = plugin[d] /\ previous'[d] = previous[d]
  BY DEF Call, TypeOK
<1> QED BY <1>1, <1>2, <1>3 DEF OthersStay, OwnCall

LEMMA SameArgs ==
  ASSUME NEW c \in Callers, UNCHANGED argVars, shared \subseteq shared'
  PROVE  OthersStay(c) /\ OwnCall(c)
BY DEF OthersStay, OwnCall

LEMMA ReturnArgs ==
  ASSUME TypeOK, NEW c \in Callers, Return(c)
  PROVE  OthersStay(c) /\ OwnCall(c)
<1>1. Call(c, "idle", None, None) /\ \A d \in Callers \ {c} : d \in sawActive' <=> d \in sawActive
  BY DEF Return
<1> QED BY <1>1, CallArgs

LEMMA BeginLoadArgs ==
  ASSUME TypeOK, NEW c \in Callers, NEW p, NEW q, BeginLoad(c, p, q)
  PROVE  OthersStay(c) /\ OwnCall(c)
<1>1. Call(c, "load", p, q) /\ \A d \in Callers \ {c} : d \in sawActive' <=> d \in sawActive
  BY DEF BeginLoad
<1> QED BY <1>1, CallArgs

LEMMA ActivateArgs ==
  ASSUME TypeOK, NEW c \in Callers, NEW p \in Plugins, Activate(c, p)
  PROVE  OthersStay(c) /\ OwnCall(c)
<1>1. UNCHANGED <<argVars, shared>> \/ BeginLoad(c, p, None)
  BY DEF Activate
<1>2. UNCHANGED <<argVars, shared>> => OthersStay(c) /\ OwnCall(c)
  <2> SUFFICES ASSUME UNCHANGED <<argVars, shared>> PROVE OthersStay(c) /\ OwnCall(c)
    OBVIOUS
  <2>1. UNCHANGED argVars /\ shared \subseteq shared'
    OBVIOUS
  <2> QED BY <2>1, SameArgs
<1> QED BY <1>1, <1>2, BeginLoadArgs

LEMMA ArgsStep ==
  ASSUME TypeOK, NEW c \in Callers, StepOf(c)
  PROVE  OthersStay(c) /\ OwnCall(c)
<1>1. ASSUME UNCHANGED <<argVars, shared>> PROVE OthersStay(c) /\ OwnCall(c)
  <2>1. UNCHANGED argVars /\ shared \subseteq shared'
    BY <1>1
  <2> QED BY <2>1, SameArgs
<1>2. ASSUME NEW p, Call(c, "artifact", p, None), UNCHANGED sawActive PROVE OthersStay(c) /\ OwnCall(c)
  BY <1>2, CallArgs
<1>3. ASSUME c \in Clients, Begin(c) PROVE OthersStay(c) /\ OwnCall(c)
  <2>1. ASSUME NEW p \in Plugins, Deactivate(c, p) \/ Uninstall(c, p) PROVE OthersStay(c) /\ OwnCall(c)
    <3>1. UNCHANGED argVars /\ shared \subseteq shared'
      BY <2>1 DEF Deactivate, Uninstall, About
    <3> QED BY <3>1, SameArgs
  <2>2. ASSUME NEW p \in Plugins, Install(c, p) PROVE OthersStay(c) /\ OwnCall(c)
    BY <1>2, <2>2 DEF Install
  <2>3. ASSUME NEW n \in Names, NEW p \in Plugins, Update(c, n, p) PROVE OthersStay(c) /\ OwnCall(c)
    <3>1. PICK q \in Newest(n) : Call(c, "artifact", p, q)
      BY <2>3 DEF Update
    <3>2. UNCHANGED sawActive
      BY <2>3 DEF Update
    <3> QED BY <3>1, <3>2, CallArgs
  <2> QED BY <1>3, <2>1, <2>2, <2>3, ActivateArgs DEF Begin
<1>4. ASSUME c = Boot, BootStep PROVE OthersStay(c) /\ OwnCall(c)
  <2>1. ASSUME NEW p \in Plugins, Initialize(p) PROVE OthersStay(c) /\ OwnCall(c)
    BY <1>4, <2>1, ActivateArgs DEF Initialize
  <2>2. ASSUME NEW p \in Plugins, Bootstrap(p) PROVE OthersStay(c) /\ OwnCall(c)
    <3>1. CASE row[p] = "none"
      BY <1>2, <1>4, <2>2, <3>1 DEF Bootstrap
    <3>2. CASE row[p] # "none" /\ NeedsActivation(row[p])
      BY <1>4, <2>2, <3>2, ActivateArgs DEF Bootstrap
    <3>3. CASE row[p] # "none" /\ ~NeedsActivation(row[p])
      BY <1>1, <2>2, <3>3 DEF Bootstrap
    <3> QED BY <3>1, <3>2, <3>3
  <2>3. CASE InitializeDone \/ BootstrapDone
    BY <1>1, <2>3 DEF InitializeDone, BootstrapDone
  <2> QED BY <1>4, <2>1, <2>2, <2>3 DEF BootStep
<1>5. CASE LoadFails(c) \/ LoadCollides(c) \/ LoadSucceeds(c) \/ InstallRefused(c)
           \/ InsertCollides(c) \/ CopyFails(c)
  <2>1. Return(c)
    BY <1>5 DEF LoadFails, LoadCollides, LoadSucceeds, InstallRefused, InsertCollides, CopyFails,
                Throw, Activated
  <2> QED BY <2>1, ReturnArgs
<1>6. CASE InstallChecked(c) \/ Insert(c)
  <2>1. UNCHANGED <<plugin, previous, sawActive, shared>> /\ \A d \in Callers \ {c} : at'[d] = at[d]
    BY <1>6 DEF InstallChecked, Insert, TypeOK
  <2> QED BY <2>1 DEF OthersStay, OwnCall
<1>7. CASE Copied(c)
  <2>1. Return(c) \/ BeginLoad(c, plugin[c], previous[c])
    BY <1>7 DEF Copied, Activated
  <2> QED BY <2>1, ReturnArgs, BeginLoadArgs
<1> QED BY <1>3, <1>4, <1>5, <1>6, <1>7 DEF StepOf, Continue

\* A load begins with the row there, and leaves it as it is.
Begins(c, p) ==
  /\ row[p] # "none" /\ row' = row
  /\ \E q \in Plugins \union {None} : BeginLoad(c, p, q)

LEMMA ActivateLoads ==
  ASSUME NEW c \in Callers, NEW p \in Plugins, Activate(c, p), at[c] # "load", at'[c] = "load"
  PROVE  Begins(c, p)
  BY DEF Activate, Begins

LEMMA LoadBegins ==
  ASSUME TypeOK, NEW c \in Callers, StepOf(c), at'[c] = "load"
  PROVE  \E p \in Plugins : Begins(c, p)
<1>1. ASSUME c \in Clients, Begin(c) PROVE \E p \in Plugins : Begins(c, p)
  <2>1. at[c] = "idle"
    BY <1>1 DEF Begin, MayCall, Deactivate, Uninstall, Install, Update
  <2>2. ASSUME NEW p \in Plugins, MayCall(c), Activate(c, p) PROVE Begins(c, p)
    BY <2>1, <2>2, ActivateLoads
  <2>3. ASSUME NEW p \in Plugins, Deactivate(c, p) \/ Uninstall(c, p) \/ Install(c, p) PROVE FALSE
    BY <2>1, <2>3 DEF Deactivate, Uninstall, Install, Call, TypeOK
  <2>4. ASSUME NEW n \in Names, NEW p \in Plugins, Update(c, n, p) PROVE FALSE
    BY <2>1, <2>4 DEF Update, Call, TypeOK
  <2> QED BY <1>1, <2>2, <2>3, <2>4 DEF Begin
<1>2. ASSUME c = Boot, BootStep PROVE \E p \in Plugins : Begins(c, p)
  <2>1. at[c] = "idle"
    BY <1>2 DEF BootStep, Initialize, InitializeDone, Bootstrap, BootstrapDone, BootIdle
  <2>2. ASSUME NEW p \in Plugins, Initialize(p) \/ Bootstrap(p) PROVE Begins(c, p)
    <3>1. Activate(c, p)
      BY <1>2, <2>1, <2>2 DEF Initialize, Bootstrap, Call, TypeOK
    <3> QED BY <2>1, <3>1, ActivateLoads
  <2>3. ~InitializeDone /\ ~BootstrapDone
    BY <2>1 DEF InitializeDone, BootstrapDone
  <2> QED BY <1>2, <2>2, <2>3 DEF BootStep
<1>3. ASSUME Continue(c) PROVE \E p \in Plugins : Begins(c, p)
  <2>1. Copied(c)
    BY <1>3 DEF Continue, LoadFails, LoadCollides, LoadSucceeds, InstallRefused, InstallChecked,
       Insert, InsertCollides, CopyFails, Activated, Throw, Return, Call, TypeOK
  <2>2. plugin[c] \in Plugins /\ row[plugin[c]] # "none" /\ previous[c] \in Plugins \union {None}
    BY <2>1 DEF Copied, TypeOK
  <2>3. ~Return(c)
    BY DEF Return, Call, TypeOK
  <2>4. BeginLoad(c, plugin[c], previous[c]) /\ row' = row
    BY <2>1, <2>3 DEF Copied, Activated
  <2> QED BY <2>2, <2>4 DEF Begins
<1> QED BY <1>1, <1>2, <1>3 DEF StepOf

LEMMA LoadsRowStep ==
  ASSUME TypeOK, NEW c \in Callers, StepOf(c)
  PROVE  LoadsRow(c)'
<1> SUFFICES ASSUME at'[c] = "load"
             PROVE  /\ row'[plugin'[c]] # "none"
                    /\ c \in sawActive' => row'[plugin'[c]] = "active"
  BY DEF LoadsRow
<1>1. PICK p \in Plugins : Begins(c, p)
  BY LoadBegins
<1>2. PICK q \in Plugins \union {None} : BeginLoad(c, p, q)
  BY <1>1 DEF Begins
<1>3. plugin'[c] = p /\ (c \in sawActive' => row[p] = "active")
  BY <1>2 DEF BeginLoad, Call, TypeOK
<1> QED BY <1>1, <1>3 DEF Begins

-----------------------------------------------------------------------------
(***************************************************************************)
(* Who may be about a plugin that is not shared: one call at most, so that *)
(* what activate() read of the row before it awaited the plugin still      *)
(* holds when it writes.                                                   *)
(***************************************************************************)

Handles(c, p) == p \in {plugin[c], previous[c]}

OneCallEach ==
  \A c, d \in Callers, p \in Plugins : c # d /\ Handles(c, p) /\ Handles(d, p) => p \in shared

CallsInv == OneCallEach /\ \A c \in Callers : plugin[c] \notin shared => LoadsRow(c)

LEMMA OneCallEachStep ==
  ASSUME TypeOK, OneCallEach, NEW c \in Callers, StepOf(c)
  PROVE  OneCallEach'
<1> USE PluginAssumption
<1>1. OthersStay(c) /\ OwnCall(c)
  BY ArgsStep
<1>2. ASSUME NEW d \in Callers \ {c}, NEW p \in Plugins, Handles(c, p)', Handles(d, p)'
      PROVE  p \in shared'
  <2>1. Handles(d, p)
    BY <1>1, <1>2 DEF Handles, OthersStay
  <2>2. CASE plugin'[c] = plugin[c] /\ previous'[c] = previous[c]
    BY <1>1, <1>2, <2>1, <2>2 DEF Handles, OneCallEach, OthersStay
  <2>3. CASE About(c, {plugin'[c], previous'[c]})
    BY <1>2, <2>1, <2>3 DEF Handles, About
  <2> QED BY <1>1, <2>2, <2>3 DEF OwnCall
<1>3. ASSUME NEW d \in Callers \ {c}, NEW e \in Callers \ {c}, NEW p \in Plugins, d # e,
             Handles(d, p)', Handles(e, p)'
      PROVE  p \in shared'
  BY <1>1, <1>3 DEF Handles, OthersStay, OneCallEach
<1> QED BY <1>2, <1>3 DEF OneCallEach

\* activate() once the registrations are made, and what update() does after it, write
\* the rows of their own call only.
LEMMA ActivatedRows ==
  ASSUME TypeOK, NEW c \in Callers, plugin[c] \in Plugins, NEW seen, Activated(c, seen),
         NEW x \in Plugins, row'[x] # row[x]
  PROVE  Handles(c, x)
<1> DEFINE row1 == ActiveRow(plugin[c], seen)
<1>1. row1 \in [Plugins -> States \union {"none"}] /\ (row1[x] # row[x] => x = plugin[c])
  BY DEF TypeOK, States, ActiveRow
<1>2. row' = row1 \/ row' = [row1 EXCEPT ![previous[c]] = "inactive"]
  BY DEF Activated
<1> HIDE DEF row1
<1> QED BY <1>1, <1>2 DEF Handles

\* The row of a plugin that another call is about changes only if that is noted.
LEMMA RowsOfOthers ==
  ASSUME TypeOK, OneCallEach, NEW c \in Callers, StepOf(c), NEW d \in Callers \ {c},
         NEW x \in Plugins, Handles(d, x), row'[x] # row[x]
  PROVE  x \in shared'
<1>0. OthersStay(c)
  BY ArgsStep
<1>1. ASSUME Handles(c, x) PROVE x \in shared'
  BY <1>0, <1>1 DEF OneCallEach, OthersStay
<1>2. ASSUME NEW P, About(c, P), x \in P PROVE x \in shared'
  BY <1>2, PluginAssumption DEF About, Handles
<1>3. ASSUME NEW e \in Callers, NEW p \in Plugins, Activate(e, p) PROVE FALSE
  BY <1>3 DEF Activate
<1>4. ASSUME c \in Clients, Begin(c) PROVE x \in shared'
  <2>1. ASSUME NEW p \in Plugins, Deactivate(c, p) \/ Uninstall(c, p) PROVE x \in shared'
    <3>1. x = p /\ About(c, {p})
      BY <2>1 DEF Deactivate, Uninstall, SetState, DeleteRow, TypeOK
    <3> QED BY <3>1, <1>2
  <2>2. ASSUME NEW p \in Plugins, Install(c, p) PROVE FALSE
    BY <2>2 DEF Install
  <2>3. ASSUME NEW n \in Names, NEW p \in Plugins, Update(c, n, p) PROVE x \in shared'
    <3>1. PICK q \in Newest(n) : SetState(q, "updating") /\ Call(c, "artifact", p, q)
      BY <2>3 DEF Update
    <3>2. x = q /\ About(c, {p, q})
      BY <3>1 DEF SetState, Call, TypeOK
    <3> QED BY <3>2, <1>2
  <2> QED BY <1>3, <1>4, <2>1, <2>2, <2>3 DEF Begin
<1>5. ASSUME c = Boot, BootStep PROVE FALSE
  BY <1>3, <1>5 DEF BootStep, Initialize, InitializeDone, Bootstrap, BootstrapDone
<1>6. CASE LoadSucceeds(c)
  <2>1. plugin[c] \in Plugins /\ Activated(c, c \in sawActive)
    BY <1>6 DEF LoadSucceeds, TypeOK
  <2> QED BY <1>1, <2>1, ActivatedRows
<1>7. CASE Copied(c)
  <2>1. plugin[c] \in Plugins /\ Activated(c, TRUE)
    BY <1>7 DEF Copied, TypeOK
  <2> QED BY <1>1, <2>1, ActivatedRows
<1>8. CASE Insert(c)
  BY <1>1, <1>8 DEF Insert, Handles, TypeOK
<1>9. CASE LoadFails(c) \/ LoadCollides(c) \/ InstallRefused(c) \/ InstallChecked(c)
           \/ InsertCollides(c) \/ CopyFails(c)
  BY <1>9 DEF LoadFails, LoadCollides, InstallRefused, InstallChecked, InsertCollides, CopyFails
<1> QED BY <1>4, <1>5, <1>6, <1>7, <1>8, <1>9 DEF StepOf, Continue

LEMMA CallsInvStep ==
  ASSUME TypeOK, CallsInv, NEW c \in Callers, StepOf(c)
  PROVE  CallsInv'
<1>1. OneCallEach /\ OneCallEach'
  BY OneCallEachStep DEF CallsInv
<1>2. LoadsRow(c)'
  BY LoadsRowStep
<1>3. ASSUME NEW d \in Callers \ {c}, plugin'[d] \notin shared' PROVE LoadsRow(d)'
  <2>1. /\ at'[d] = at[d] /\ plugin'[d] = plugin[d]
        /\ d \in sawActive' <=> d \in sawActive
        /\ shared \subseteq shared'
    BY ArgsStep DEF OthersStay
  <2>2. LoadsRow(d)
    BY <1>3, <2>1 DEF CallsInv
  <2>3. at[d] = "load" => plugin[d] \in Plugins /\ row'[plugin[d]] = row[plugin[d]]
    BY <1>1, <1>3, <2>1, RowsOfOthers DEF TypeOK, Handles
  <2> QED BY <2>1, <2>2, <2>3 DEF LoadsRow
<1> QED BY <1>1, <1>2, <1>3 DEF CallsInv

\* Every step but a restart is the step of one caller.
LEMMA SomeCaller ==
  ASSUME Next, ~Restart PROVE \E c \in Callers : StepOf(c)
BY DEF Next, StepOf, Callers

LEMMA CallsAlways == Spec => []CallsInv
<1>1. Init => CallsInv
  BY PluginAssumption DEF Init, CallsInv, OneCallEach, Handles, LoadsRow, NoCalls, NoArgs
<1>2. TypeOK /\ CallsInv /\ [Next]_vars => CallsInv'
  <2> SUFFICES ASSUME TypeOK, CallsInv, [Next]_vars PROVE CallsInv'
    OBVIOUS
  <2>1. CASE UNCHANGED vars
    BY <2>1 DEF vars, CallsInv, OneCallEach, Handles, LoadsRow
  <2>2. CASE Restart
    <3>1. \A c \in Callers : at'[c] = "idle" /\ plugin'[c] = None /\ previous'[c] = None
      BY <2>2 DEF Restart, NoCalls, NoArgs
    <3> QED BY <3>1, PluginAssumption DEF CallsInv, OneCallEach, Handles, LoadsRow
  <2>3. CASE Next /\ ~Restart
    BY <2>3, SomeCaller, CallsInvStep
  <2> QED BY <2>1, <2>2, <2>3
<1> QED BY <1>1, <1>2, TypeCorrect, PTL DEF Spec

-----------------------------------------------------------------------------
(***************************************************************************)
(* CapableIsActive, for any number of clients.                             *)
(***************************************************************************)

\* What a call relies on when its load is over.
Reliable(c, seen) ==
  plugin[c] \notin shared => /\ row[plugin[c]] # "none"
                             /\ seen => row[plugin[c]] = "active"

\* activate() once the registrations are made, on the row its call relies on.
LEMMA ActivatedCapable ==
  ASSUME TypeOK, CapableIsActive, NEW c \in Callers, plugin[c] \in Plugins, NEW seen,
         Activated(c, seen), Reliable(c, seen)
  PROVE  CapableIsActive'
<1> DEFINE p == plugin[c]
           row1 == ActiveRow(p, seen)
<1>1. /\ row1 \in [Plugins -> States \union {"none"}]
      /\ \A x \in Plugins \ {p} : row1[x] = row[x]
      /\ p \notin shared => row1[p] = "active"
  BY DEF ActiveRow, Reliable, TypeOK, States
<1>2. \A x \in (capable \union {p}) \ shared : x \in Plugins /\ row1[x] = "active"
  BY <1>1 DEF CapableIsActive, Active, TypeOK
<1>3. \/ row' = row1 /\ capable' \subseteq capable \union {p}
      \/ \E q \in Plugins : row' = [row1 EXCEPT ![q] = "inactive"]
                            /\ capable' \subseteq (capable \union {p}) \ {q}
  <2>1. previous[c] # None => previous[c] \in Plugins
    BY DEF TypeOK
  <2> QED BY <2>1 DEF Activated, WithCapabilities
<1>4. shared \subseteq shared'
  BY ReturnArgs DEF Activated, OthersStay
<1> HIDE DEF p, row1
<1> QED BY <1>1, <1>2, <1>3, <1>4 DEF CapableIsActive, Active

LEMMA ActivateCapable ==
  ASSUME TypeOK, CapableIsActive, NEW c \in Callers, NEW p \in Plugins, Activate(c, p)
  PROVE  CapableIsActive'
<1>1. shared \subseteq shared'
  BY ActivateArgs DEF OthersStay
<1> QED BY <1>1 DEF Activate, IsLoaded, WithCapabilities, CapableIsActive, Active

LEMMA SetStateCapable ==
  ASSUME TypeOK, CapableIsActive, NEW p \in Plugins, NEW s \in States, SetState(p, s),
         shared \subseteq shared'
  PROVE  CapableIsActive'
  BY DEF SetState, CapableIsActive, Active, TypeOK

LEMMA CapableStep ==
  ASSUME TypeOK, CapableIsActive, CallsInv, NEW c \in Callers, StepOf(c)
  PROVE  CapableIsActive'
<1>0. shared \subseteq shared'
  BY ArgsStep DEF OthersStay
<1>1. ASSUME NEW p \in Plugins, Deactivate(c, p) PROVE CapableIsActive'
  BY <1>0, <1>1, SetStateCapable DEF Deactivate, States
<1>2. ASSUME NEW p \in Plugins, Uninstall(c, p) PROVE CapableIsActive'
  <2>1. DeleteRow(p) => CapableIsActive'
    BY <1>0 DEF DeleteRow, CapableIsActive, Active, TypeOK
  <2>2. SetState(p, "uninstalling") => CapableIsActive'
    BY <1>0, SetStateCapable DEF States
  <2> QED BY <1>2, <2>1, <2>2 DEF Uninstall
<1>4. ASSUME NEW n \in Names, NEW p \in Plugins, Update(c, n, p) PROVE CapableIsActive'
  <2>1. PICK q \in Newest(n) : SetState(q, "updating")
    BY <1>4 DEF Update
  <2>2. q \in Plugins
    BY DEF Newest, ByName
  <2> QED BY <1>0, <2>1, <2>2, SetStateCapable DEF States
<1>6. ASSUME UNCHANGED <<row, capable>> PROVE CapableIsActive'
  BY <1>0, <1>6 DEF CapableIsActive, Active
<1>3. ASSUME NEW p \in Plugins, Install(c, p) PROVE CapableIsActive'
  BY <1>3, <1>6 DEF Install
<1>5. ASSUME BootStep PROVE CapableIsActive'
  <2>1. ASSUME NEW p \in Plugins, Activate(Boot, p) PROVE CapableIsActive'
    BY <2>1, ActivateCapable DEF Callers
  <2> QED BY <1>5, <1>6, <2>1
          DEF BootStep, Initialize, InitializeDone, Bootstrap, BootstrapDone
<1>7. CASE LoadSucceeds(c)
  <2>1. at[c] = "load" /\ plugin[c] \in Plugins /\ Activated(c, c \in sawActive)
    BY <1>7 DEF LoadSucceeds, TypeOK
  <2>2. Reliable(c, c \in sawActive)
    BY <2>1 DEF Reliable, CallsInv, LoadsRow
  <2> QED BY <2>1, <2>2, ActivatedCapable
<1>8. CASE Insert(c)
  <2>1. /\ plugin[c] \in Plugins /\ row[plugin[c]] = "none" /\ capable' = capable
        /\ \A x \in Plugins \ {plugin[c]} : row'[x] = row[x]
    BY <1>8 DEF Insert, TypeOK
  <2> QED BY <1>0, <2>1 DEF CapableIsActive, Active
<1>9. CASE Copied(c)
  <2>1. plugin[c] \in Plugins
    BY <1>9 DEF Copied, TypeOK
  <2>2. UNCHANGED <<row, capable>> \/ (Activated(c, TRUE) /\ row[plugin[c]] = "active")
    BY <1>9 DEF Copied, IsLoaded
  <2>3. Activated(c, TRUE) /\ row[plugin[c]] = "active" => CapableIsActive'
    BY <2>1, ActivatedCapable DEF Reliable
  <2> QED BY <1>6, <2>2, <2>3
<1>10. CASE LoadFails(c) \/ LoadCollides(c) \/ InstallRefused(c) \/ InstallChecked(c)
            \/ InsertCollides(c) \/ CopyFails(c)
  BY <1>6, <1>10 DEF LoadFails, LoadCollides, InstallRefused, InstallChecked, InsertCollides,
                     CopyFails
<1> QED BY <1>1, <1>2, <1>3, <1>4, <1>5, <1>7, <1>8, <1>9, <1>10, ActivateCapable
        DEF StepOf, Begin, Continue

\* A crash between the two writes of a call leaves the flags of the first.
LEMMA CapableRestart ==
  ASSUME TypeOK, CapableIsActive, CallsInv, Restart
  PROVE  CapableIsActive'
<1>0. shared' = shared
  BY DEF Restart
<1>1. CASE UNCHANGED <<row, capable>>
  BY <1>0, <1>1 DEF CapableIsActive, Active
<1>2. CASE UninstallCut
  BY <1>0, <1>2, SetStateCapable DEF UninstallCut, States
<1>3. CASE UpdateCut
  <2>1. PICK c \in Clients : /\ at[c] = "load" /\ row' = ActiveRow(plugin[c], c \in sawActive)
                             /\ capable' = WithCapabilities(plugin[c])
    BY <1>3 DEF UpdateCut
  <2>2. plugin[c] \in Plugins /\ c \in Callers
    BY <2>1 DEF TypeOK, Callers
  <2>3. Reliable(c, c \in sawActive)
    BY <2>1, <2>2 DEF Reliable, CallsInv, LoadsRow
  <2> DEFINE p == plugin[c]
             seen == c \in sawActive
  <2>4. /\ \A x \in Plugins \ {p} : row'[x] = row[x]
        /\ p \notin shared => row'[p] = "active"
    BY <2>1, <2>2, <2>3 DEF ActiveRow, Reliable, TypeOK
  <2>5. capable' \subseteq capable \union {p}
    BY <2>1 DEF WithCapabilities
  <2>6. capable \subseteq Plugins /\ p \in Plugins
    BY <2>2 DEF TypeOK
  <2> HIDE DEF p, seen
  <2>7. \A x \in (capable \union {p}) \ shared : row'[x] = "active"
    BY <2>4, <2>6 DEF CapableIsActive, Active
  <2> QED BY <1>0, <2>5, <2>6, <2>7 DEF CapableIsActive, Active
<1> QED BY <1>1, <1>2, <1>3 DEF Restart

\* The capability flags of a plugin that no two calls were ever about at once never
\* outlive the active state, however many clients call, however their calls fail and
\* wherever the process is cut short.
THEOREM CapableIsActiveHolds == Spec => []CapableIsActive
<1>1. Init => CapableIsActive
  BY DEF Init, CapableIsActive
<1>2. TypeOK /\ CallsInv /\ CapableIsActive /\ [Next]_vars => CapableIsActive'
  <2> SUFFICES ASSUME TypeOK, CallsInv, CapableIsActive, [Next]_vars PROVE CapableIsActive'
    OBVIOUS
  <2>1. CASE UNCHANGED vars
    BY <2>1 DEF vars, CapableIsActive, Active
  <2>2. CASE Restart
    BY <2>2, CapableRestart
  <2>3. CASE Next /\ ~Restart
    BY <2>3, SomeCaller, CapableStep
  <2> QED BY <2>1, <2>2, <2>3
<1> QED BY <1>1, <1>2, CallsAlways, TypeCorrect, PTL DEF Spec

-----------------------------------------------------------------------------
(***************************************************************************)
(* RegisteredIsActive, for any number of clients too.                      *)
(***************************************************************************)

\* activate() once the registrations are made, and what update() does after it.
LEMMA ActivatedRegistered ==
  ASSUME TypeOK, RegisteredIsActive, NEW c \in Callers, plugin[c] \in Plugins, NEW seen,
         Activated(c, seen), Reliable(c, seen)
  PROVE  RegisteredIsActive'
<1> DEFINE p == plugin[c]
           row1 == ActiveRow(p, seen)
<1>1. /\ row1 \in [Plugins -> States \union {"none"}]
      /\ \A x \in Plugins \ {p} : row1[x] = row[x]
      /\ p \notin shared => row1[p] = "active"
  BY DEF ActiveRow, Reliable, TypeOK, States
<1>2. \A x \in (captured \union {p}) \ shared : x \in Plugins /\ row1[x] \in {"active", "updating"}
  BY <1>1 DEF RegisteredIsActive, TypeOK
<1>3. \/ row' = row1 /\ captured' = captured \union {p}
      \/ \E q \in Plugins : row' = [row1 EXCEPT ![q] = "inactive"]
                            /\ captured' = (captured \union {p}) \ {q}
  <2>1. previous[c] # None => previous[c] \in Plugins
    BY DEF TypeOK
  <2> QED BY <2>1 DEF Activated
<1>4. shared \subseteq shared'
  BY ReturnArgs DEF Activated, OthersStay
<1> HIDE DEF p, row1
<1> QED BY <1>1, <1>2, <1>3, <1>4 DEF RegisteredIsActive

LEMMA RegisteredStep ==
  ASSUME TypeOK, RegisteredIsActive, CallsInv, NEW c \in Callers, StepOf(c)
  PROVE  RegisteredIsActive'
<1>0. shared \subseteq shared'
  BY ArgsStep DEF OthersStay
<1>1. ASSUME UNCHANGED <<row, captured>> PROVE RegisteredIsActive'
  BY <1>0, <1>1 DEF RegisteredIsActive
<1>2. ASSUME NEW p \in Plugins, Deactivate(c, p) \/ Uninstall(c, p) PROVE RegisteredIsActive'
  <2>1. captured' = captured \ {p} /\ \A x \in Plugins \ {p} : row'[x] = row[x]
    BY <1>2 DEF Deactivate, Uninstall, Unregistered, SetState, DeleteRow, TypeOK
  <2> QED BY <1>0, <2>1 DEF RegisteredIsActive, TypeOK
<1>3. ASSUME NEW n \in Names, NEW p \in Plugins, Update(c, n, p) PROVE RegisteredIsActive'
  <2>1. PICK q \in Newest(n) : SetState(q, "updating")
    BY <1>3 DEF Update
  <2>2. captured' = captured /\ \A x \in Plugins : row'[x] \in {row[x], "updating"}
    BY <1>3, <2>1 DEF Update, SetState, TypeOK
  <2> QED BY <1>0, <2>2 DEF RegisteredIsActive, TypeOK
<1>4. ASSUME NEW d \in Callers, NEW p \in Plugins, Activate(d, p) PROVE RegisteredIsActive'
  BY <1>1, <1>4 DEF Activate
<1>5. CASE Begin(c)
  BY <1>1, <1>2, <1>3, <1>4, <1>5 DEF Begin, Install
<1>6. CASE BootStep
  <2>1. Boot \in Callers
    BY DEF Callers
  <2> QED BY <1>1, <1>4, <1>6, <2>1
          DEF BootStep, Initialize, InitializeDone, Bootstrap, BootstrapDone
<1>7. CASE LoadSucceeds(c)
  <2>1. at[c] = "load" /\ plugin[c] \in Plugins /\ Activated(c, c \in sawActive)
    BY <1>7 DEF LoadSucceeds, TypeOK
  <2>2. Reliable(c, c \in sawActive)
    BY <2>1 DEF Reliable, CallsInv, LoadsRow
  <2> QED BY <2>1, <2>2, ActivatedRegistered
<1>8. CASE Insert(c)
  <2>1. /\ row[plugin[c]] = "none" /\ captured' = captured
        /\ \A x \in Plugins \ {plugin[c]} : row'[x] = row[x]
    BY <1>8 DEF Insert, TypeOK
  <2> QED BY <1>0, <2>1 DEF RegisteredIsActive, TypeOK
<1>9. CASE Copied(c)
  <2>1. plugin[c] \in Plugins
    BY <1>9 DEF Copied, TypeOK
  <2>2. UNCHANGED <<row, captured>> \/ (Activated(c, TRUE) /\ row[plugin[c]] = "active")
    BY <1>9 DEF Copied, IsLoaded
  <2>3. Activated(c, TRUE) /\ row[plugin[c]] = "active" => RegisteredIsActive'
    BY <2>1, ActivatedRegistered DEF Reliable
  <2> QED BY <1>1, <2>2, <2>3
<1>10. CASE LoadFails(c) \/ LoadCollides(c) \/ InstallRefused(c) \/ InstallChecked(c)
            \/ InsertCollides(c) \/ CopyFails(c)
  BY <1>1, <1>10 DEF LoadFails, LoadCollides, InstallRefused, InstallChecked, InsertCollides,
                     CopyFails
<1> QED BY <1>5, <1>6, <1>7, <1>8, <1>9, <1>10 DEF StepOf, Continue

\* With the same exception activeRegistrations holds only plugins in service: none
\* that was deactivated or uninstalled is counted as registered.
THEOREM RegisteredIsActiveHolds == Spec => []RegisteredIsActive
<1>1. Init => RegisteredIsActive
  BY DEF Init, RegisteredIsActive
<1>2. TypeOK /\ CallsInv /\ RegisteredIsActive /\ [Next]_vars => RegisteredIsActive'
  <2> SUFFICES ASSUME TypeOK, CallsInv, RegisteredIsActive, [Next]_vars PROVE RegisteredIsActive'
    OBVIOUS
  <2>1. CASE UNCHANGED vars
    BY <2>1 DEF vars, RegisteredIsActive
  <2>2. CASE Restart
    BY <2>2 DEF Restart, RegisteredIsActive
  <2>3. CASE Next /\ ~Restart
    BY <2>3, SomeCaller, RegisteredStep
  <2> QED BY <2>1, <2>2, <2>3
<1> QED BY <1>1, <1>2, CallsAlways, TypeCorrect, PTL DEF Spec

-----------------------------------------------------------------------------
(***************************************************************************)
(* StartRevivesBuiltins: the start fails at the first built-in plugin it   *)
(* cannot activate, so that those it has behind it are active.             *)
(***************************************************************************)

Revived ==
  stage = "bootstrap" =>
    /\ \A p \in Builtin \ todo : row[p] = "active"
    /\ at[Boot] # "idle" => plugin[Boot] \in todo

ReviveInv == StartInv /\ Revived /\ (stage # "ready" => LoadsRow(Boot))

\* A call of the start that ends without an error leaves its plugin active.
LEMMA StartActivatedRevives ==
  ASSUME TypeOK, StartInv, Revived, stage = "bootstrap", at[Boot] # "idle", NEW seen,
         Activated(Boot, seen), UNCHANGED stage,
         row[plugin[Boot]] # "none", seen => row[plugin[Boot]] = "active"
  PROVE  Revived'
<1>1. previous[Boot] = None /\ plugin[Boot] \in Plugins
  BY DEF StartInv, StartAlone, TypeOK, Callers
<1>2. /\ row' = IF seen THEN row ELSE [row EXCEPT ![plugin[Boot]] = "active"]
      /\ todo' = todo \ {plugin[Boot]} /\ Return(Boot)
  BY <1>1 DEF Activated, ActiveRow, Visited
<1>3. row'[plugin[Boot]] = "active" /\ \A p \in Plugins \ {plugin[Boot]} : row'[p] = row[p]
  BY <1>1, <1>2 DEF TypeOK
<1>4. at'[Boot] = "idle"
  BY <1>2 DEF Return, Call, TypeOK, Callers
<1> QED BY <1>2, <1>3, <1>4, PluginAssumption DEF Revived

LEMMA BootstrapRevives ==
  ASSUME TypeOK, StartInv, Revived, NEW p \in Plugins, Bootstrap(p)
  PROVE  Revived'
<1>1. stage = "bootstrap" /\ at[Boot] = "idle" /\ p \in todo /\ p \in Builtin
  BY DEF Bootstrap, BootIdle, StartInv, StartVisits
<1>2. CASE row[p] = "none"
  <2>1. Call(Boot, "artifact", p, None) /\ UNCHANGED <<row, stage, todo>>
    BY <1>2 DEF Bootstrap
  <2>2. plugin'[Boot] = p
    BY <2>1 DEF Call, TypeOK, Callers
  <2> QED BY <1>1, <2>1, <2>2 DEF Revived
<1>3. CASE row[p] # "none" /\ ~NeedsActivation(row[p])
  <2>1. row[p] = "active" /\ todo' = todo \ {p} /\ UNCHANGED <<row, stage, at>>
    BY <1>3 DEF Bootstrap, NeedsActivation, Visited
  <2> QED BY <1>1, <2>1 DEF Revived
<1>4. CASE row[p] # "none" /\ NeedsActivation(row[p])
  <2>1. Activate(Boot, p) /\ ~IsLoaded(p) /\ HasRoot(p)
    BY <1>1, <1>4 DEF Bootstrap, NeedsActivation, IsLoaded, HasRoot
  <2>2. BeginLoad(Boot, p, None) /\ UNCHANGED <<row, stage, todo>>
    BY <2>1 DEF Activate
  <2>3. plugin'[Boot] = p
    BY <2>2 DEF BeginLoad, Call, TypeOK, Callers
  <2> QED BY <1>1, <2>2, <2>3 DEF Revived
<1> QED BY <1>2, <1>3, <1>4

LEMMA ContinueRevives ==
  ASSUME TypeOK, StartInv, Revived, LoadsRow(Boot), stage = "bootstrap", Continue(Boot)
  PROVE  Revived'
<1>1. at[Boot] # "idle" /\ plugin[Boot] \in Plugins /\ plugin[Boot] \in todo
  BY DEF Revived, TypeOK, Callers, Continue, LoadFails, LoadCollides, LoadSucceeds,
     InstallRefused, InstallChecked, Insert, InsertCollides, Copied, CopyFails
<1>2. ASSUME Throw(Boot) PROVE Revived'
  BY <1>2 DEF Throw, BootFails, Revived
<1>3. CASE LoadFails(Boot) \/ LoadCollides(Boot) \/ InstallRefused(Boot) \/ InsertCollides(Boot)
           \/ CopyFails(Boot)
  BY <1>2, <1>3 DEF LoadFails, LoadCollides, InstallRefused, InsertCollides, CopyFails
<1>4. CASE LoadSucceeds(Boot)
  BY <1>1, <1>4, StartActivatedRevives DEF LoadSucceeds, LoadsRow
<1>5. CASE InstallChecked(Boot) \/ Insert(Boot)
  <2>1. /\ UNCHANGED <<plugin, stage, todo>>
        /\ \A p \in Plugins \ {plugin[Boot]} : row'[p] = row[p]
    BY <1>1, <1>5 DEF InstallChecked, Insert, TypeOK
  <2> QED BY <1>1, <2>1, PluginAssumption DEF Revived
<1>6. CASE Copied(Boot)
  <2>1. CASE Boot \notin auto
    <3>1. Return(Boot) /\ UNCHANGED <<row, stage, todo>>
      BY <1>6, <2>1 DEF Copied
    <3>2. at'[Boot] = "idle"
      BY <3>1 DEF Return, Call, TypeOK, Callers
    <3> QED BY <3>1, <3>2 DEF Revived
  <2>2. CASE Boot \in auto /\ ~IsLoaded(plugin[Boot])
    <3>1. BeginLoad(Boot, plugin[Boot], previous[Boot]) /\ UNCHANGED <<row, stage, todo>>
      BY <1>6, <2>2 DEF Copied
    <3>2. plugin'[Boot] = plugin[Boot]
      BY <3>1 DEF BeginLoad, Call, TypeOK, Callers
    <3> QED BY <1>1, <3>1, <3>2 DEF Revived
  <2>3. CASE Boot \in auto /\ IsLoaded(plugin[Boot])
    BY <1>1, <1>6, <2>3, StartActivatedRevives DEF Copied, IsLoaded
  <2> QED BY <2>1, <2>2, <2>3
<1> QED BY <1>3, <1>4, <1>5, <1>6 DEF Continue

LEMMA ReviveInvStep ==
  ASSUME TypeOK, ReviveInv, [Next]_vars
  PROVE  ReviveInv'
<1>1. StartInv'
  BY StartInvStep DEF ReviveInv
<1>2. CASE UNCHANGED vars
  BY <1>1, <1>2 DEF vars, ReviveInv, Revived, LoadsRow
<1>3. CASE Restart
  BY <1>1, <1>3 DEF Restart, NoCalls, ReviveInv, Revived, LoadsRow, Callers
<1>4. CASE Next /\ ~Restart /\ stage = "ready"
  <2>1. stage' = "ready"
    BY <1>4, ReadyStays
  <2> QED BY <1>1, <2>1 DEF ReviveInv, Revived
<1>5. CASE Next /\ ~Restart /\ stage # "ready"
  <2>1. BootStep \/ Continue(Boot)
    BY <1>5, OnlyTheStartActs DEF ReviveInv, StartInv
  <2>2. LoadsRow(Boot)'
    BY <2>1, LoadsRowStep DEF StepOf, Callers
  <2>3. Revived'
    <3>1. ASSUME NEW p \in Plugins, Initialize(p) PROVE Revived'
      <4>1. stage' # "bootstrap"
        BY <3>1 DEF Initialize, BootIdle, Activate, BootFails
      <4> QED BY <4>1 DEF Revived
    <3>2. CASE InitializeDone
      BY <3>2 DEF InitializeDone, BootIdle, Revived
    <3>3. CASE BootstrapDone
      BY <3>3 DEF BootstrapDone, Revived
    <3>4. CASE Continue(Boot) /\ stage # "bootstrap"
      <4>1. stage' # "bootstrap"
        BY <3>4 DEF Continue, LoadFails, LoadCollides, LoadSucceeds, InstallRefused,
           InstallChecked, Insert, InsertCollides, Copied, CopyFails, Throw
      <4> QED BY <4>1 DEF Revived
    <3>5. Continue(Boot) /\ stage = "bootstrap" => Revived'
      BY <1>5, ContinueRevives DEF ReviveInv
    <3> QED BY <2>1, <3>1, <3>2, <3>3, <3>4, <3>5, BootstrapRevives DEF ReviveInv, BootStep
  <2> QED BY <1>1, <2>2, <2>3 DEF ReviveInv
<1> QED BY <1>2, <1>3, <1>4, <1>5

\* A start that succeeds leaves every built-in plugin active, for any number of
\* clients: none of them is served before.
THEOREM StartRevivesBuiltinsHolds == Spec => StartRevivesBuiltins
<1>1. Init => ReviveInv
  BY DEF Init, ReviveInv, StartInv, StartAlone, StartVisits, Revived, LoadsRow, NoCalls, NoArgs,
         Callers
<1>2. TypeOK /\ ReviveInv /\ [Next]_vars => ReviveInv'
  BY ReviveInvStep
<1>3. TypeOK /\ ReviveInv /\ [Next]_vars
        => [stage = "bootstrap" /\ stage' = "ready" => Builtin \subseteq Active]_vars
  <2> SUFFICES ASSUME TypeOK, ReviveInv, Next, stage = "bootstrap", stage' = "ready"
               PROVE  Builtin \subseteq Active
    BY DEF vars
  <2>1. ~Restart
    BY DEF Restart
  <2>2. BootStep \/ Continue(Boot)
    BY <2>1, OnlyTheStartActs DEF ReviveInv, StartInv
  <2>3. ~Continue(Boot)
    BY DEF Continue, LoadFails, LoadCollides, LoadSucceeds, InstallRefused,
       InstallChecked, Insert, InsertCollides, Copied, CopyFails, Throw
  <2>4. BootstrapDone
    BY <2>2, <2>3 DEF BootStep, BootIdle, Initialize, Bootstrap, InitializeDone, Activate
  <2> QED BY <2>4, PluginAssumption DEF BootstrapDone, ReviveInv, Revived, Active
<1> QED BY <1>1, <1>2, <1>3, TypeCorrect, PTL DEF Spec, StartRevivesBuiltins

=============================================================================
