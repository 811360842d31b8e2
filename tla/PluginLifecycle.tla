--------------------------- MODULE PluginLifecycle ---------------------------
(***************************************************************************)
(* plugin-manager.ts, plugin-registry.ts and plugin-db.ts: installing,     *)
(* activating, updating and removing plugins around one McpServer, and the *)
(* start that brings back what the database says is active.                *)
(*                                                                         *)
(* The database survives a crash; the registrations do not.  An operation  *)
(* is one call of the plugin manager by a tool.  It is cut where it waits  *)
(* for the disk, the network or the plugin's own code: `artifact', `mkdir',*)
(* `copy' and `load' below.  What an await of an async function that waits *)
(* for nothing separates is one step, since only promise callbacks can come*)
(* between and all of them look at the state again.                        *)
(*                                                                         *)
(* The SDK's McpServer refuses a second registration of a name and cannot  *)
(* take one back: unregisterCaptured() looks for methods it does not have. *)
(***************************************************************************)
EXTENDS Naturals

CONSTANTS
  Plugins,     \* plugin ids, name@version
  Names,       \* plugin names
  NameOf,      \* the name of each plugin id
  Builtin,     \* the plugins shipped with the server
  Tools,       \* names of tools, resources and prompts
  ToolsOf,     \* what each plugin registers
  Clients,     \* concurrent callers of the plugin manager
  Boot,        \* the start, which calls it too
  None,        \* no plugin
  MaxInstalls, \* bound: calls of install() and update()
  MaxFaults,   \* bound: failing downloads, copies and loads
  MaxCrashes   \* bound: crashes and restarts

ASSUME PluginAssumption ==
  /\ NameOf \in [Plugins -> Names]
  /\ Builtin \subseteq Plugins
  /\ ToolsOf \in [Plugins -> SUBSET Tools]
  /\ None \notin Plugins
  /\ Boot \notin Clients

ASSUME PluginBounds == MaxInstalls \in Nat /\ MaxFaults \in Nat /\ MaxCrashes \in Nat

VARIABLES
  row,       \* plugins.lifecycle_state, "none" without a row
  installedAt, \* plugins.installed_at, 0 without a row
  capable,   \* the plugins whose capabilities are is_active
  extracted, \* the plugins with a current extraction record
  serves,    \* the plugin whose registration McpServer has for each name
  captured,  \* the keys of activeRegistrations
  loader,    \* Module._load: the plugins whose guards a require() passes
  originalLoad, \* what each call saved of it, to put back
  overlapped, \* history: two loads overlapped since the process began
  stage,     \* where the start is
  todo,      \* the plugins its loop has still to visit
  at,        \* the await each caller is at
  plugin,    \* the plugin its call is about
  previous,  \* the version an update() replaces
  auto,      \* the calls with autoActivate
  sawActive, \* the calls of activate() that found the plugin active
  shared,    \* history: the plugins two calls were about at the same time
  installs, faults, crashes

dbVars    == <<row, installedAt, capable, extracted>>
guardVars == <<loader, originalLoad, overlapped>>
liveVars  == <<serves, captured, guardVars>>
argVars   == <<at, plugin, previous, auto, sawActive>>
callVars  == <<argVars, shared>>
bootVars  == <<stage, todo>>
countVars == <<installs, faults, crashes>>
vars      == <<dbVars, liveVars, callVars, bootVars, countVars>>

Callers == Clients \union {Boot}
States  == {"installed", "active", "inactive", "updating", "uninstalling"}
Awaits  == {"idle", "artifact", "mkdir", "copy", "load"}

TypeOK ==
  /\ row \in [Plugins -> States \union {"none"}]
  /\ installedAt \in [Plugins -> Nat]
  /\ capable \in SUBSET Plugins
  /\ extracted \in SUBSET Plugins
  /\ serves \in [Tools -> Plugins \union {None}]
  /\ captured \in SUBSET Plugins
  /\ loader \in SUBSET Plugins
  /\ originalLoad \in [Callers -> SUBSET Plugins]
  /\ overlapped \in BOOLEAN
  /\ stage \in {"initialize", "bootstrap", "ready", "failed"}
  /\ todo \in SUBSET Plugins
  /\ at \in [Callers -> Awaits]
  /\ plugin \in [Callers -> Plugins \union {None}]
  /\ previous \in [Callers -> Plugins \union {None}]
  /\ auto \in SUBSET Callers
  /\ sawActive \in SUBSET Callers
  /\ shared \in SUBSET Plugins
  /\ installs \in Nat /\ faults \in 0 .. MaxFaults /\ crashes \in 0 .. MaxCrashes
  /\ \A c \in Callers : at[c] # "idle" => plugin[c] \in Plugins

Active  == {p \in Plugins : row[p] = "active"}
Loading == {c \in Callers : at[c] = "load"}

\* A process that has just started: nothing registered, nothing called.
NoServes == [t \in Tools |-> None]
NoCalls  == [c \in Callers |-> "idle"]
NoArgs   == [c \in Callers |-> None]
NoGuards == [c \in Callers |-> {}]

Init ==
  /\ row = [p \in Plugins |-> "none"]
  /\ installedAt = [p \in Plugins |-> 0]
  /\ capable = {} /\ extracted = {}
  /\ serves = NoServes /\ captured = {}
  /\ loader = {} /\ originalLoad = NoGuards /\ overlapped = FALSE
  /\ at = NoCalls /\ plugin = NoArgs /\ previous = NoArgs
  /\ auto = {} /\ sawActive = {} /\ shared = {}
  /\ stage = "initialize" /\ todo = {}
  /\ installs = 0 /\ faults = 0 /\ crashes = 0

-----------------------------------------------------------------------------
(***************************************************************************)
(* The database.                                                           *)
(***************************************************************************)

\* setPluginLifecycleState(): the state and the capability flags in one
\* transaction.
SetState_Mutant(p, s) ==
  /\ row' = [row EXCEPT ![p] = s]
  /\ UNCHANGED capable
SetState(p, s) ==
  /\ row' = [row EXCEPT ![p] = s]
  /\ capable' = IF s = "active" THEN capable \union {p} ELSE capable \ {p}

\* setPluginCapabilityActiveState(p, true) flags what the row's tables hold.
WithCapabilities_Mutant(p) == capable \union {p}
WithCapabilities(p) == IF row[p] = "none" THEN capable ELSE capable \union {p}

\* getPluginByName(): the newest version that is not being uninstalled, any of them
\* when several were installed in the same millisecond.
ByName(n) == {p \in Plugins : NameOf[p] = n /\ row[p] \notin {"none", "uninstalling"}}
Newest(n) == {p \in ByName(n) : \A q \in ByName(n) : installedAt[q] <= installedAt[p]}

\* deletePlugin() of a plugin that is not built in, with all that refers to it.
DeleteRow_Mutant(p) ==
  /\ row' = [row EXCEPT ![p] = "none"]
  /\ installedAt' = [installedAt EXCEPT ![p] = 0]
  /\ capable' = capable \ {p}
  /\ UNCHANGED extracted
DeleteRow(p) ==
  /\ row' = [row EXCEPT ![p] = "none"]
  /\ installedAt' = [installedAt EXCEPT ![p] = 0]
  /\ capable' = capable \ {p}
  /\ extracted' = extracted \ {p}

-----------------------------------------------------------------------------
(***************************************************************************)
(* Calls.                                                                  *)
(***************************************************************************)

\* The call of c is about the plugins in P.
About(c, P) ==
  shared' = shared \union
    {p \in P \ {None} : \E d \in Callers \ {c} : p \in {plugin[d], previous[d]}}

Call(c, await, p, q) ==
  /\ at' = [at EXCEPT ![c] = await]
  /\ plugin' = [plugin EXCEPT ![c] = p]
  /\ previous' = [previous EXCEPT ![c] = q]
  /\ About(c, {p, q})

Return(c) ==
  /\ Call(c, "idle", None, None)
  /\ auto' = auto \ {c} /\ sawActive' = sawActive \ {c}

MayCall(c) == c \in Clients /\ at[c] = "idle" /\ stage = "ready"

\* What an error does to the start: initialize() notes it and goes on with the
\* next plugin, bootstrapBuiltinPlugins() does not catch it.
Visited(c, p) == todo' = IF c = Boot THEN todo \ {p} ELSE todo

BootFails(c) == c = Boot /\ stage = "bootstrap"

Throw(c) ==
  /\ Return(c)
  /\ Visited(c, plugin[c])
  /\ stage' = IF BootFails(c) THEN "failed" ELSE stage

Fault == faults < MaxFaults /\ faults' = faults + 1

\* resolvePluginRoot() finds the plugin's files.
HasRoot(p) == p \in Builtin \/ p \in extracted

-----------------------------------------------------------------------------
(***************************************************************************)
(* activate().                                                             *)
(***************************************************************************)

\* It needs no load: the state is active and the registrations are there.
IsLoaded(p) == row[p] = "active" /\ p \in captured

\* runCreatePluginWithRuntimeGuards() puts the plugin's guard in front of the
\* Module._load it finds, and in the end puts that back.
InstallGuard_Mutant(c, p) ==
  /\ originalLoad' = [originalLoad EXCEPT ![c] = loader \union {p}]
  /\ loader' = loader \union {p}
  /\ overlapped' = (overlapped \/ Loading # {})
InstallGuard(c, p) ==
  /\ originalLoad' = [originalLoad EXCEPT ![c] = loader]
  /\ loader' = loader \union {p}
  /\ overlapped' = (overlapped \/ Loading # {})

RestoreLoad(c) ==
  /\ loader' = originalLoad[c]
  /\ originalLoad' = [originalLoad EXCEPT ![c] = {}]
  /\ UNCHANGED overlapped

\* activate() up to the await of the plugin's createPlugin().
BeginLoad(c, p, q) ==
  /\ Call(c, "load", p, q)
  /\ InstallGuard(c, p)
  /\ auto' = auto \ {c}
  /\ sawActive' = IF row[p] = "active" THEN sawActive \union {c} ELSE sawActive \ {c}

Activate(c, p) ==
  /\ row[p] # "none"
  /\ \/ /\ IsLoaded(p)
        /\ capable' = WithCapabilities(p)
        /\ Visited(c, p)
        /\ UNCHANGED <<row, installedAt, extracted, liveVars, callVars, stage, countVars>>
     \/ /\ ~IsLoaded(p) /\ HasRoot(p)
        /\ BeginLoad(c, p, None)
        /\ UNCHANGED <<dbVars, serves, captured, bootVars, countVars>>
     \/ /\ ~IsLoaded(p) /\ ~HasRoot(p)   \* throws
        /\ Visited(c, p)
        /\ stage' = IF BootFails(c) THEN "failed" ELSE stage
        /\ UNCHANGED <<dbVars, liveVars, callVars, countVars>>

Free_Mutant(p) == ToolsOf[p]
Free(p) == {t \in ToolsOf[p] : serves[t] = None}

Register(p, R) == serves' = [t \in Tools |-> IF t \in R THEN p ELSE serves[t]]

\* The load ends in an error of the plugin, before it registered anything.
LoadFails(c) ==
  /\ at[c] = "load"
  /\ Fault
  /\ RestoreLoad(c)
  /\ Throw(c)
  /\ UNCHANGED <<dbVars, serves, captured, installs, crashes>>

\* A name is taken: what was registered before it stays registered.
LoadCollides(c) ==
  /\ at[c] = "load"
  /\ Free(plugin[c]) # ToolsOf[plugin[c]]
  /\ \E R \in SUBSET Free(plugin[c]) : Register(plugin[c], R)
  /\ RestoreLoad(c)
  /\ Throw(c)
  /\ UNCHANGED <<dbVars, captured, countVars>>

\* activate() once the registrations are made, and what update() does after it:
\* it deactivates the previous version, unless one of the two rows is gone.
ActiveRow(p, seen) ==
  IF row[p] = "none" \/ seen THEN row ELSE [row EXCEPT ![p] = "active"]

Activated(c, seen) ==
  LET p == plugin[c]
      q == previous[c]
      row1 == ActiveRow(p, seen)
      capable1 == WithCapabilities(p)
  IN  /\ IF q # None /\ row[p] # "none" /\ row[q] # "none"
           THEN /\ captured' = (captured \union {p}) \ {q}
                /\ row' = [row1 EXCEPT ![q] = "inactive"]
                /\ capable' = capable1 \ {q}
           ELSE /\ captured' = captured \union {p}
                /\ row' = row1
                /\ capable' = capable1
      /\ Return(c)
      /\ Visited(c, p)

LoadSucceeds(c) ==
  /\ at[c] = "load"
  /\ Free(plugin[c]) = ToolsOf[plugin[c]]
  /\ Register(plugin[c], ToolsOf[plugin[c]])
  /\ RestoreLoad(c)
  /\ Activated(c, c \in sawActive)
  /\ UNCHANGED <<installedAt, extracted, stage, countVars>>

-----------------------------------------------------------------------------
(***************************************************************************)
(* deactivate() and uninstall().                                           *)
(***************************************************************************)

\* unregisterCaptured() forgets the registrations; the server keeps them.
Unregistered_Mutant(p) == captured
Unregistered(p) == captured \ {p}

Deactivate(c, p) ==
  /\ MayCall(c) /\ row[p] # "none"
  /\ captured' = Unregistered(p)
  /\ SetState(p, "inactive")
  /\ About(c, {p})
  /\ UNCHANGED <<installedAt, extracted, serves, guardVars, argVars, bootVars, countVars>>

MayDelete(p) == p \notin Builtin

Uninstall(c, p) ==
  /\ MayCall(c) /\ row[p] # "none"
  /\ captured' = Unregistered(p)
  /\ \/ MayDelete(p) /\ DeleteRow(p)
     \/ /\ ~MayDelete(p)   \* throws
        /\ SetState(p, "uninstalling")
        /\ UNCHANGED <<installedAt, extracted>>
  /\ About(c, {p})
  /\ UNCHANGED <<serves, guardVars, argVars, bootVars, countVars>>

-----------------------------------------------------------------------------
(***************************************************************************)
(* install() and update().                                                 *)
(***************************************************************************)

Install(c, p) ==
  /\ MayCall(c) /\ installs < MaxInstalls
  /\ installs' = installs + 1
  /\ Call(c, "artifact", p, None)
  /\ \/ auto' = auto \union {c}
     \/ UNCHANGED auto
  /\ UNCHANGED <<dbVars, liveVars, sawActive, bootVars, faults, crashes>>

\* update(): the previous version leaves service before the new one is there.
Update(c, n, p) ==
  /\ MayCall(c) /\ installs < MaxInstalls
  /\ installs' = installs + 1
  /\ \E q \in Newest(n) :
       /\ SetState(q, "updating")
       /\ Call(c, "artifact", p, q)
  /\ auto' = auto \union {c}
  /\ UNCHANGED <<installedAt, extracted, liveVars, sawActive, bootVars, faults, crashes>>

\* loadInstallArtifact() failed, or the plugin is installed already.
InstallRefused(c) ==
  /\ at[c] = "artifact"
  /\ \/ row[plugin[c]] # "none" /\ UNCHANGED faults
     \/ Fault
  /\ Throw(c)
  /\ UNCHANGED <<dbVars, liveVars, installs, crashes>>

InstallChecked(c) ==
  /\ at[c] = "artifact" /\ row[plugin[c]] = "none"
  /\ at' = [at EXCEPT ![c] = "mkdir"]
  /\ UNCHANGED <<dbVars, liveVars, plugin, previous, auto, sawActive, shared, bootVars, countVars>>

\* insertPlugin(), at a time no earlier than that of any row.  The files of an
\* archive are copied next; a directory is used where it is, and only a crash comes
\* before its extraction record.
Insert(c) ==
  LET p == plugin[c]
  IN  /\ at[c] = "mkdir" /\ row[p] = "none"
      /\ row' = [row EXCEPT ![p] = IF c \in auto THEN "active" ELSE "installed"]
      /\ \E q \in Plugins, passed \in {0, 1} :
           LET now == installedAt[q] + passed
           IN  /\ now # 0 /\ \A x \in Plugins : installedAt[x] <= now
               /\ installedAt' = [installedAt EXCEPT ![p] = now]
      /\ at' = [at EXCEPT ![c] = "copy"]
      /\ UNCHANGED <<capable, extracted, liveVars, plugin, previous, auto, sawActive,
                     shared, bootVars, countVars>>

\* Another call inserted the same id meanwhile: the key is taken.
InsertCollides(c) ==
  /\ at[c] = "mkdir" /\ row[plugin[c]] # "none"
  /\ Throw(c)
  /\ UNCHANGED <<dbVars, liveVars, countVars>>

\* saveExtractionRecord(), and activate() as far as it goes at once.
Copied(c) ==
  LET p == plugin[c]
  IN  /\ at[c] = "copy" /\ row[p] # "none"
      /\ extracted' = extracted \union {p}
      /\ \/ /\ c \notin auto
            /\ Return(c)
            /\ UNCHANGED <<row, capable, captured, guardVars, todo>>
         \/ /\ c \in auto /\ ~IsLoaded(p)
            /\ BeginLoad(c, p, previous[c])
            /\ UNCHANGED <<row, capable, captured, todo>>
         \/ /\ c \in auto /\ IsLoaded(p)
            /\ Activated(c, TRUE)
            /\ UNCHANGED guardVars
      /\ UNCHANGED <<installedAt, serves, stage, countVars>>

\* The copy fails, or the row is gone and the foreign key refuses the record.
CopyFails(c) ==
  /\ at[c] = "copy"
  /\ \/ row[plugin[c]] = "none" /\ UNCHANGED faults
     \/ c # Boot /\ Fault
  /\ Throw(c)
  /\ UNCHANGED <<dbVars, liveVars, installs, crashes>>

-----------------------------------------------------------------------------
(***************************************************************************)
(* The start: initialize(), then bootstrapBuiltinPlugins().                *)
(***************************************************************************)

BootIdle(s) == stage = s /\ at[Boot] = "idle"

Initialize(p) ==
  /\ BootIdle("initialize") /\ p \in todo
  /\ Activate(Boot, p)

InitializeDone ==
  /\ BootIdle("initialize") /\ todo = {}
  /\ stage' = "bootstrap" /\ todo' = Builtin
  /\ UNCHANGED <<dbVars, liveVars, callVars, countVars>>

\* An existing row in state s is activated unless it is active.
NeedsActivation_Mutant(s) == s = "installed"
NeedsActivation(s) == s # "active"

Bootstrap(p) ==
  /\ BootIdle("bootstrap") /\ p \in todo
  /\ \/ /\ row[p] = "none"
        /\ Call(Boot, "artifact", p, None)
        /\ auto' = auto \union {Boot}
        /\ UNCHANGED <<dbVars, liveVars, sawActive, bootVars, countVars>>
     \/ row[p] # "none" /\ NeedsActivation(row[p]) /\ Activate(Boot, p)
     \/ /\ row[p] # "none" /\ ~NeedsActivation(row[p])
        /\ Visited(Boot, p)
        /\ UNCHANGED <<dbVars, liveVars, callVars, stage, countVars>>

BootstrapDone ==
  /\ BootIdle("bootstrap") /\ todo = {}
  /\ stage' = "ready"
  /\ UNCHANGED <<dbVars, liveVars, callVars, todo, countVars>>

\* Two calls write the database twice in one step; a crash may come between.
UninstallCut ==
  \E c \in Clients, p \in Plugins :
    /\ MayCall(c) /\ row[p] # "none"
    /\ SetState(p, "uninstalling")

\* The new version is active, the previous one is left in `updating'.
UpdateCut ==
  \E c \in Clients :
    LET p == plugin[c]
    IN  /\ at[c] = "load" /\ previous[c] # None
        /\ Free(p) = ToolsOf[p]
        /\ row' = ActiveRow(p, c \in sawActive)
        /\ capable' = WithCapabilities(p)

\* initialize() takes the active rows as it finds them.
StartList_Mutant(r) == {p \in Plugins : r[p] \in {"active", "installed", "inactive"}}
StartList(r) == {p \in Plugins : r[p] = "active"}

\* The process ends, at any moment or because the start failed, and is started
\* again.
Restart ==
  /\ crashes < MaxCrashes /\ crashes' = crashes + 1
  /\ serves' = NoServes /\ captured' = {}
  /\ loader' = {} /\ originalLoad' = NoGuards /\ overlapped' = FALSE
  /\ at' = NoCalls /\ plugin' = NoArgs /\ previous' = NoArgs
  /\ auto' = {} /\ sawActive' = {}
  /\ UNCHANGED <<row, capable>> \/ UninstallCut \/ UpdateCut
  /\ stage' = "initialize" /\ todo' = StartList(row')
  /\ UNCHANGED <<installedAt, extracted, shared, installs, faults>>

-----------------------------------------------------------------------------
Begin(c) ==
  \/ \E p \in Plugins : MayCall(c) /\ Activate(c, p)
  \/ \E p \in Plugins : Deactivate(c, p) \/ Uninstall(c, p) \/ Install(c, p)
  \/ \E n \in Names, p \in Plugins : Update(c, n, p)

Continue(c) ==
  \/ LoadFails(c) \/ LoadCollides(c) \/ LoadSucceeds(c)
  \/ InstallRefused(c) \/ InstallChecked(c)
  \/ Insert(c) \/ InsertCollides(c) \/ Copied(c) \/ CopyFails(c)

BootStep ==
  \/ \E p \in Plugins : Initialize(p) \/ Bootstrap(p)
  \/ InitializeDone \/ BootstrapDone

Next ==
  \/ Restart
  \/ BootStep
  \/ \E c \in Clients : Begin(c)
  \/ \E c \in Callers : Continue(c)

Spec == Init /\ [][Next]_vars

-----------------------------------------------------------------------------
(***************************************************************************)
(* Properties.                                                             *)
(***************************************************************************)

\* activeRegistrations never claims more than the server has: the names of a
\* plugin that is registered are served by this very plugin, in whatever order
\* loads, collisions and removals of several versions come.
RegisteredIsServed ==
  \A p \in captured : \A t \in ToolsOf[p] : serves[t] = p

\* Nothing refers to a plugin that has no row, even when it is uninstalled
\* while an install, an activation or an update of it is under way.
NoOrphans ==
  \A p \in Plugins : row[p] = "none" => p \notin capable /\ p \notin extracted

\* Module._load is guarded for the plugin that is being created and for no other,
\* however loads fail, collide or are cut short, until two loads overlap: the one
\* that ends first then takes the other's guard away, and the other leaves behind
\* the guard of the first.
GuardMatchesLoad == ~overlapped => loader = {plugin[c] : c \in Loading}

\* A start that succeeds ends with every built-in plugin active, also those an
\* operator deactivated before.
StartRevivesBuiltins ==
  [][stage = "bootstrap" /\ stage' = "ready" => Builtin \subseteq Active]_vars

\* The start does not touch the state of any other plugin: a plugin that was
\* deactivated, or never activated, stays as it was.
StartKeepsChoices ==
  [][stage # "ready" => \A p \in Plugins \ Builtin : row'[p] = row[p]]_vars

\* The capability flags, which the statistics and the list of active tools are read
\* from, never outlive the active state, whatever is installed, updated, removed or
\* cut short; of a plugin two calls were about at once nothing is said: activate()
\* sets the flags on what it read before it awaited the plugin.
CapableIsActive == capable \ shared \subseteq Active

\* What is registered is in service: activeRegistrations holds no plugin that was
\* deactivated, uninstalled or only installed, with the same exception.  An update
\* takes the previous version out of the state active before it is unregistered.
RegisteredIsActive == \A p \in captured \ shared : row[p] \in {"active", "updating"}
=============================================================================
