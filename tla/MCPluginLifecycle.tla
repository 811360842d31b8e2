-------------------------- MODULE MCPluginLifecycle --------------------------
\* A built-in plugin and two versions of another.  The newer version wants a name
\* that the built-in plugin registers.
EXTENDS PluginLifecycle, TLC

CONSTANTS core, old, new, coreName, extName, toolA, toolB

MCNameOf  == [p \in Plugins |-> IF p = core THEN coreName ELSE extName]
MCToolsOf == [p \in Plugins |-> IF p = old THEN {toolB} ELSE {toolA}]
\* Clients are interchangeable.
ClientSymmetry == Permutations(Clients)

\* What makes a difference for the rest of a behaviour: of the times of installation
\* their order among the versions of a plugin, and nothing of Module._load once
\* loads have overlapped.
InstallOrder ==
  {pq \in Plugins \X Plugins :
     NameOf[pq[1]] = NameOf[pq[2]] /\ installedAt[pq[1]] < installedAt[pq[2]]}
Guards == IF overlapped THEN <<>> ELSE <<loader, originalLoad>>
Distinct ==
  <<row, capable, extracted, InstallOrder, serves, captured, Guards, callVars, bootVars, countVars>>
=============================================================================
