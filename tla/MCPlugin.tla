------------------------------- MODULE MCPlugin -------------------------------
(***************************************************************************)
(* The plug-in: one instance with its host, and the registry that all      *)
(* instances share.  They share no state, so each behaviour exercises one  *)
(* of them and leaves the other at rest.                                   *)
(***************************************************************************)
EXTENDS PluginHost, PluginRegistry, TLC

CONSTANTS a, b, c

\* Two instances in one host, one in another.
MCHostOf == a :> 1 @@ b :> 1 @@ c :> 2

VARIABLE focus
allVars == <<pluginVars, registryVars, focus>>

HostAtRest     == file = <<>> /\ ~connected
RegistryAtRest == doc = Absent

FocusInit ==
    /\ PluginInit /\ RegistryInit
    /\ \/ focus = "host" /\ RegistryAtRest
       \/ focus = "registry" /\ HostAtRest

OnHost(A)     == focus = "host" /\ A /\ UNCHANGED <<registryVars, focus>>
OnRegistry(A) == focus = "registry" /\ A /\ UNCHANGED <<pluginVars, focus>>

FocusNext == OnHost(PluginNext) \/ OnRegistry(RegistryNext)

FocusSpec ==
    /\ FocusInit /\ [][FocusNext]_allVars
    /\ WF_allVars(OnHost(Process)) /\ WF_allVars(OnHost(Load))
===============================================================================
