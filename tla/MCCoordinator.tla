---------------------------- MODULE MCCoordinator ----------------------------
(* The extension's service worker beside the notifier, for TLC: the        *)
(* coordinator of the main scan, the settings and the commands, which      *)
(* share no state.  A behaviour moves one part and leaves the others at    *)
(* rest, so the run explores the sum of the parts' behaviours.             *)
EXTENDS Coordinator, ScannerControl, ScannerCommands, TLC

CONSTANTS t1, t2, p1, p2, MAX_DISTURBANCES, MAX_LEASES

VARIABLE part       \* the part that moves; the commands with one scan and a status, or
                    \* with both scans and none
extensionVars == <<part, vars, settingsVars, commandVars>>

ExtensionInit ==
    /\ part \in {"coordinator", "settings", "commands", "status"}
    /\ Init /\ SettingsInit /\ CommandsInit
    /\ part # "coordinator" => \A t \in Tabs : at[t] = 1

ExtensionNext ==
    /\ UNCHANGED part
    /\ \/ part = "coordinator" /\ Next /\ UNCHANGED <<settingsVars, commandVars>>
       \/ part = "settings" /\ SettingsNext /\ UNCHANGED <<vars, commandVars>>
       \/ /\ part = "commands" /\ CommandsNext /\ sending' = {}
          /\ UNCHANGED <<vars, settingsVars>>
       \/ /\ part = "status" /\ CommandsNext /\ requested'["additional"] = 0
          /\ UNCHANGED <<vars, settingsVars>>
ExtensionSpec == ExtensionInit /\ [][ExtensionNext]_extensionVars

Symmetry == Permutations({t1, t2}) \union Permutations({p1, p2})
(* Every check leaves one lease less to be taken.                          *)
Scenario == checks + restarts + events <= MAX_DISTURBANCES /\ coord.gen + checks <= MAX_LEASES
=============================================================================
