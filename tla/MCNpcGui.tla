------------------------------- MODULE MCNpcGui -------------------------------
(* Instantiates NpcGui for TLC: two configuration ids as model values.     *)
EXTENDS NpcGui, TLC

CONSTANTS c1, c2

MCIds == {c1, c2}
OneId == {c1}
IdSymmetry == Permutations(MCIds)

\* Calls that may reject in the runs that check freshness: the mutating
\* ones.  ListConfigs and GetLogs failing leaves a stale view by design.
ListOnly == {"ListConfigs"}
MutatingOps == {"SaveConfig", "DeleteConfig", "StartClient", "StopClient"}

\* User handlers exercised by each run.
FormOps == {"switchView", "showConfigForm", "editConfig", "cancelConfigForm",
            "submitConfigForm", "deleteConfig"}
ConfigOps == FormOps \cup {"toggleClient"}
LogOps == {"switchView", "clearLogsView"}
NoOps == {}
ToggleOps == {"toggleClient"}
LogsOnly == {"GetLogs"}
ReloadAndToggle == {"ListConfigs", "StartClient", "StopClient"}
AllUserOps == {"switchView", "showConfigForm", "editConfig", "cancelConfigForm",
               "submitConfigForm", "deleteConfig", "toggleClient",
               "clearLogsView"}
=============================================================================
