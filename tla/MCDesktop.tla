------------------------------ MODULE MCDesktop ------------------------------
(* The desktop application for TLC: the shell with its sidecar supervisor, *)
(* the updater, the windows with the update check, and the hardware and    *)
(* settings pages. The components share no variable: each models the       *)
(* others as its environment. A behaviour is therefore one of a single     *)
(* component, chosen at the start: `focus`.                                *)
EXTENDS DesktopShell, DesktopApp, HardwarePages, SettingsPages

VARIABLE focus
vars == <<focus, shellVars, updVars, winVars, ampVars, daqVars, docVars, cfgVars, bakVars, repVars, areasVars, logsVars>>

\* The components that are not in focus start in one state.
Init ==
    /\ focus \in {"shell", "updates", "windows", "amp", "daq", "doc", "cfg", "bak", "rep", "areas", "logs"}
    /\ ShellInit /\ UpdInit /\ WinInit /\ AmpInit /\ DaqInit /\ DocInit /\ CfgInit /\ BakInit /\ RepInit /\ AreasInit /\ LogsInit
    /\ focus # "updates" => updPage.window /\ updPage.focused
    /\ focus # "windows" => saved = <<>>
    /\ focus # "cfg" => cfg.stored = NoUrls

Next ==
    \/ focus = "shell" /\ ShellNext /\ UNCHANGED <<focus, updVars, winVars, ampVars, daqVars, docVars, cfgVars, bakVars, repVars, areasVars, logsVars>>
    \/ focus = "updates" /\ UpdNext /\ UNCHANGED <<focus, shellVars, winVars, ampVars, daqVars, docVars, cfgVars, bakVars, repVars, areasVars, logsVars>>
    \/ focus = "windows" /\ WinNext /\ UNCHANGED <<focus, shellVars, updVars, ampVars, daqVars, docVars, cfgVars, bakVars, repVars, areasVars, logsVars>>
    \/ focus = "amp" /\ AmpNext /\ UNCHANGED <<focus, shellVars, updVars, winVars, daqVars, docVars, cfgVars, bakVars, repVars, areasVars, logsVars>>
    \/ focus = "daq" /\ DaqNext /\ UNCHANGED <<focus, shellVars, updVars, winVars, ampVars, docVars, cfgVars, bakVars, repVars, areasVars, logsVars>>
    \/ focus = "doc" /\ DocNext /\ UNCHANGED <<focus, shellVars, updVars, winVars, ampVars, daqVars, cfgVars, bakVars, repVars, areasVars, logsVars>>
    \/ focus = "cfg" /\ CfgNext /\ UNCHANGED <<focus, shellVars, updVars, winVars, ampVars, daqVars, docVars, bakVars, repVars, areasVars, logsVars>>
    \/ focus = "bak" /\ BakNext /\ UNCHANGED <<focus, shellVars, updVars, winVars, ampVars, daqVars, docVars, cfgVars, repVars, areasVars, logsVars>>
    \/ focus = "rep" /\ RepNext /\ UNCHANGED <<focus, shellVars, updVars, winVars, ampVars, daqVars, docVars, cfgVars, bakVars, areasVars, logsVars>>
    \/ focus = "areas" /\ AreasNext /\ UNCHANGED <<focus, shellVars, updVars, winVars, ampVars, daqVars, docVars, cfgVars, bakVars, repVars, logsVars>>
    \/ focus = "logs" /\ LogsNext /\ UNCHANGED <<focus, shellVars, updVars, winVars, ampVars, daqVars, docVars, cfgVars, bakVars, repVars, areasVars>>

----------------------------------------------------------------------------
(* Fairness, of the component in focus.                                    *)

ShellFairness == WF_shellVars(focus = "shell" /\ Progress) /\ WF_shellVars(focus = "shell" /\ Probing)

\* The recheck timer fires again and again.
UpdFairness == WF_updVars(focus = "updates" /\ RecheckIdle)

WinFairness == WF_winVars(focus = "windows" /\ HandOver) /\ WF_winVars(focus = "windows" /\ CheckQuits) /\ WF_winVars(focus = "windows" /\ AppStarts)

\* The recorder answers the pages' requests and reads.
HardwareFairness ==
    /\ WF_ampVars(focus = "amp" /\ AmpOpEnds) /\ WF_ampVars(focus = "amp" /\ AmpLoadSteps)
    /\ WF_daqVars(focus = "daq" /\ DaqOpSteps) /\ WF_daqVars(focus = "daq" /\ DaqLoadSteps)

\* Answers come and timers fire; the operator may do nothing.
SettingsFairness ==
    /\ WF_docVars(focus = "doc" /\ DocSteps) /\ WF_bakVars(focus = "bak" /\ BakSteps) /\ WF_repVars(focus = "rep" /\ RepSteps)
    /\ WF_logsVars(focus = "logs" /\ LogsAnswer) /\ WF_logsVars(focus = "logs" /\ LevelAnswered(TRUE))
    /\ WF_logsVars(focus = "logs" /\ RetryFires) /\ WF_logsVars(focus = "logs" /\ LevelSet(TRUE))

Spec ==
    /\ Init /\ [][Next]_vars
    /\ ShellFairness /\ UpdFairness /\ WinFairness /\ HardwareFairness /\ SettingsFairness

----------------------------------------------------------------------------
(* The supervisor keeps one backend, watches it while it is ready, reports *)
(* its loss once and never leaves it behind (sidecar.ts, main.ts).  A      *)
(* deferred update is kept, announced once and shown (updater.ts); the     *)
(* pop-outs, crash reports and update checks of overlapping instances are  *)
(* the right ones (popouts.ts, rendererWatch.ts, updateCheck.ts); the      *)
(* hardware and settings pages show what was loaded and saved last.        *)
DesktopSafe ==
    /\ ShellTypeOK /\ OneBackend /\ OneRestartUnderWay /\ ReadyIsWatched /\ ReportedOnce /\ NoOrphan
    /\ UpdTypeOK /\ DeferredIsKept /\ NotifiedOnce /\ CardShowsDownload
    /\ WinTypeOK /\ OnlyOwnReopened /\ QuitKeepsPopouts /\ CrashToldOnce /\ MarkedWasShown /\ OneInstance
    /\ HardwareSafe /\ SettingsSafe

(* Neither a restart, nor a quit, nor an update ends a recording that the  *)
(* backend would have reported (restart.ts, quitGuard.ts, updater.ts); a   *)
(* late load undoes no edit of a page (swr.ts).                            *)
DesktopSteps == RestartSparesRecording /\ QuitSparesRecording /\ InstallFromIdle /\ LoadKeepsEdits

(* What the desktop has begun ends: the launch, the replacement of a hung  *)
(* backend, a quit, a restart, the news of a lost recording, a deferred    *)
(* update, a launch during an update check and the check itself, the loads *)
(* and saves of the pages.                                                 *)
DesktopSettles ==
    /\ <>[](focus = "shell" => ShellQuiet)
    /\ []<>(UpdQuiet /\ WinQuiet /\ HardwareQuiet /\ SettingsQuiet)
==============================================================================
