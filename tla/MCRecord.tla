------------------------------- MODULE MCRecord -------------------------------
(* The recording page of the client for TLC: the workspace that starts and *)
(* stops cuts, the alarms with the confirmation dialog, the page around    *)
(* them, the setup form with the replay of stored cuts, the relay to the   *)
(* pop-outs, the playback engine, and the set-up forms with their cached   *)
(* lists. As in MCDesktop a behaviour is one of a single component,        *)
(* `focus`.                                                                *)
EXTENDS RecordWorkspace, RecordPage, ArchivedCut, LiveRelay, SetupForms

VARIABLE focus
vars == <<focus, wsVars, alarmVars, pageVars, formVars, relayVars, playVars, lkVars, pgVars, fldVars, mdVars, pfVars, optVars>>

\* An edge is an insert and the number of its corner; the last is an edge without an insert.
MCEdges == {<<"i1", 1>>, <<"i2", 1>>, <<"", 1>>}

\* The components that are not in focus start in one state.
Init ==
    /\ focus \in {"workspace", "alarms", "page", "form", "relay", "playback", "lookups", "pages", "field", "metadata", "preflight", "options"}
    /\ WsInit /\ AlarmInit /\ PageInit
    /\ focus # "page" => left = {}
    /\ FormInit
    /\ focus # "form" => src.now = "sim" /\ src.kept /\ stored.setup = [link |-> "own", mach |-> "own"]
    /\ RelayInit
    /\ focus # "relay" => now.mode = "live" /\ now.cut = CHOOSE c \in CutsShown : TRUE
    /\ PlayInit /\ LkInit
    /\ focus # "lookups" => lk.idb /\ lk.meta = "never" /\ lk.session = "none"
    /\ PgInit
    /\ focus # "pages" => paging.table = {}
    /\ FldInit
    /\ focus # "field" => fld.link.edge = NoEdge
    /\ MdInit
    /\ focus # "metadata" => ~md.uploaded
    /\ PfInit
    /\ focus # "preflight" => Unbound(pf.model) = Names /\ Len(pf.model) = Len(NameSeq) /\ pf.text = Defaults /\ pf.scan = {}
    /\ OptInit
    /\ focus # "options" => opt.source = "sim"

Next ==
    \/ focus = "workspace" /\ WsNext /\ UNCHANGED <<focus, alarmVars, pageVars, formVars, relayVars, playVars, lkVars, pgVars, fldVars, mdVars, pfVars, optVars>>
    \/ focus = "alarms" /\ AlarmNext /\ UNCHANGED <<focus, wsVars, pageVars, formVars, relayVars, playVars, lkVars, pgVars, fldVars, mdVars, pfVars, optVars>>
    \/ focus = "page" /\ PageNext /\ UNCHANGED <<focus, wsVars, alarmVars, formVars, relayVars, playVars, lkVars, pgVars, fldVars, mdVars, pfVars, optVars>>
    \/ focus = "form" /\ FormNext /\ UNCHANGED <<focus, wsVars, alarmVars, pageVars, relayVars, playVars, lkVars, pgVars, fldVars, mdVars, pfVars, optVars>>
    \/ focus = "relay" /\ RelayNext /\ UNCHANGED <<focus, wsVars, alarmVars, pageVars, formVars, playVars, lkVars, pgVars, fldVars, mdVars, pfVars, optVars>>
    \/ focus = "playback" /\ PlayNext /\ UNCHANGED <<focus, wsVars, alarmVars, pageVars, formVars, relayVars, lkVars, pgVars, fldVars, mdVars, pfVars, optVars>>
    \/ focus = "lookups" /\ LkNext /\ UNCHANGED <<focus, wsVars, alarmVars, pageVars, formVars, relayVars, playVars, pgVars, fldVars, mdVars, pfVars, optVars>>
    \/ focus = "pages" /\ PgNext /\ UNCHANGED <<focus, wsVars, alarmVars, pageVars, formVars, relayVars, playVars, lkVars, fldVars, mdVars, pfVars, optVars>>
    \/ focus = "field" /\ FldNext /\ UNCHANGED <<focus, wsVars, alarmVars, pageVars, formVars, relayVars, playVars, lkVars, pgVars, mdVars, pfVars, optVars>>
    \/ focus = "metadata" /\ MdNext /\ UNCHANGED <<focus, wsVars, alarmVars, pageVars, formVars, relayVars, playVars, lkVars, pgVars, fldVars, pfVars, optVars>>
    \/ focus = "preflight" /\ PfNext /\ UNCHANGED <<focus, wsVars, alarmVars, pageVars, formVars, relayVars, playVars, lkVars, pgVars, fldVars, mdVars, optVars>>
    \/ focus = "options" /\ OptNext /\ UNCHANGED <<focus, wsVars, alarmVars, pageVars, formVars, relayVars, playVars, lkVars, pgVars, fldVars, mdVars, pfVars>>

----------------------------------------------------------------------------
(* Fairness, of the component in focus.                                    *)

\* The recorder works, the stream reconnects, requests are answered; the operator may do nothing.
WsFairness == WF_wsVars(focus = "workspace" /\ RecorderStep) /\ WF_wsVars(focus = "workspace" /\ StreamStep) /\ WF_wsVars(focus = "workspace" /\ PageStep)

\* Timers fire and requests are answered; the operator may do nothing.
AlarmFairness ==
    /\ WF_alarmVars(focus = "alarms" /\ (\E k \in TestKeys : TestExpires(k))) /\ WF_alarmVars(focus = "alarms" /\ NextPromptShown)
    /\ WF_alarmVars(focus = "alarms" /\ (\E low \in BOOLEAN : DiskRead(low)))

PageFairness == WF_pageVars(focus = "page" /\ (\E r \in reqs : RequestHandled(r))) /\ WF_pageVars(focus = "page" /\ (\E r \in reqs : RequestAnswered(r)))

\* Requests are answered and timers fire.
FormFairness ==
    /\ WF_formVars(focus = "form" /\ (\E a \in asks, ok \in BOOLEAN : SearchAnswered(a, ok) \/ DownloadReturned(a, ok) \/ HydrateReturned(a, ok)))
    /\ WF_formVars(focus = "form" /\ SetupSaved)

\* Timers fire, messages are delivered, an open pop-out's heartbeat and an operator's
\* main window come back.
RelayFairness ==
    /\ WF_relayVars(focus = "relay" /\ IntervalOver) /\ WF_relayVars(focus = "relay" /\ TrailingFires)
    /\ WF_relayVars(focus = "relay" /\ SourceReady) /\ WF_relayVars(focus = "relay" /\ PeerSpoke)
    /\ \A p \in Popouts : WF_relayVars(focus = "relay" /\ PopoutHears(p)) /\ WF_relayVars(focus = "relay" /\ Heartbeat(p))

\* Animation frames come, and the recorder answers.
PlayFairness ==
    /\ WF_playVars(focus = "playback" /\ (\E dt \in 1..CutLen : Tick(dt))) /\ WF_playVars(focus = "playback" /\ ScrubFrame)
    /\ WF_playVars(focus = "playback" /\ (\E ok \in BOOLEAN : Reply(ok)))

\* Requests and timers end; the 1 s preflight poll and its answer go on, and new channels are assigned.
SetupFairness ==
    /\ WF_lkVars(focus = "lookups" /\ LkAnswer) /\ WF_lkVars(focus = "lookups" /\ IntervalFires)
    /\ WF_pfVars(focus = "preflight" /\ PollPreflight) /\ WF_pfVars(focus = "preflight" /\ \E m \in pf.polls : PreflightRead(m))
    /\ WF_pfVars(focus = "preflight" /\ reassignChannels)

Spec ==
    /\ Init /\ [][Next]_vars
    /\ WsFairness /\ AlarmFairness /\ PageFairness /\ FormFairness /\ RelayFairness /\ PlayFairness /\ SetupFairness

----------------------------------------------------------------------------
(* A cut that ended is offered to be saved, and the trace shown is its own *)
(* (workspace.ts); an alarm sounds until it is answered, an answer covers  *)
(* what was on the screen and no more (alarms.ts); the disk is watched     *)
(* while a cut is recorded (RecordPage.vue); the cached lists are those    *)
(* stored, and the set-up forms keep the recorder and what belongs         *)
(* together (lookupCache.ts, EditCaptureMetadataDialog.vue, preflight.ts). *)
RecordingSafe ==
    /\ focus = "workspace" => WsTypeOK /\ EndedIsOffered /\ AmpMeasuresWhileLive /\ TraceIsOwn
    /\ focus = "alarms" => AlarmTypeOK /\ ToneUntilAnswered /\ AckCoversShown /\ WarningYields /\ DismissedStaysAway /\ TripsOnce
    /\ focus = "page" => PageTypeOK /\ PolledWhileRecording
    /\ focus \in {"lookups", "pages", "field", "metadata", "preflight", "options"} =>
          /\ SetupTypeOK /\ MemoIsStored /\ OfflineSearchFinds /\ SyncedIsStored /\ NoRowTwice /\ SteadyRowsFetched
          /\ EdgeOfInsert /\ RecorderKept /\ OkChannelsStart

(* A replay never mixes with what the operator typed, and names the cut    *)
(* that is played (workspace.ts, setupStore.ts); what is drawn is what a   *)
(* replay from the start to the playhead draws (playback/engine.ts).       *)
ReplaySafe ==
    /\ focus = "form" =>
          /\ FormTypeOK /\ FormIsOperators /\ StoredIsOperators /\ NamedIsPlayed /\ OptionsAreNewest /\ MachiningOfLoadedCut
    /\ focus = "relay" => RelayTypeOK
    /\ focus = "playback" => PlayTypeOK /\ DrawnUpToPlayhead /\ TraceHasNoGap /\ NoSpectrumAhead /\ ReleaseWins

(* What no step does: undo with an older answer what a newer message said  *)
(* (workspace.ts), skip the disk check at a start, drop a recording the    *)
(* recorder still holds (RecordPage.vue), override the operator's choice   *)
(* of a source, apply a delta to points it was not cut from                *)
(* (liveClient.ts), write a row other than the capture's record            *)
(* (EditCaptureMetadataDialog.vue), fold a card the operator opened.       *)
RecordSteps ==
    /\ ReconcileKeepsNewer /\ CheckedAtStart /\ DroppedOnlyWhenGone /\ ChoiceWins /\ DeltaFits
    /\ RowFollowsRecord /\ TouchedStays

(* Nothing stays begun: a start or stop, a trip that asked for a stop, a   *)
(* test alarm, a queued prompt, a recovery, a download, a replay; the      *)
(* pop-outs end up with what the source shows; a list that failed is       *)
(* fetched again, and the pre-flight line comes to be about the saved      *)
(* channels.                                                               *)
RecordQuiet ==
    /\ focus = "workspace" => BusyEnded /\ TripStopped
    /\ focus = "alarms" => TestsEnded /\ QueuedShown
    /\ focus = "page" => PageQuiet
    /\ focus = "form" => FormQuiet
    /\ focus = "relay" => RelayQuiet
    /\ focus = "playback" => PlayEnded /\ WaitingSent
RecordSettles == []<>RecordQuiet /\ FailedIsRetried /\ (focus = "preflight" => PreflightCatchesUp)
==============================================================================
