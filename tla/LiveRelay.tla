------------------------------ MODULE LiveRelay ------------------------------
(***************************************************************************)
(* The relay between the window that records or replays and its pop-outs   *)
(* (web/src/record/liveClient.ts, relayPeers.ts, emitThrottle.ts): full    *)
(* and delta snapshots, raw live frames, heartbeats and expiry.  The       *)
(* spiral is a sequence of the cuts its points belong to; trace and        *)
(* spectra travel in the same messages.                                    *)
(***************************************************************************)
EXTENDS Integers, Sequences, FiniteSets

CONSTANTS
    Popouts,      \* pop-out windows; each is opened at most once
    Others,       \* further pop-outs, whose own copy is not followed
    CutsShown,    \* cuts recorded or replayed
    MaxPoints,    \* bound: points of a cut
    MaxTurns,     \* bound: changes of the source's data
    MaxBreaks     \* bound: failed sends, expiries, the source going away

ASSUME RelayAssumption == {MaxPoints, MaxTurns, MaxBreaks} \subseteq Nat

VARIABLES
    spiral,  \* the source's points (frm)
    now,     \* the source: present, the cut and the mode it shows, offered to the pop-outs
    rly,     \* relayEpoch, sent, the throttle and its trailing timer
    peers,   \* RelayPeers: the pop-outs it believes alive
    chan,    \* BroadcastChannel: messages on their way to each pop-out
    back,    \* and to the source
    pop,     \* each pop-out: window state, held points, heldEpoch, its last request
    relPast  \* bounds

relayVars == <<spiral, now, rly, peers, chan, back, pop, relPast>>

NoRelay == [epoch |-> 0, sentEpoch |-> -1, sentN |-> 0, pending |-> FALSE, trailing |-> FALSE, hot |-> FALSE]
NoPop == [win |-> "none", held |-> <<>>, epoch |-> -1, asked |-> FALSE]

RelayInit ==
    /\ spiral = <<>> /\ \E c \in CutsShown, m \in {"live", "replay"} : now = [on |-> TRUE, cut |-> c, mode |-> m, offered |-> TRUE]
    /\ rly = NoRelay /\ peers = {}
    /\ chan = [p \in Popouts |-> <<>>] /\ back = <<>> /\ pop = [p \in Popouts |-> NoPop]
    /\ relPast = [turns |-> 0, breaks |-> 0]

Open(p) == pop[p].win = "open"
\* postMessage reaches every pop-out that is open.
Posted2All(msg) == [p \in Popouts |-> IF Open(p) THEN Append(chan[p], msg) ELSE chan[p]]

----------------------------------------------------------------------------
(* Snapshots.                                                              *)

\* buildSnapshot(): full on request, after a discontinuity, or when points were dropped.
IsFull(forced, r, data) == forced \/ r.sentEpoch # r.epoch \/ Len(data) < r.sentN

buildSnapshot(forced, r, data) ==
    LET full == IsFull(forced, r, data)
        from == IF full THEN 0 ELSE r.sentN
    IN  [k |-> "snap", full |-> full, epoch |-> r.epoch, from |-> from,
         body |-> SubSeq(data, from + 1, Len(data)), of |-> data]

SentNow(r, data) == [r EXCEPT !.sentEpoch = r.epoch, !.sentN = Len(data)]

\* sendSnapshot(): one that cannot be posted is replaced by an empty full one of epoch -1.
sendSnapshot(forced, r, data, past) ==
    \/ /\ chan' = Posted2All(buildSnapshot(forced, r, data))
       /\ rly' = SentNow(r, data) /\ relPast' = past
    \/ /\ past.breaks < MaxBreaks /\ relPast' = [past EXCEPT !.breaks = @ + 1]
       /\ chan' = Posted2All([k |-> "snap", full |-> TRUE, epoch |-> -1, from |-> 0, body |-> <<>>, of |-> <<>>])
       /\ rly' = [SentNow(r, data) EXCEPT !.sentEpoch = -1]

\* Mutant: a throttled tick leaves no trailing send behind.
MutThrottled(r) == [r EXCEPT !.pending = TRUE]

Throttled(r) == [r EXCEPT !.pending = TRUE, !.trailing = TRUE]

\* relayTick(): at most one snapshot per interval; the last state is sent when it has passed.
relayTick(r, data, past) ==
    IF peers = {} THEN rly' = r /\ chan' = chan /\ relPast' = past
    ELSE IF r.hot THEN rly' = Throttled(r) /\ chan' = chan /\ relPast' = past
    ELSE sendSnapshot(FALSE, [r EXCEPT !.pending = FALSE, !.hot = TRUE], data, past)

IntervalOver ==
    /\ rly.hot /\ rly' = [rly EXCEPT !.hot = FALSE]
    /\ UNCHANGED <<spiral, now, peers, chan, back, pop, relPast>>

\* scheduleRelayTrailing(): the timer; too early it is set again.
TrailingFires ==
    /\ rly.trailing /\ ~rly.hot
    /\ LET r == [rly EXCEPT !.trailing = FALSE] IN
       IF ~rly.pending \/ peers = {} THEN rly' = r /\ UNCHANGED <<chan, relPast>>
       ELSE sendSnapshot(FALSE, [r EXCEPT !.pending = FALSE, !.hot = TRUE], spiral, relPast)
    /\ UNCHANGED <<spiral, now, peers, back, pop>>

----------------------------------------------------------------------------
(* What changes the source's data.                                         *)

Turn == relPast.turns < MaxTurns
Counted == [relPast EXCEPT !.turns = @ + 1]
Discontinuous(r) == [r EXCEPT !.epoch = @ + 1]

\* The playback engine renders forward (tick, seek) ...
PlaysOn ==
    /\ Turn /\ now.mode = "replay" /\ Len(spiral) < MaxPoints
    /\ spiral' = Append(spiral, now.cut) /\ now' = [now EXCEPT !.offered = peers # {}]
    /\ relayTick(rly, spiral', Counted)
    /\ UNCHANGED <<peers, back, pop>>

\* ... or back, which rebuilds the buffers from the start.
SeeksBack(n) ==
    /\ Turn /\ now.mode = "replay" /\ n < Len(spiral)
    /\ spiral' = SubSeq(spiral, 1, n) /\ now' = [now EXCEPT !.offered = peers # {}]
    /\ relayTick(Discontinuous(rly), spiral', Counted)
    /\ UNCHANGED <<peers, back, pop>>

\* client.reset(): a cut is loaded, or a recording started; nothing is sent.
Reset(c, m) ==
    /\ Turn /\ <<c, m>> # <<now.cut, now.mode>> /\ spiral' = <<>> /\ rly' = Discontinuous(rly)
    /\ now' = [now EXCEPT !.cut = c, !.mode = m, !.offered = FALSE]
    /\ relPast' = Counted /\ UNCHANGED <<peers, chan, back, pop>>

\* reconcile() meets a recording it did not start: reset, and a full snapshot for the pop-outs.
ReconcileAdopts(c) ==
    /\ Turn /\ now.on /\ now.mode = "live" /\ c # now.cut
    /\ spiral' = <<>> /\ now' = [now EXCEPT !.cut = c, !.offered = peers # {}]
    /\ IF peers = {} THEN rly' = Discontinuous(rly) /\ chan' = chan /\ relPast' = Counted
       ELSE sendSnapshot(TRUE, Discontinuous(rly), <<>>, Counted)
    /\ UNCHANGED <<peers, back, pop>>

\* ws.onmessage: a live frame is applied, and passed on as it is.
LiveFrame ==
    /\ Turn /\ now.on /\ now.mode = "live" /\ Len(spiral) < MaxPoints
    /\ spiral' = Append(spiral, now.cut)
    /\ chan' = IF peers = {} THEN chan ELSE Posted2All([k |-> "bin", of |-> now.cut])
    /\ now' = [now EXCEPT !.offered = @ /\ peers # {}]
    /\ relPast' = Counted /\ UNCHANGED <<rly, peers, back, pop>>

----------------------------------------------------------------------------
(* The source's window: disconnect(), connect(), and a reload.             *)

\* disconnect() clears the trailing timer.
Untimed(r) == [r EXCEPT !.trailing = FALSE]

SourceLeaves(reload) ==
    /\ now.on /\ relPast.breaks < MaxBreaks /\ relPast' = [relPast EXCEPT !.breaks = @ + 1]
    /\ now' = [now EXCEPT !.on = FALSE, !.offered = FALSE] /\ peers' = {} /\ back' = <<>>
    /\ IF reload THEN spiral' = <<>> /\ rly' = NoRelay
       ELSE spiral' = spiral /\ rly' = Untimed(rly)
    /\ UNCHANGED <<chan, pop>>

SourceReady ==
    /\ ~now.on /\ now' = [now EXCEPT !.on = TRUE]
    /\ chan' = Posted2All([k |-> "ready"])
    /\ UNCHANGED <<spiral, rly, peers, back, pop, relPast>>

\* A message reaches the source only while its channel exists.
ToSource(msg) == back' = IF now.on THEN Append(back, msg) ELSE back

\* onPeerMessage().
PeerSpoke ==
    /\ now.on /\ back # <<>> /\ back' = Tail(back)
    /\ LET d == Head(back) IN
       IF d.k = "bye" THEN peers' = peers \ {d.id} /\ UNCHANGED <<rly, chan, relPast, now>>
       ELSE /\ peers' = peers \union {d.id}
            /\ IF d.k = "sync" \/ d.id \notin peers
               THEN sendSnapshot(TRUE, rly, spiral, relPast) /\ now' = [now EXCEPT !.offered = TRUE]
               ELSE UNCHANGED <<rly, chan, relPast, now>>
    /\ UNCHANGED <<spiral, pop>>

\* prune(): a peer that was quiet for the ttl, gone or only throttled.
PeerExpires(p) ==
    /\ p \in peers
    /\ \/ pop[p].win = "gone" /\ UNCHANGED relPast
       \/ Open(p) /\ relPast.breaks < MaxBreaks /\ relPast' = [relPast EXCEPT !.breaks = @ + 1]
    /\ peers' = peers \ {p}
    /\ UNCHANGED <<spiral, now, rly, chan, back, pop>>

----------------------------------------------------------------------------
(* Pop-outs.                                                               *)

\* connectViaRelay().
PopoutOpens(p) ==
    /\ pop[p].win = "none" /\ pop' = [pop EXCEPT ![p].win = "open"]
    /\ ToSource([k |-> "sync", id |-> p])
    /\ UNCHANGED <<spiral, now, rly, peers, chan, relPast>>

\* Closed with a 'bye' (pagehide), or killed without one.
PopoutGoes(p, bye) ==
    /\ Open(p) /\ pop' = [pop EXCEPT ![p] = [NoPop EXCEPT !.win = "gone"]]
    /\ chan' = [chan EXCEPT ![p] = <<>>]
    /\ IF bye THEN ToSource([k |-> "bye", id |-> p]) ELSE back' = back
    /\ UNCHANGED <<spiral, now, rly, peers, relPast>>

\* The heartbeat; one from a peer that is known changes nothing.
Heartbeat(p) ==
    /\ Open(p) /\ now.on /\ p \notin peers /\ ~\E i \in DOMAIN back : back[i].id = p
    /\ ToSource([k |-> "beat", id |-> p])
    /\ UNCHANGED <<spiral, now, rly, peers, chan, pop, relPast>>

\* Another pop-out asks for the backlog, or says bye: everyone hears the answer.
OtherSpeaks(o) ==
    /\ now.on /\ ~\E i \in DOMAIN back : back[i].id = o
    /\ \/ relPast.breaks < MaxBreaks /\ o \notin peers /\ relPast' = [relPast EXCEPT !.breaks = @ + 1]
          /\ ToSource([k |-> "sync", id |-> o])
       \/ o \in peers /\ UNCHANGED relPast /\ ToSource([k |-> "bye", id |-> o])
    /\ UNCHANGED <<spiral, now, rly, peers, chan, pop>>

AskCools(p) ==
    /\ pop[p].asked /\ pop' = [pop EXCEPT ![p].asked = FALSE]
    /\ UNCHANGED <<spiral, now, rly, peers, chan, back, relPast>>

\* requestSync(): at most twice a second, unless a new source calls for it.
requestSync(p, force) ==
    IF pop[p].asked /\ ~force THEN UNCHANGED <<pop, back>>
    ELSE pop' = [pop EXCEPT ![p].asked = TRUE] /\ ToSource([k |-> "sync", id |-> p])

\* Mutant: a delta is applied to whatever is held.
MutFits(p, m) == TRUE

\* A delta only makes sense on top of exactly the data it was cut from.
Fits(p, m) == m.epoch = pop[p].epoch /\ m.from = Len(pop[p].held)

\* A full snapshot replaces what is held, also when it has no points.
Filled(p, m) == m.body

Splice(held, m) == SubSeq(held, 1, IF m.from < Len(held) THEN m.from ELSE Len(held)) \o m.body

applySnapshot(p, m) ==
    IF m.full THEN pop' = [pop EXCEPT ![p].held = Filled(p, m), ![p].epoch = m.epoch] /\ back' = back
    ELSE IF ~Fits(p, m) THEN requestSync(p, FALSE)
    ELSE pop' = [pop EXCEPT ![p].held = Splice(@, m)] /\ back' = back

PopoutHears(p) ==
    /\ Open(p) /\ chan[p] # <<>> /\ chan' = [chan EXCEPT ![p] = Tail(@)]
    /\ LET m == Head(chan[p]) IN
       \/ m.k = "snap" /\ applySnapshot(p, m)
       \/ m.k = "bin" /\ pop' = [pop EXCEPT ![p].held = Append(@, m.of)] /\ back' = back
       \/ m.k = "ready" /\ requestSync(p, TRUE)
    /\ UNCHANGED <<spiral, now, rly, peers, relPast>>

----------------------------------------------------------------------------
RelayNext ==
    \/ IntervalOver \/ TrailingFires \/ PlaysOn \/ LiveFrame \/ SourceReady \/ PeerSpoke
    \/ \E n \in 0..MaxPoints : SeeksBack(n)
    \/ \E c \in CutsShown : ReconcileAdopts(c) \/ \E m \in {"live", "replay"} : Reset(c, m)
    \/ \E b \in BOOLEAN : SourceLeaves(b)
    \/ \E p \in Popouts : PeerExpires(p) \/ PopoutOpens(p) \/ Heartbeat(p) \/ AskCools(p) \/ PopoutHears(p)
    \/ \E p \in Popouts, b \in BOOLEAN : PopoutGoes(p, b)
    \/ \E o \in Others : OtherSpeaks(o)


----------------------------------------------------------------------------
RelayTypeOK ==
    /\ spiral \in Seq(CutsShown) /\ Len(spiral) <= MaxPoints
    /\ now.on \in BOOLEAN /\ now.cut \in CutsShown /\ now.offered \in BOOLEAN /\ now.mode \in {"live", "replay"}
    /\ rly.epoch \in Nat /\ rly.sentEpoch \in -1..rly.epoch /\ rly.sentN \in 0..MaxPoints
    /\ peers \subseteq Popouts \union Others /\ (rly.trailing => now.on)
    /\ \A p \in Popouts : pop[p].win \in {"none", "open", "gone"} /\ pop[p].epoch \in Int

\* An accepted delta leaves the pop-out with exactly the points the source had
\* when it cut the delta, whoever joined, expired, reloaded or missed a snapshot
\* in between (applySnapshot, buildSnapshot).
DeltaFits ==
    [][\A p \in Popouts :
          (chan[p] # <<>> /\ chan'[p] = Tail(chan[p]) /\ pop'[p].win = "open" /\ Head(chan[p]).k = "snap")
          => pop'[p].held \in {pop[p].held, Head(chan[p]).of}]_relayVars

\* The pop-outs end up with what the source shows: once it stays put, each open
\* pop-out holds the points of the source's last tick, unless that state was
\* never offered (a cut loaded or started and not yet drawn) or its send failed.
RelayQuiet ==
    \A p \in Popouts :
            (Open(p) /\ now.on /\ now.offered /\ rly.sentEpoch # -1) => pop[p].held = spiral

\* Does not hold (README, section 5): a recording started while a pop-out is open
\* is appended to the points of the cut before.
PopoutShowsOneCut ==
    \A p \in Popouts : \A i, j \in DOMAIN pop[p].held : pop[p].held[i] = pop[p].held[j]
=============================================================================
