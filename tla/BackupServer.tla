---------------------------- MODULE BackupServer ----------------------------
(***************************************************************************)
(* The backup server's copy of one recording (backup-server/server.py):    *)
(* raw.d1rw, the state kept in meta.json, and the retention clock.  A      *)
(* handler runs on one event loop and does not await once it has read its  *)
(* request, so it is one action; a killed server may leave it half done.   *)
(*                                                                         *)
(* Files are measured in units: byte i of the recorder's raw file is i and *)
(* the header is the first HeaderSize of them.                             *)
(***************************************************************************)
EXTENDS Naturals, Sequences

CONSTANT Retention    \* purge threshold, in ticks of the retention clock

ASSUME RetentionAssumption == Retention \in Nat

VARIABLES
    sDir,       \* the session directory exists
    sRaw,       \* the bytes of raw.d1rw (<<>> also when there is no such file)
    sMeta,      \* meta["state"]; "absent" when there is no meta.json
    sBefore,    \* meta["state_before_delete"]
    sAge,       \* ticks since meta["updated_at"]
    wiped,      \* history: the directory was purged or deleted
    finishSeen  \* history: /ingest/finish reached this directory

serverVars == <<sDir, sRaw, sMeta, sBefore, sAge, wiped, finishSeen>>

HeaderSize == 1
MetaStates == {"absent", "streaming", "complete", "deleted", "unknown"}

ServerInit ==
    /\ sDir = FALSE /\ sRaw = <<>> /\ sMeta = "absent" /\ sBefore = "absent" /\ sAge = 0
    /\ wiped = FALSE /\ finishSeen = FALSE

\* The n bytes of the recorder's file that follow the first off.
Bytes(off, n) == [i \in 1 .. n |-> off + i]

\* _new_meta, written by _write_meta.
NewMeta == sMeta' = "streaming" /\ sBefore' = "absent" /\ sAge' = 0

MutIngestStart(n) ==
    /\ sDir' = TRUE /\ sRaw' = Bytes(0, n) /\ NewMeta
    /\ UNCHANGED <<wiped, finishSeen>>

\* A start for a session that is already held neither truncates it nor clears a tombstone.
IngestStart(n) ==
    /\ UNCHANGED <<wiped, finishSeen>>
    /\ \/ /\ sRaw # <<>>
          /\ IF sMeta = "absent" THEN NewMeta ELSE UNCHANGED <<sMeta, sBefore, sAge>>
          /\ UNCHANGED <<sDir, sRaw>>
       \/ /\ sRaw = <<>>
          /\ sDir' = TRUE /\ sRaw' = Bytes(0, n) /\ NewMeta

\* Killed after the raw file and before meta.json.
IngestStartCut(n) ==
    /\ sRaw = <<>> /\ n > 0
    /\ sDir' = TRUE /\ sRaw' = Bytes(0, n)
    /\ UNCHANGED <<sMeta, sBefore, sAge, wiped, finishSeen>>

\* Refused: 404 without the directory, 409 when it would leave a gap.
ChunkAccepted(off) == sDir /\ off <= Len(sRaw)

MutNewBytes(off, n) == Bytes(off, n)
\* What an accepted chunk adds: the part that is not held yet.
NewBytes(off, n) == SubSeq(Bytes(off, n), Len(sRaw) - off + 1, n)

\* The retention clock restarts when bytes were added; a duplicate leaves it alone.
IngestChunk(off, n) ==
    /\ IF ChunkAccepted(off) /\ Len(sRaw) - off < n
       THEN /\ sRaw' = sRaw \o NewBytes(off, n)
            /\ sAge' = IF sMeta = "absent" THEN sAge ELSE 0
       ELSE UNCHANGED <<sRaw, sAge>>
    /\ UNCHANGED <<sDir, sMeta, sBefore, wiped, finishSeen>>

\* Killed while appending: any part of the new bytes may be there, meta.json is as it was.
IngestChunkCut(off, n) ==
    /\ ChunkAccepted(off) /\ Len(sRaw) - off < n
    /\ \E k \in 0 .. Len(NewBytes(off, n)) : sRaw' = sRaw \o SubSeq(NewBytes(off, n), 1, k)
    /\ UNCHANGED <<sDir, sMeta, sBefore, sAge, wiped, finishSeen>>

MutIngestFinish ==
    /\ IF sDir /\ sMeta # "absent"
       THEN sMeta' = "complete" /\ sAge' = 0 /\ finishSeen' = TRUE
       ELSE UNCHANGED <<sMeta, sAge, finishSeen>>
    /\ UNCHANGED <<sDir, sRaw, sBefore, wiped>>

\* A late finish does not turn a tombstone into "complete".
IngestFinish ==
    /\ IF sDir /\ sMeta # "absent"
       THEN /\ sMeta' = IF sMeta = "deleted" THEN sMeta ELSE "complete"
            /\ sAge' = 0 /\ finishSeen' = TRUE
       ELSE UNCHANGED <<sMeta, sAge, finishSeen>>
    /\ UNCHANGED <<sDir, sRaw, sBefore, wiped>>

\* The recorder's local copy is gone: a tombstone.  A repeat does not restart the clock.
MarkDeleted ==
    /\ sDir
    /\ IF sMeta = "deleted"
       THEN UNCHANGED <<sMeta, sBefore, sAge>>
       ELSE /\ sBefore' = IF sMeta = "absent" THEN "unknown" ELSE sMeta
            /\ sMeta' = "deleted" /\ sAge' = 0
    /\ UNCHANGED <<sDir, sRaw, wiped, finishSeen>>

UnmarkDeleted ==
    /\ sDir /\ sMeta = "deleted"
    /\ sMeta' = sBefore /\ sBefore' = "absent"
    /\ UNCHANGED <<sDir, sRaw, sAge, wiped, finishSeen>>

Wipe ==
    /\ sDir
    /\ sDir' = FALSE /\ sRaw' = <<>> /\ sMeta' = "absent" /\ sBefore' = "absent" /\ sAge' = 0
    /\ wiped' = TRUE /\ finishSeen' = FALSE

\* The sweep removes what was not updated for the whole retention time.
Purge == sAge > Retention /\ Wipe

\* DELETE /sessions/{sid}
SessionDelete == Wipe

Tick ==
    /\ sDir /\ sAge <= Retention
    /\ sAge' = sAge + 1
    /\ UNCHANGED <<sDir, sRaw, sMeta, sBefore, wiped, finishSeen>>
=============================================================================
