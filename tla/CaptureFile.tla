---------------------------- MODULE CaptureFile -----------------------------
(***************************************************************************)
(* What a recording promises about the files of its capture, whatever its  *)
(* threads do and wherever the process is killed: rows are only appended   *)
(* until the raw file is sealed, a killed process loses at most the rows   *)
(* that were never flushed, summary.json describes a sealed file and all   *)
(* of it, and a directory is removed only when its file holds no row.      *)
(***************************************************************************)
EXTENDS Naturals, TLAPS

VARIABLES
    rows,       \* rows in the raw file
    durable,    \* rows a killed process cannot lose
    sealed,     \* nothing will be appended any more
    present,    \* the capture directory exists
    summarized, \* summary.json exists
    described   \* the rows it describes

capVars == <<rows, durable, sealed, present, summarized, described>>

Init ==
    /\ rows = 0 /\ durable = 0 /\ sealed = FALSE /\ present = TRUE
    /\ summarized = FALSE /\ described = 0

Write ==
    /\ ~sealed
    /\ rows' = rows + 1 /\ durable' \in {durable, rows + 1}
    /\ UNCHANGED <<sealed, present, summarized, described>>

Seal ==
    /\ sealed' = TRUE /\ durable' = rows
    /\ UNCHANGED <<rows, present, summarized, described>>

Summarize ==
    /\ sealed /\ present /\ durable = rows
    /\ summarized' = TRUE /\ described' = rows
    /\ UNCHANGED <<rows, durable, sealed, present>>

Remove ==
    /\ sealed /\ rows = 0 /\ ~summarized
    /\ present' = FALSE
    /\ UNCHANGED <<rows, durable, sealed, summarized, described>>

Killed ==
    /\ rows' \in durable .. rows /\ durable' = rows' /\ sealed' = TRUE
    /\ UNCHANGED <<present, summarized, described>>

Next == Write \/ Seal \/ Summarize \/ Remove \/ Killed

Spec == Init /\ [][Next]_capVars

-----------------------------------------------------------------------------
CaptureTypeOK ==
    /\ rows \in Nat /\ durable \in Nat /\ described \in Nat
    /\ sealed \in BOOLEAN /\ present \in BOOLEAN /\ summarized \in BOOLEAN

\* A capture with a summary is whole for good: the summary is in place, describes every row,
\* and no kill can take a row away from it any more.
SummaryIsWhole ==
    summarized => present /\ sealed /\ described = rows /\ durable = rows

\* A removed directory held no row.
RemovedWasEmpty == ~present => rows = 0

------------------------------------------------------------------------------
(***************************************************************************)
(* The promises of CaptureFile, for captures of any length.                *)
(***************************************************************************)

CaptureInv ==
    /\ CaptureTypeOK
    /\ durable <= rows
    /\ ~present => sealed /\ rows = 0 /\ ~summarized
    /\ SummaryIsWhole

LEMMA CaptureInvInit == Init => CaptureInv
  <1> SUFFICES ASSUME Init PROVE CaptureInv
    OBVIOUS
  <1>1. rows \in Nat /\ durable \in Nat /\ described \in Nat /\ durable <= rows
    BY DEF Init
  <1>2. /\ sealed \in BOOLEAN /\ present \in BOOLEAN /\ summarized \in BOOLEAN
        /\ present /\ ~summarized
    BY Zenon DEF Init
  <1> QED
    BY <1>1, <1>2 DEF CaptureInv, CaptureTypeOK, SummaryIsWhole

LEMMA CaptureInvStep == CaptureInv /\ [Next]_capVars => CaptureInv'
  <1> SUFFICES ASSUME CaptureInv, [Next]_capVars PROVE CaptureInv'
    OBVIOUS
  <1> USE DEF CaptureInv, CaptureTypeOK, SummaryIsWhole
  <1>1. CASE Write
    BY <1>1 DEF Write
  <1>2. CASE Seal
    BY <1>2 DEF Seal
  <1>3. CASE Summarize
    BY <1>3 DEF Summarize
  <1>4. CASE Remove
    BY <1>4 DEF Remove
  <1>5. CASE Killed
    BY <1>5 DEF Killed
  <1>6. CASE UNCHANGED capVars
    BY <1>6 DEF capVars
  <1> QED
    BY <1>1, <1>2, <1>3, <1>4, <1>5, <1>6 DEF Next

LEMMA CaptureInvariant == Spec => []CaptureInv
  BY CaptureInvInit, CaptureInvStep, PTL DEF Spec

\* A summary, once written, describes every row of a raw file that no crash can shorten.
THEOREM SummaryStaysWhole == Spec => []SummaryIsWhole
  <1>1. CaptureInv => SummaryIsWhole
    BY DEF CaptureInv
  <1> QED
    BY <1>1, CaptureInvariant, PTL

\* Only the directory of a recording without a row is ever removed.
THEOREM NoRowsRemoved == Spec => []RemovedWasEmpty
  <1>1. CaptureInv => RemovedWasEmpty
    BY DEF CaptureInv, RemovedWasEmpty
  <1> QED
    BY <1>1, CaptureInvariant, PTL
==============================================================================
