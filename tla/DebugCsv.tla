------------------------------- MODULE DebugCsv -------------------------------
(***************************************************************************)
(* The policy debug CSV of RL_Sim and RL_Real: opened by the first row that*)
(* is due, with the parameters of the policy active then, written by the   *)
(* loop that runs the policy (RL_Sim) or the control tick (RL_Real), and   *)
(* closed by the destructor, which does not wait for a call in flight.     *)
(*                                                                         *)
(* What the header and a row say is left out.                              *)
(***************************************************************************)
EXTENDS Integers

CONSTANTS
  CsvConfigs,  \* what policies say: [csv : {"absent", "off", "on"}, stride]
  FlushEvery   \* 25: calls between two flushes

ASSUME CsvAssumption ==
  /\ FlushEvery \in Nat \ {0}
  /\ CsvConfigs \subseteq [csv : {"absent", "off", "on"}, stride : Int]

VARIABLES
  csvNode,         \* "sim" or "real"
  csvConfig,       \* the parameters of the active policy
  csvInitialized,  \* policy_debug_csv_initialized
  csvEnabled,      \* policy_debug_csv_enabled
  csvStride,       \* policy_debug_csv_stride
  csvCounter,      \* policy_debug_csv_counter, modulo csvStride * FlushEvery
  csvFile,         \* "none", "open", "failed" or "closed"
  rowDue,          \* WritePolicyDebugCsv behind its guards
  unflushed,       \* history: rows the file does not have yet, up to FlushEvery + 1
  closing          \* the destructor has shut the loops down

csvVars == <<csvNode, csvConfig, csvInitialized, csvEnabled, csvStride, csvCounter, csvFile,
             rowDue, unflushed, closing>>
-----------------------------------------------------------------------------
AtLeast(low, n) == IF n < low THEN low ELSE n

(* What the file becomes: RL_Sim and RL_Real give it different names and   *)
(* headers and treat it alike.                                             *)
Opened(opens) == IF csvConfig.csv # "on" THEN csvFile ELSE IF opens THEN "open" ELSE "failed"

(* InitPolicyDebugCsv: the first policy decides, for good.                 *)
InitPolicyDebugCsv(opens) ==
  /\ csvInitialized' = TRUE
  /\ csvStride' = AtLeast(1, csvConfig.stride)
  /\ csvEnabled' = (csvConfig.csv = "on" /\ opens)
  /\ csvFile' = Opened(opens)

OneMore(rows) == IF rows <= FlushEvery THEN rows + 1 ELSE rows

CountCall == csvCounter' = (csvCounter + 1) % (csvStride' * FlushEvery)

(* RL_Real asks first whether the parameter is there at all.               *)
RealAsks == csvNode = "real" => csvConfig.csv # "absent"

(* WritePolicyDebugCsv up to the row.                                      *)
WritePolicyDebugCsv(opens) ==
  /\ ~rowDue
  /\ RealAsks
  /\ IF csvInitialized
     THEN UNCHANGED <<csvInitialized, csvEnabled, csvStride, csvFile>>
     ELSE InitPolicyDebugCsv(opens)
  /\ IF csvEnabled' /\ csvFile' = "open"
     THEN CountCall /\ rowDue' = (csvCounter % csvStride' = 0)
     ELSE UNCHANGED <<csvCounter, rowDue>>
  /\ UNCHANGED <<csvNode, csvConfig, unflushed, closing>>

(* The row, which a file closed meanwhile ignores.                         *)
Written(flushes) ==
  unflushed' = IF csvFile # "open" \/ flushes THEN 0 ELSE OneMore(unflushed)

RowNeverFlushed ==  \* mutant: only the destructor flushes
  /\ rowDue
  /\ rowDue' = FALSE
  /\ Written(FALSE)
  /\ UNCHANGED <<csvNode, csvConfig, csvInitialized, csvEnabled, csvStride, csvCounter, csvFile,
                 closing>>

WriteRow ==
  /\ rowDue
  /\ rowDue' = FALSE
  /\ Written(csvCounter % FlushEvery = 0)
  /\ UNCHANGED <<csvNode, csvConfig, csvInitialized, csvEnabled, csvStride, csvCounter, csvFile,
                 closing>>

(* Destructor, after the loops were told to stop: ClosePolicyDebugCsv.     *)
ClosePolicyDebugCsv ==
  /\ ~closing
  /\ closing' = TRUE
  /\ csvFile' = IF csvFile = "open" THEN "closed" ELSE csvFile
  /\ unflushed' = 0
  /\ UNCHANGED <<csvNode, csvConfig, csvInitialized, csvEnabled, csvStride, csvCounter, rowDue>>

LoadPolicy ==
  /\ csvConfig' \in CsvConfigs
  /\ UNCHANGED <<csvNode, csvInitialized, csvEnabled, csvStride, csvCounter, csvFile, rowDue,
                 unflushed, closing>>
-----------------------------------------------------------------------------
CsvInit ==
  /\ csvNode \in {"sim", "real"} /\ csvConfig \in CsvConfigs
  /\ csvInitialized = FALSE /\ csvEnabled = FALSE /\ csvStride = 1 /\ csvCounter = 0
  /\ csvFile = "none" /\ rowDue = FALSE /\ unflushed = 0 /\ closing = FALSE

CsvNext ==
  \/ \E opens \in BOOLEAN : WritePolicyDebugCsv(opens)
  \/ WriteRow \/ ClosePolicyDebugCsv \/ LoadPolicy

CsvSpec == CsvInit /\ [][CsvNext]_csvVars
-----------------------------------------------------------------------------
CsvTypeOK ==
  /\ csvConfig \in CsvConfigs
  /\ csvInitialized \in BOOLEAN /\ csvEnabled \in BOOLEAN
  /\ rowDue \in BOOLEAN /\ closing \in BOOLEAN
  /\ csvStride \in Nat \ {0} /\ csvCounter \in 0..csvStride * FlushEvery
  /\ csvFile \in {"none", "open", "failed", "closed"}
  /\ unflushed \in 0..FlushEvery + 1

(* "if ((policy_debug_csv_counter % 25) == 0) flush": a crash loses at most*)
(* FlushEvery rows - if the stride has no divisor in common with it.  Rows *)
(* follow the calls whose number is one more than a multiple of the stride,*)
(* so with a stride of 5 or 25 no row is ever the one that flushes.        *)
RowsReachDisk ==
  (\A d \in 2..FlushEvery : ~(csvStride % d = 0 /\ FlushEvery % d = 0)) =>
    unflushed <= FlushEvery

CsvSafe == CsvTypeOK /\ RowsReachDisk
=============================================================================
