----------------------------- MODULE DriftFile ------------------------------
(***************************************************************************)
(* The stored rate of the crystal (main.cpp): read at the start, handed to *)
(* the sources until one is measured, and written back, rarely, through a  *)
(* temporary that is renamed over it.  The process may be killed between   *)
(* any two calls it makes of the file system, and is started again.        *)
(***************************************************************************)
EXTENDS Integers

CONSTANTS
  Rates,      \* rates of the crystal, in ppm
  Threshold,  \* kDriftWriteThresholdPpm
  WriteEvery, \* kDriftWriteIntervalSec, in passes
  MaxKills    \* bound on the times the process is killed

ASSUME DriftAssumption ==
  Rates \subseteq Int /\ {Threshold, WriteEvery, MaxKills} \subseteq Nat

VARIABLES
  file, tmp,    \* what the two files hold: nothing, no number, or a rate
  stored,       \* storedPpm
  lastWritten,  \* lastWrittenPpm
  writeAge,     \* passes since lastWriteAt
  save,         \* where writeDriftPpm is, and the rate it was called with
  given,        \* the rate the sources were last given
  kills,
  whole, full   \* the file has held a rate; a write has met a full disk

driftVars == <<file, tmp, stored, lastWritten, writeAge, save, given, kills, whole, full>>

NoFile == [holds |-> "no file", ppm |-> 0]
Empty  == [holds |-> "no number", ppm |-> 0]
Figure(ppm) == [holds |-> "rate", ppm |-> ppm]
Holds(x) == x.holds = "rate"
NotSaving == [at |-> "no", ppm |-> 0]

\* Slip: the figure is written where it is kept.
InPlace(x) == file' = x /\ UNCHANGED tmp
ToTmp(x) == tmp' = x /\ UNCHANGED file

\* readDriftPpm: whatever is not a number is as good as no file.
ReadDrift(f) == IF Holds(f) THEN f ELSE NoFile

\* main(), before the loop.
StartWith(f) ==
  /\ stored' = ReadDrift(f) /\ given' = NoFile /\ save' = NotSaving
  /\ lastWritten' = f.ppm
  /\ writeAge' = IF Holds(f) THEN 0 ELSE WriteEvery

DriftInit ==
  /\ file = NoFile /\ tmp = NoFile /\ stored = NoFile /\ lastWritten = 0 /\ writeAge = WriteEvery
  /\ save = NotSaving /\ given = NoFile /\ kills = 0 /\ whole = FALSE /\ full = FALSE

Apart(a, b) == IF a > b THEN a - b ELSE b - a

\* One pass of the main loop: a live fit wins, and only a live fit is ever saved.
RatePass(measured) ==
  /\ save = NotSaving
  /\ given' = IF Holds(measured) THEN measured ELSE stored
  /\ IF Holds(measured) /\ Apart(measured.ppm, lastWritten) >= Threshold /\ writeAge >= WriteEvery
     THEN /\ save' = [at |-> "open", ppm |-> measured.ppm]
          /\ lastWritten' = measured.ppm /\ writeAge' = 0
     ELSE /\ writeAge' = IF writeAge < WriteEvery THEN writeAge + 1 ELSE writeAge
          /\ UNCHANGED <<save, lastWritten>>
  /\ UNCHANGED <<file, tmp, stored, kills, whole, full>>

\* Opened, and truncated by that; a directory that cannot be written ends it.
OpenTmp(can) ==
  /\ save.at = "open"
  /\ IF can THEN ToTmp(Empty) /\ save' = [save EXCEPT !.at = "write"]
     ELSE save' = NotSaving /\ UNCHANGED <<file, tmp>>
  /\ UNCHANGED <<stored, lastWritten, writeAge, given, kills, whole, full>>

\* Nobody looks whether the write worked.
WriteTmp(room) ==
  /\ save.at = "write" /\ save' = [save EXCEPT !.at = "rename"]
  /\ IF room THEN ToTmp(Figure(save.ppm)) /\ UNCHANGED full
     ELSE full' = TRUE /\ UNCHANGED <<file, tmp>>
  /\ UNCHANGED <<stored, lastWritten, writeAge, given, kills, whole>>

Rename(can) ==
  /\ save.at = "rename" /\ save' = NotSaving /\ tmp' = NoFile
  /\ file' = IF can /\ tmp # NoFile THEN tmp ELSE file
  /\ whole' = (whole \/ Holds(file'))
  /\ UNCHANGED <<stored, lastWritten, writeAge, given, kills, full>>

\* Killed at any moment, and started again.
KillAndStart ==
  /\ kills < MaxKills /\ kills' = kills + 1
  /\ StartWith(file)
  /\ UNCHANGED <<file, tmp, whole, full>>

DriftNext ==
  \/ \E r \in {Figure(ppm) : ppm \in Rates} \union {NoFile} : RatePass(r)
  \/ \E ok \in BOOLEAN : OpenTmp(ok) \/ WriteTmp(ok) \/ Rename(ok)
  \/ KillAndStart
-----------------------------------------------------------------------------
(* Killed in the middle of a write, the daemon finds the old figure or the *)
(* new one and never half of one (writeDriftPpm), however often it is      *)
(* killed and whatever was left of the temporary by the time before;       *)
(* unless a disk was full, which the code does not look for.               *)
DriftKept == whole /\ ~full => Holds(file)
=============================================================================
