------------------------------- MODULE HostLog -------------------------------
(***************************************************************************)
(* The log files of the host (src/host/src/main.rs): FileLogger appends    *)
(* lines to the file it has open and rotates it when it is full: the       *)
(* archives move up by one name, the log becomes the first archive and a   *)
(* new log is opened.                                                      *)
(*                                                                         *)
(* Each rename is a step: the file system may refuse it and the process    *)
(* may die after it.  Lines are numbered as they are written and have a    *)
(* length in bytes, since the code compares the bytes of a file with its   *)
(* limit, before it writes a line of whatever length.  As in HostConfig an *)
(* open file is known by the name it has.                                  *)
(***************************************************************************)
EXTENDS Integers, Sequences

CONSTANTS
  History,    \* LOG_HISTORY_FILES
  Full,       \* MAX_LOG_FILE_BYTES
  MaxLine,    \* bytes of the longest line that is logged
  MaxLines,   \* bound: lines written in a behaviour
  NoFile      \* there is no file of this name

ASSUME LogAssumption ==
  /\ History \in Nat \ {0} /\ Full \in Nat \ {0}
  /\ MaxLine \in Nat \ {0} /\ MaxLines \in Nat
  /\ NoFile \notin Seq(1 .. MaxLines)

VARIABLES
  logs,      \* the files: 0 is the log, i its archive number i
  bytes,     \* and their length in bytes, 0 if there is no file
  handle,    \* the name of the file that FileLogger has open
  at,        \* where FileLogger::log is: idle, shifting, opening, writing
  index,     \* rotate_log_file moves file `index` next
  lines,     \* lines written so far
  fault      \* history: the worst that befell a rotation, "none", "death" or "refusal"

logVars == <<logs, bytes, handle, at, index, lines, fault>>

LogTypeOK ==
  /\ logs \in [0 .. History -> Seq(1 .. MaxLines) \cup {NoFile}]
  /\ bytes \in [0 .. History -> Nat]
  /\ handle \in 0 .. History
  /\ at \in {"idle", "shifting", "opening", "writing"}
  /\ index \in 0 .. History - 1
  /\ lines \in 0 .. MaxLines
  /\ fault \in {"none", "death", "refusal"}

\* initialize_logging finds no files and creates the log.
LogInit ==
  /\ logs = [i \in 0 .. History |-> IF i = 0 THEN <<>> ELSE NoFile]
  /\ bytes = [i \in 0 .. History |-> 0]
  /\ handle = 0
  /\ at = "idle"
  /\ index = 0
  /\ lines = 0
  /\ fault = "none"

-----------------------------------------------------------------------------

\* FileLogger::log: a full file is rotated first.
LogCall ==
  /\ at = "idle"
  /\ lines < MaxLines
  /\ IF bytes[handle] >= Full THEN at' = "shifting" /\ index' = History - 1
                              ELSE at' = "writing" /\ UNCHANGED index
  /\ UNCHANGED <<logs, bytes, handle, lines, fault>>

\* fs::rename of file i, which exists, to the next name.  Its handle goes along.
Moved(i) ==
  /\ logs' = [logs EXCEPT ![i + 1] = logs[i], ![i] = NoFile]
  /\ bytes' = [bytes EXCEPT ![i + 1] = bytes[i], ![i] = 0]
  /\ handle' = IF handle = i THEN i + 1 ELSE handle

\* The archives are shifted in ascending order.
ShiftArchiveUpwards ==
  /\ at = "shifting" /\ index > 0
  /\ IF logs[History - index] # NoFile THEN Moved(History - index)
                                       ELSE UNCHANGED <<logs, bytes, handle>>
  /\ index' = index - 1
  /\ UNCHANGED <<at, lines, fault>>

\* rotate_log_file, one round of its loop; it counts down.
ShiftArchive ==
  /\ at = "shifting" /\ index > 0
  /\ IF logs[index] # NoFile THEN Moved(index) ELSE UNCHANGED <<logs, bytes, handle>>
  /\ index' = index - 1
  /\ UNCHANGED <<at, lines, fault>>

\* rotate_log_file: the log becomes the first archive.  If there is no log of
\* that name any more the rotation fails and the line goes to the old file.
ShiftLog ==
  /\ at = "shifting" /\ index = 0
  /\ IF logs[0] # NoFile THEN Moved(0) /\ at' = "opening"
                         ELSE at' = "writing" /\ UNCHANGED <<logs, bytes, handle>>
  /\ UNCHANGED <<index, lines, fault>>

\* open_log_file: a file that is not there is created.
Opened == [logs EXCEPT ![0] = IF @ = NoFile THEN <<>> ELSE @]

\* The new log is open, but FileLogger keeps the old one.
OpenLogNotReplaced ==
  /\ at = "opening"
  /\ logs' = Opened
  /\ at' = "writing"
  /\ UNCHANGED <<bytes, handle, index, lines, fault>>

OpenLog ==
  /\ at = "opening"
  /\ logs' = Opened
  /\ handle' = 0
  /\ at' = "writing"
  /\ UNCHANGED <<bytes, index, lines, fault>>

\* A rename or the open is refused, or already the length of the file: the old
\* file stays in use.
RotateFails ==
  /\ at \in {"shifting", "opening"}
  /\ at' = "writing"
  /\ index' = 0
  /\ fault' = "refusal"
  /\ UNCHANGED <<logs, bytes, handle, lines>>

\* writeln: the line may have any length.
WriteLine ==
  /\ at = "writing"
  /\ \E n \in 1 .. MaxLine : bytes' = [bytes EXCEPT ![handle] = @ + n]
  /\ lines' = lines + 1
  /\ logs' = [logs EXCEPT ![handle] = Append(@, lines + 1)]
  /\ at' = "idle"
  /\ UNCHANGED <<handle, index, fault>>

\* The write is refused; nobody is told and the line is nowhere.
WriteRefused ==
  /\ at = "writing"
  /\ at' = "idle"
  /\ UNCHANGED <<logs, bytes, handle, index, lines, fault>>

\* The host dies and is started again; initialize_logging opens the log.
LogRestart ==
  /\ logs' = Opened
  /\ handle' = 0
  /\ at' = "idle"
  /\ index' = 0
  /\ fault' = IF at \in {"shifting", "opening"} /\ fault = "none" THEN "death" ELSE fault
  /\ UNCHANGED <<bytes, lines>>

LogNext ==
  \/ LogCall \/ ShiftArchive \/ ShiftLog \/ OpenLog \/ RotateFails \/ WriteLine
  \/ WriteRefused \/ LogRestart

LogSpec == LogInit /\ [][LogNext]_logVars

-----------------------------------------------------------------------------

Files == {i \in 0 .. History : logs[i] # NoFile}

Kept(n) == \E i \in Files : \E k \in DOMAIN logs[i] : logs[i][k] = n

\* "rotates host logs without losing recent archives" (the name of a test): read
\* from the oldest archive to the log, the files hold the lines in the order in
\* which they were written, each once, and after the first of them none is
\* missing, whatever rename failed or was the last before the host died; and
\* unless a rotation was interrupted (the next one then closes the gap at the cost
\* of the oldest) they hold all lines, or as many files are full as there are
\* archives, in the middle of a rotation too.
KeptIsRecent ==
  /\ \A i, j \in Files : \A k \in DOMAIN logs[i], l \in DOMAIN logs[j] :
        i > j \/ (i = j /\ k < l) => logs[i][k] < logs[j][l]
  /\ \A m, n \in 1 .. lines : m < n /\ Kept(m) => Kept(n)
  /\ fault = "none" =>
        \/ \A n \in 1 .. lines : Kept(n)
        \/ \E gap \in 0 .. History : \A i \in (0 .. History) \ {gap} :
              i \in Files /\ bytes[i] >= Full

\* How large a file gets.  FileLogger::log compares before it writes, so that a
\* file passes MAX_LOG_FILE_BYTES with its last line, but by less than that line,
\* also after a death in the middle of a rotation, as long as the file system
\* refuses nothing.  An archive has always reached the limit: where the README has
\* the files "each up to 5 MiB", an archive is at least that large.
LogsBounded ==
  /\ \A i \in Files : i # 0 => bytes[i] >= Full
  /\ fault # "refusal" => \A i \in Files : bytes[i] < Full + MaxLine

=============================================================================
