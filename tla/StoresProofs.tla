---------------------------- MODULE StoresProofs ----------------------------
(***************************************************************************)
(* Proofs about what outlives a process or a power cycle: config.json      *)
(* (HostConfig), the rotated log files (HostLog) and the record of the     *)
(* Wi-Fi credentials (WifiRecord).                                         *)
(***************************************************************************)
EXTENDS HostConfig, HostLog, WifiRecord, SequenceTheorems, TLAPS

(***************************************************************************)
(* config.json.  persist_host_config takes no lock, and two PUTs at the    *)
(* same time do break StoredIsServed; the theorems are about a host that   *)
(* has one PUT in progress at a time.                                      *)
(***************************************************************************)

\* No two PUTs are in progress at the same time.
OnePut == \A q, r \in Puts : q = r

\* What the files hold at each point of persist_host_config.  Up to the rename
\* config.json is the configuration in memory, after it that of the PUT.
PersistSteps ==
  \A r \in Puts :
    /\ pc[r] = "created" => file[r] = "tmp" /\ tmp = Empty
    /\ pc[r] = "written" => tmp = cfg[r]
    /\ pc[r] = "renamed" => disk = cfg[r]
    /\ pc[r] # "created" => file[r] = "none"

DiskIsMem == (\A r \in Puts : pc[r] # "renamed") => load_host_config(disk) = mem

ConfigInv == TypeOK /\ PersistSteps /\ DiskIsMem

LEMMA ConfigStep ==
  ASSUME OnePut, ConfigInv, [Next]_vars
  PROVE  ConfigInv'
<1>0. /\ Default \in Configs
      /\ Configs \cap {Invalid, Absent, Empty, Torn} = {}
  BY ConfigAssumption
<1>. USE <1>0 DEF ConfigInv
<1>1. ASSUME NEW r \in Puts, NEW c \in Configs \cup {Invalid}, Put(r, c)
      PROVE  ConfigInv'
  BY <1>1 DEF Put, OnePut, TypeOK, PersistSteps, DiskIsMem, Content, load_host_config
<1>2. ASSUME NEW r \in Puts, Create(r)
      PROVE  ConfigInv'
  BY <1>2 DEF Create, OnePut, TypeOK, PersistSteps, DiskIsMem, Content, load_host_config
<1>3. ASSUME NEW r \in Puts, WriteFile(r)
      PROVE  ConfigInv'
  BY <1>3 DEF WriteFile, Fill, OnePut, TypeOK, PersistSteps, DiskIsMem, Content, load_host_config
<1>4. ASSUME NEW r \in Puts, PersistFails(r)
      PROVE  ConfigInv'
  BY <1>4 DEF PersistFails, Fill, Idle, OnePut, TypeOK, PersistSteps, DiskIsMem, Content, load_host_config
<1>5. ASSUME NEW r \in Puts, Rename(r)
      PROVE  ConfigInv'
  BY <1>5 DEF Rename, OnePut, TypeOK, PersistSteps, DiskIsMem, Content, load_host_config
<1>6. ASSUME NEW r \in Puts, Serve(r)
      PROVE  ConfigInv'
  BY <1>6 DEF Serve, Idle, OnePut, TypeOK, PersistSteps, DiskIsMem, Content, load_host_config
<1>7. CASE Restart
  BY <1>7 DEF Restart, TypeOK, PersistSteps, DiskIsMem, Content, load_host_config
<1>8. CASE UNCHANGED vars
  BY <1>8 DEF vars, TypeOK, PersistSteps, DiskIsMem, Content, load_host_config
<1>. QED
  BY <1>1, <1>2, <1>3, <1>4, <1>5, <1>6, <1>7, <1>8 DEF Next

LEMMA ConfigInitially == Init => ConfigInv
  BY ConfigAssumption DEF Init, ConfigInv, TypeOK, PersistSteps, DiskIsMem, Content, load_host_config

\* With one PUT at a time the host serves what a restart would serve, although
\* any system call may be refused and the host may die between any two of them.
THEOREM ConfigStoredIsServed ==
  ASSUME OnePut PROVE Spec => []StoredIsServed
<1>1. ConfigInv /\ [Next]_vars => ConfigInv'
  BY ConfigStep
<1>2. ConfigInv => StoredIsServed
  BY DEF ConfigInv, DiskIsMem, StoredIsServed, Quiescent
<1>. QED
  BY ConfigInitially, <1>1, <1>2, PTL DEF Spec

\* With one PUT at a time a host that dies in persist_host_config comes back with
\* the configuration it served or with the one that was being stored.
THEOREM ConfigRestartKeepsConfig ==
  ASSUME OnePut PROVE Spec => RestartKeepsConfig
<1>1. ConfigInv /\ [Next]_vars => ConfigInv'
  BY ConfigStep
<1>2. ConfigInv /\ Restart => mem' \in {mem} \cup {cfg[r] : r \in {q \in Puts : pc[q] # "idle"}}
  <2>. SUFFICES ASSUME ConfigInv, Restart
                PROVE  mem' \in {mem} \cup {cfg[r] : r \in {q \in Puts : pc[q] # "idle"}}
    OBVIOUS
  <2>1. CASE \A r \in Puts : pc[r] # "renamed"
    BY <2>1 DEF ConfigInv, DiskIsMem, Restart
  <2>2. ASSUME NEW r \in Puts, pc[r] = "renamed"
        PROVE  mem' = cfg[r]
    BY <2>2 DEF ConfigInv, PersistSteps, TypeOK, Restart, load_host_config
  <2>. QED
    BY <2>1, <2>2
<1>. QED
  BY ConfigInitially, <1>1, <1>2, PTL DEF Spec, RestartKeepsConfig
-----------------------------------------------------------------------------
(***************************************************************************)
(* The log files.                                                          *)
(***************************************************************************)

\* The two parts of KeptIsRecent that survive every fault.
LinesOrdered ==
  \A i, j \in Files : \A k \in DOMAIN logs[i], l \in DOMAIN logs[j] :
    i > j \/ (i = j /\ k < l) => logs[i][k] < logs[j][l]

NoneMissing == \A m, n \in 1 .. lines : m < n /\ Kept(m) => Kept(n)

LinesWritten == \A i \in Files : \A k \in DOMAIN logs[i] : logs[i][k] <= lines

\* The open file is the youngest there is, so that a line is appended after all
\* the others and a rename never removes the open file.
HandleYoungest == handle \in Files /\ \A j \in Files : j >= handle

\* A rename overwrites nothing but the oldest archive: the round before has made
\* room for it.  There is a line to be written.
RoomToMove ==
  /\ at = "shifting" /\ index < History - 1 => index + 1 \notin Files
  /\ at = "opening" => 0 \notin Files
  /\ at # "idle" => lines < MaxLines

\* What is not there has no bytes.
NoFileNoBytes == \A i \in (0 .. History) \ Files : bytes[i] = 0

\* An archive was full when it became one, and only a full file is rotated.
ArchivesFull ==
  /\ \A i \in Files : i # 0 => bytes[i] >= Full
  /\ at = "shifting" => bytes[handle] >= Full

SizesInv == NoFileNoBytes /\ ArchivesFull

\* Unless a rename or an open was refused the log itself is open, and below its
\* limit when a line is written.
LogOpen ==
  fault # "refusal" =>
    /\ \A i \in Files : bytes[i] < Full + MaxLine
    /\ handle = IF at = "opening" THEN 1 ELSE 0
    /\ at = "writing" => bytes[handle] < Full

\* Where a rotation may leave a hole.
Hole(i) == \/ at = "shifting" /\ i = index + 1
           \/ at = "opening" /\ i = 0

\* There is no hole but the one that a rotation moves down.
NoHole == \A i \in Files : \A j \in 0 .. History : j < i => j \in Files \/ Hole(j)

\* Lines are lost only when all archives are there.
NothingLost == lines = 0 \/ Kept(1) \/ History \in Files

\* What an interrupted rotation disturbs.
Layout == fault = "none" => NoHole /\ NothingLost

\* What holds of the lines in the files, whatever happens to a rotation.
LinesInv == LinesOrdered /\ NoneMissing /\ LinesWritten /\ HandleYoungest

LogInv == LogTypeOK /\ LinesInv /\ RoomToMove /\ SizesInv /\ LogOpen /\ Layout

LEMMA FilesAreSequences ==
  ASSUME LogTypeOK, NEW i \in Files
  PROVE  /\ i \in 0 .. History
         /\ logs[i] \in Seq(1 .. MaxLines)
         /\ Len(logs[i]) \in Nat
         /\ DOMAIN logs[i] = 1 .. Len(logs[i])
         /\ \A k \in DOMAIN logs[i] : logs[i][k] \in 1 .. MaxLines
<1>1. i \in 0 .. History /\ logs[i] \in Seq(1 .. MaxLines)
  BY DEF LogTypeOK, Files
<1>2. Len(logs[i]) \in Nat /\ DOMAIN logs[i] = 1 .. Len(logs[i])
  BY <1>1
<1>3. \A k \in 1 .. Len(logs[i]) : logs[i][k] \in 1 .. MaxLines
  BY <1>1, ElementOfSeq
<1>. QED
  BY <1>1, <1>2, <1>3, Zenon

\* A rename that overwrites at most the oldest archive.
LEMMA MoveKeeps ==
  ASSUME LogTypeOK, LinesInv, UNCHANGED lines,
         NEW i \in 0 .. History - 1, i \in Files, Moved(i),
         i + 1 \notin Files \/ i + 1 = History
  PROVE  /\ logs' \in [0 .. History -> Seq(1 .. MaxLines) \cup {NoFile}]
         /\ handle' \in 0 .. History
         /\ LinesInv'
         /\ Files' = (Files \ {i}) \cup {i + 1}
         /\ \A j \in Files' : logs'[j] = logs[IF j = i + 1 THEN i ELSE j]
         /\ bytes' \in [0 .. History -> Nat]
         /\ \A j \in 0 .. History :
              bytes'[j] = IF j = i THEN 0 ELSE bytes[IF j = i + 1 THEN i ELSE j]
         /\ i + 1 \notin Files => \A n : Kept(n) => Kept(n)'
<1>. DEFINE Src(j) == IF j = i + 1 THEN i ELSE j
<1>0. History \in Nat \ {0} /\ NoFile \notin Seq(1 .. MaxLines)
  BY LogAssumption
<1>1. /\ logs' \in [0 .. History -> Seq(1 .. MaxLines) \cup {NoFile}]
      /\ handle' \in 0 .. History
  BY <1>0 DEF Moved, LogTypeOK, Files
<1>2. \A j \in 0 .. History : logs'[j] = IF j = i THEN NoFile ELSE logs[Src(j)]
  BY <1>0 DEF Moved, LogTypeOK
<1>3. Files' = (Files \ {i}) \cup {i + 1}
  BY <1>0, <1>2 DEF Files
<1>4. \A j \in Files' : /\ j \in 0 .. History /\ j # i
                        /\ Src(j) \in Files /\ Src(j) # i + 1 /\ logs'[j] = logs[Src(j)]
  BY <1>0, <1>2, <1>3 DEF Files
<1>5. \A j, k \in Files' : (j > k => Src(j) > Src(k)) /\ (j = k => Src(j) = Src(k))
  <2>. SUFFICES ASSUME NEW j \in Files', NEW k \in Files'
                PROVE  (j > k => Src(j) > Src(k)) /\ (j = k => Src(j) = Src(k))
    OBVIOUS
  <2>1. j \in 0 .. History /\ k \in 0 .. History /\ j # i /\ k # i
    BY <1>4
  <2>. QED
    BY <1>0, <2>1
<1>6. LinesOrdered'
  <2>. SUFFICES ASSUME NEW f \in Files', NEW g \in Files',
                       NEW k \in DOMAIN logs'[f], NEW l \in DOMAIN logs'[g],
                       f > g \/ (f = g /\ k < l)
                PROVE  logs'[f][k] < logs'[g][l]
    BY DEF LinesOrdered
  <2>. HIDE DEF Src
  <2>. QED
    BY <1>4, <1>5 DEF LinesInv, LinesOrdered
<1>7. \A n : Kept(n)' => \E f \in Files \ {i + 1} : \E k \in DOMAIN logs[f] : logs[f][k] = n
  <2>. HIDE DEF Src
  <2>. QED
    BY <1>4 DEF Kept
<1>8. \A n, f : f \in Files \ {i + 1} /\ (\E k \in DOMAIN logs[f] : logs[f][k] = n) => Kept(n)'
  <2>. SUFFICES ASSUME NEW n, NEW f \in Files \ {i + 1}, NEW k \in DOMAIN logs[f], logs[f][k] = n
                PROVE  \E g \in Files' : \E l \in DOMAIN logs'[g] : logs'[g][l] = n
    BY DEF Kept
  <2>1. CASE f = i
    <3>1. i + 1 \in Files' /\ logs'[i + 1] = logs[f]
      BY <1>0, <1>2, <1>3, <2>1
    <3>. QED
      BY <3>1
  <2>2. CASE f # i
    <3>1. f \in Files' /\ logs'[f] = logs[f]
      BY <1>0, <1>2, <1>3, <2>2 DEF Files
    <3>. QED
      BY <3>1
  <2>. QED
    BY <2>1, <2>2
<1>9. NoneMissing'
  <2>. SUFFICES ASSUME NEW m \in 1 .. lines, NEW n \in 1 .. lines, m < n, Kept(m)'
                PROVE  Kept(n)'
    BY DEF NoneMissing
  <2>1. PICK f \in Files \ {i + 1} : \E k \in DOMAIN logs[f] : logs[f][k] = m
    BY <1>7
  <2>2. PICK k \in DOMAIN logs[f] : logs[f][k] = m
    BY <2>1
  <2>3. Kept(m) /\ Kept(n)
    BY <2>1 DEF LinesInv, NoneMissing, Kept
  <2>4. PICK g \in Files : \E l \in DOMAIN logs[g] : logs[g][l] = n
    BY <2>3 DEF Kept
  <2>5. PICK l \in DOMAIN logs[g] : logs[g][l] = n
    BY <2>4
  <2>6. g # i + 1
    <3>. SUFFICES ASSUME g = i + 1
                  PROVE  FALSE
      OBVIOUS
    <3>1. g > f
      BY <1>0 DEF Files
    <3>2. n < m
      BY <3>1, <2>2, <2>5 DEF LinesInv, LinesOrdered
    <3>. QED
      BY <3>2 DEF LogTypeOK
  <2>. QED
    BY <1>8, <2>4, <2>6
<1>10. LinesWritten'
  <2>. HIDE DEF Src
  <2>. QED
    BY <1>4 DEF LinesInv, LinesWritten
<1>11. HandleYoungest'
  BY <1>0, <1>3 DEF LinesInv, HandleYoungest, Moved, Files, LogTypeOK
<1>12. i + 1 \notin Files => \A n : Kept(n) => Kept(n)'
  BY <1>8 DEF Kept
<1>13. /\ bytes' \in [0 .. History -> Nat]
       /\ \A j \in 0 .. History :
            bytes'[j] = IF j = i THEN 0 ELSE bytes[IF j = i + 1 THEN i ELSE j]
  BY <1>0 DEF Moved, LogTypeOK
<1>. QED
  BY <1>1, <1>3, <1>4, <1>6, <1>9, <1>10, <1>11, <1>12, <1>13 DEF LinesInv

\* open_log_file adds at most an empty file.
LEMMA OpenKeeps ==
  ASSUME LogTypeOK, LinesInv, UNCHANGED lines, logs' = Opened, handle' = 0
  PROVE  /\ logs' \in [0 .. History -> Seq(1 .. MaxLines) \cup {NoFile}]
         /\ LinesInv'
         /\ Files' = Files \cup {0}
         /\ \A j \in Files : logs'[j] = logs[j]
         /\ 0 \notin Files => logs'[0] = <<>>
<1>0. History \in Nat \ {0} /\ NoFile \notin Seq(1 .. MaxLines)
  BY LogAssumption
<1>e. <<>> \in Seq(1 .. MaxLines) /\ DOMAIN <<>> = {}
  OBVIOUS
<1>1. logs' \in [0 .. History -> Seq(1 .. MaxLines) \cup {NoFile}]
  BY <1>0, <1>e DEF Opened, LogTypeOK
<1>2. /\ \A j \in Files : logs'[j] = logs[j]
      /\ Files' = Files \cup {0}
      /\ 0 \notin Files => logs'[0] = <<>>
  <2>1. /\ \A j \in 0 .. History : j # 0 => logs'[j] = logs[j]
        /\ logs'[0] = IF logs[0] = NoFile THEN <<>> ELSE logs[0]
        /\ 0 \in 0 .. History
    BY <1>0 DEF Opened, LogTypeOK
  <2>. QED
    BY <1>0, <1>e, <2>1 DEF Files
<1>3. \A j \in Files' : \A k \in DOMAIN logs'[j] : j \in Files /\ logs'[j] = logs[j]
  BY <1>2, <1>e
<1>4. \A n : Kept(n)' <=> Kept(n)
  BY <1>2, <1>3 DEF Kept
<1>5. LinesOrdered' /\ LinesWritten'
  BY <1>3 DEF LinesInv, LinesOrdered, LinesWritten
<1>6. NoneMissing'
  BY <1>4 DEF LinesInv, NoneMissing
<1>7. HandleYoungest'
  BY <1>0, <1>2 DEF HandleYoungest, Files
<1>. QED
  BY <1>1, <1>2, <1>5, <1>6, <1>7 DEF LinesInv

\* A line goes to the end of the youngest file.
LEMMA WriteKeeps ==
  ASSUME LogTypeOK, LinesInv, WriteLine, lines < MaxLines
  PROVE  /\ logs' \in [0 .. History -> Seq(1 .. MaxLines) \cup {NoFile}]
         /\ LinesInv'
         /\ Files' = Files
         /\ \A j \in Files : j # handle => logs'[j] = logs[j]
         /\ Len(logs'[handle]) = Len(logs[handle]) + 1
         /\ \A k \in DOMAIN logs[handle] : k \in DOMAIN logs'[handle] /\ logs'[handle][k] = logs[handle][k]
         /\ \A n : Kept(n)' <=> Kept(n) \/ n = lines + 1
         /\ logs'[handle][Len(logs[handle]) + 1] = lines + 1
         /\ bytes' \in [0 .. History -> Nat]
         /\ \A j \in 0 .. History : j # handle => bytes'[j] = bytes[j]
         /\ bytes'[handle] > bytes[handle] /\ bytes'[handle] <= bytes[handle] + MaxLine
<1>0. History \in Nat \ {0} /\ MaxLines \in Nat /\ NoFile \notin Seq(1 .. MaxLines)
  BY LogAssumption
<1>. DEFINE old == logs[handle]  new == Append(old, lines + 1)
<1>1. handle \in Files /\ old \in Seq(1 .. MaxLines) /\ lines + 1 \in 1 .. MaxLines
  BY <1>0, FilesAreSequences DEF LinesInv, HandleYoungest, LogTypeOK
<1>2. /\ new \in Seq(1 .. MaxLines) /\ Len(new) = Len(old) + 1 /\ Len(old) \in Nat
      /\ DOMAIN old = 1 .. Len(old) /\ DOMAIN new = 1 .. Len(old) + 1
      /\ \A k \in 1 .. Len(old) : new[k] = old[k]
      /\ new[Len(old) + 1] = lines + 1
  BY <1>1
<1>. HIDE DEF new
<1>3. logs' = [logs EXCEPT ![handle] = new] /\ handle \in 0 .. History
  BY <1>1 DEF WriteLine, new, Files
<1>4. logs' \in [0 .. History -> Seq(1 .. MaxLines) \cup {NoFile}]
  BY <1>2, <1>3 DEF LogTypeOK
<1>5. /\ logs'[handle] = new
      /\ \A j \in 0 .. History : j # handle => logs'[j] = logs[j]
  BY <1>3 DEF LogTypeOK
<1>6. Files' = Files
  BY <1>0, <1>1, <1>2, <1>5 DEF Files
<1>7. \A j \in Files : /\ j # handle => logs'[j] = logs[j]
                       /\ \A k \in DOMAIN logs[j] : k \in DOMAIN logs'[j] /\ logs'[j][k] = logs[j][k]
                       /\ \A k \in DOMAIN logs'[j] :
                            \/ k \in DOMAIN logs[j] /\ logs'[j][k] = logs[j][k]
                            \/ j = handle /\ k = Len(old) + 1 /\ logs'[j][k] = lines + 1
  BY <1>2, <1>5 DEF Files
<1>8. Len(old) + 1 \in DOMAIN logs'[handle] /\ logs'[handle][Len(old) + 1] = lines + 1
  BY <1>2, <1>5
<1>. HIDE DEF old
<1>9. \A n : Kept(n)' <=> Kept(n) \/ n = lines + 1
  BY <1>1, <1>6, <1>7, <1>8 DEF Kept
<1>10. LinesWritten'
  <2>. SUFFICES ASSUME NEW f \in Files, NEW k \in DOMAIN logs'[f]
                PROVE  logs'[f][k] <= lines + 1
    BY <1>6 DEF LinesWritten, WriteLine
  <2>1. CASE k \in DOMAIN logs[f] /\ logs'[f][k] = logs[f][k]
    <3>1. logs[f][k] \in 1 .. MaxLines /\ logs[f][k] <= lines
      BY <2>1, FilesAreSequences DEF LinesInv, LinesWritten
    <3>. QED
      BY <3>1, <2>1, <1>0 DEF LogTypeOK
  <2>. QED
    BY <1>7, <2>1, <1>0 DEF LogTypeOK
<1>11. LinesOrdered'
  <2>. SUFFICES ASSUME NEW f \in Files, NEW g \in Files,
                       NEW k \in DOMAIN logs'[f], NEW l \in DOMAIN logs'[g],
                       f > g \/ (f = g /\ k < l)
                PROVE  logs'[f][k] < logs'[g][l]
    BY <1>6 DEF LinesOrdered
  <2>1. k \in DOMAIN logs[f] /\ logs'[f][k] = logs[f][k]
    <3>. SUFFICES ASSUME f = handle, k = Len(old) + 1
                  PROVE  FALSE
      BY <1>7
    <3>1. f = g
      BY <1>1, <1>3 DEF LinesInv, HandleYoungest, Files
    <3>2. l \in 1 .. Len(old) + 1
      BY <3>1, <1>5, <1>2
    <3>3. Len(old) \in Nat /\ f \in Int /\ k < l
      BY <3>1, <1>2, <1>3 DEF old
    <3>. QED
      BY <3>2, <3>3
  <2>2. CASE l \in DOMAIN logs[g] /\ logs'[g][l] = logs[g][l]
    BY <2>1, <2>2 DEF LinesInv, LinesOrdered
  <2>3. CASE logs'[g][l] = lines + 1
    <3>1. logs[f][k] \in 1 .. MaxLines /\ logs[f][k] <= lines
      BY <2>1, FilesAreSequences DEF LinesInv, LinesWritten
    <3>. QED
      BY <3>1, <2>1, <2>3, <1>0 DEF LogTypeOK
  <2>. QED
    BY <2>2, <2>3, <1>7
<1>12. NoneMissing'
  <2>. SUFFICES ASSUME NEW m \in 1 .. lines + 1, NEW n \in 1 .. lines + 1, m < n, Kept(m)'
                PROVE  Kept(n)'
    BY DEF NoneMissing, WriteLine
  <2>1. lines \in Nat
    BY <1>0 DEF LogTypeOK
  <2>2. m \in 1 .. lines /\ Kept(m)
    BY <2>1, <1>9
  <2>3. CASE n \in 1 .. lines
    BY <2>2, <2>3, <1>9 DEF LinesInv, NoneMissing
  <2>4. CASE n = lines + 1
    BY <2>4, <1>9
  <2>. QED
    BY <2>1, <2>3, <2>4
<1>13. HandleYoungest'
  BY <1>6 DEF LinesInv, HandleYoungest, WriteLine
<1>14. /\ Len(logs'[handle]) = Len(logs[handle]) + 1
       /\ logs'[handle][Len(logs[handle]) + 1] = lines + 1
  BY <1>2, <1>5 DEF old
<1>15. /\ bytes' \in [0 .. History -> Nat]
       /\ \A j \in 0 .. History : j # handle => bytes'[j] = bytes[j]
       /\ bytes'[handle] > bytes[handle] /\ bytes'[handle] <= bytes[handle] + MaxLine
  <2>1. PICK n \in 1 .. MaxLine : bytes' = [bytes EXCEPT ![handle] = @ + n]
    BY DEF WriteLine
  <2>2. bytes \in [0 .. History -> Nat] /\ handle \in 0 .. History /\ MaxLine \in Nat
    BY LogAssumption DEF LogTypeOK
  <2>. QED
    BY <2>1, <2>2
<1>. QED
  BY <1>1, <1>4, <1>6, <1>7, <1>9, <1>10, <1>11, <1>12, <1>13, <1>14, <1>15 DEF LinesInv

LEMMA SameLines ==
  ASSUME LinesInv, UNCHANGED <<logs, handle, lines>>
  PROVE  LinesInv' /\ Files' = Files /\ \A n : Kept(n)' <=> Kept(n)
  BY DEF LinesInv, LinesOrdered, NoneMissing, LinesWritten, HandleYoungest, Files, Kept

\* The open file has a length.
LEMMA OpenFileLength ==
  ASSUME LogTypeOK, LinesInv
  PROVE  /\ handle \in Files /\ handle \in 0 .. History /\ Files \subseteq 0 .. History
         /\ bytes[handle] \in Nat
  BY DEF LinesInv, HandleYoungest, LogTypeOK, Files

\* A rotation and its faults keep the lines in order.
LEMMA LinesStep ==
  ASSUME LogInv, LogNext
  PROVE  LogTypeOK' /\ LinesInv' /\ RoomToMove'
<1>0. /\ History \in Nat \ {0} /\ Full \in Nat \ {0} /\ MaxLines \in Nat
      /\ NoFile \notin Seq(1 .. MaxLines)
  BY LogAssumption
<1>. USE DEF LogInv
<1>1. CASE LogCall
  BY <1>0, <1>1, SameLines DEF LogCall, LogTypeOK, RoomToMove
<1>2. CASE ShiftArchive
  <2>0. index \in 0 .. History - 1 /\ index \in 0 .. History /\ index > 0 /\ index - 1 \in 0 .. History - 1
    BY <1>0, <1>2 DEF ShiftArchive, LogTypeOK
  <2>1. CASE index \in Files
    <3>1. Moved(index) /\ UNCHANGED lines
      BY <1>2, <2>1 DEF ShiftArchive, Files
    <3>2. index + 1 \notin Files \/ index + 1 = History
      BY <1>0, <1>2, <2>0 DEF RoomToMove, ShiftArchive
    <3>3. /\ logs' \in [0 .. History -> Seq(1 .. MaxLines) \cup {NoFile}]
          /\ handle' \in 0 .. History
          /\ LinesInv'
          /\ Files' = (Files \ {index}) \cup {index + 1}
          /\ bytes' \in [0 .. History -> Nat]
      BY <2>0, <2>1, <3>1, <3>2, MoveKeeps
    <3>. QED
      BY <1>0, <1>2, <2>0, <3>3 DEF ShiftArchive, LogTypeOK, RoomToMove
  <2>2. CASE index \notin Files
    <3>1. UNCHANGED <<logs, bytes, handle, lines>>
      BY <1>2, <2>0, <2>2 DEF ShiftArchive, Files
    <3>. QED
      BY <1>0, <1>2, <2>0, <2>2, <3>1, SameLines DEF ShiftArchive, LogTypeOK, RoomToMove
  <2>. QED
    BY <2>1, <2>2
<1>3. CASE ShiftLog
  <2>0. 0 \in 0 .. History - 1 /\ 0 \in 0 .. History /\ index = 0
    BY <1>0, <1>3 DEF ShiftLog
  <2>1. CASE 0 \in Files
    <3>1. Moved(0) /\ UNCHANGED lines
      BY <1>3, <2>1 DEF ShiftLog, Files
    <3>2. 0 + 1 \notin Files \/ 0 + 1 = History
      BY <1>0, <1>3, <2>0 DEF RoomToMove, ShiftLog
    <3>3. /\ logs' \in [0 .. History -> Seq(1 .. MaxLines) \cup {NoFile}]
          /\ handle' \in 0 .. History
          /\ LinesInv'
          /\ Files' = (Files \ {0}) \cup {0 + 1}
          /\ bytes' \in [0 .. History -> Nat]
      BY <2>0, <2>1, <3>1, <3>2, MoveKeeps
    <3>4. at = "shifting" /\ at' = "opening" /\ UNCHANGED <<index, lines, fault>>
      BY <1>3, <2>1 DEF ShiftLog, Files
    <3>5. LogTypeOK'
      BY <3>3, <3>4 DEF LogTypeOK
    <3>6. RoomToMove'
      BY <3>3, <3>4 DEF RoomToMove
    <3>. QED
      BY <3>3, <3>5, <3>6
  <2>2. CASE 0 \notin Files
    <3>1. UNCHANGED <<logs, bytes, handle, lines>> /\ at' = "writing"
      BY <1>3, <2>0, <2>2 DEF ShiftLog, Files
    <3>. QED
      BY <1>0, <1>3, <2>0, <3>1, SameLines DEF ShiftLog, LogTypeOK, RoomToMove
  <2>. QED
    BY <2>1, <2>2
<1>4. CASE OpenLog
  <2>1. logs' \in [0 .. History -> Seq(1 .. MaxLines) \cup {NoFile}] /\ LinesInv'
    BY <1>4, OpenKeeps DEF OpenLog
  <2>. QED
    BY <1>0, <1>4, <2>1 DEF OpenLog, LogTypeOK, RoomToMove
<1>5. CASE RotateFails
  BY <1>0, <1>5, SameLines DEF RotateFails, LogTypeOK, RoomToMove
<1>6. CASE WriteLine
  <2>0. lines < MaxLines
    BY <1>6 DEF WriteLine, RoomToMove
  <2>1. /\ logs' \in [0 .. History -> Seq(1 .. MaxLines) \cup {NoFile}] /\ LinesInv'
        /\ bytes' \in [0 .. History -> Nat]
    BY <1>6, <2>0, WriteKeeps
  <2>. QED
    BY <1>0, <1>6, <2>0, <2>1 DEF WriteLine, LogTypeOK, RoomToMove
<1>7. CASE LogRestart
  <2>1. logs' \in [0 .. History -> Seq(1 .. MaxLines) \cup {NoFile}] /\ LinesInv'
    BY <1>7, OpenKeeps DEF LogRestart
  <2>. QED
    BY <1>0, <1>7, <2>1 DEF LogRestart, LogTypeOK, RoomToMove
<1>8. CASE WriteRefused
  BY <1>0, <1>8, SameLines DEF WriteRefused, LogTypeOK, RoomToMove
<1>. QED
  BY <1>1, <1>2, <1>3, <1>4, <1>5, <1>6, <1>7, <1>8 DEF LogNext

\* What a rename does to the sizes.
LEMMA MoveSizes ==
  ASSUME LogTypeOK, LinesInv, SizesInv, UNCHANGED lines,
         NEW i \in 0 .. History - 1, i \in Files, Moved(i),
         i + 1 \notin Files \/ i + 1 = History, i # 0 \/ bytes[0] >= Full
  PROVE  /\ NoFileNoBytes'
         /\ \A j \in Files' : j # 0 => bytes'[j] >= Full
         /\ bytes'[handle'] = bytes[handle]
         /\ \A j \in Files' : \E f \in Files : bytes'[j] = bytes[f]
<1>0. History \in Nat \ {0}
  BY LogAssumption
<1>1. /\ Files' = (Files \ {i}) \cup {i + 1}
      /\ \A j \in 0 .. History : bytes'[j] = IF j = i THEN 0 ELSE bytes[IF j = i + 1 THEN i ELSE j]
  BY MoveKeeps
<1>2. Files \subseteq 0 .. History /\ Files' \subseteq 0 .. History /\ handle \in Files
  BY DEF Files, LinesInv, HandleYoungest
<1>3. NoFileNoBytes'
  <2>. SUFFICES ASSUME NEW j \in (0 .. History) \ Files' PROVE bytes'[j] = 0
    BY DEF NoFileNoBytes
  <2>1. j = i \/ (j # i /\ j # i + 1 /\ j \notin Files)
    BY <1>1
  <2>. QED
    BY <1>1, <2>1 DEF SizesInv, NoFileNoBytes
<1>4. i \in Nat /\ i + 1 \in 0 .. History /\ i # i + 1
  BY <1>0
<1>5. bytes'[i + 1] = bytes[i] /\ \A j \in Files' : j # i + 1 => j \in Files /\ bytes'[j] = bytes[j]
  BY <1>1, <1>2, <1>4
<1>6. \A j \in Files' : j # 0 => bytes'[j] >= Full
  BY <1>5 DEF SizesInv, ArchivesFull
<1>7. \A j \in Files' : \E f \in Files : bytes'[j] = bytes[f]
  BY <1>5
<1>8. bytes'[handle'] = bytes[handle]
  <2>1. CASE handle = i
    BY <1>5, <2>1 DEF Moved
  <2>2. CASE handle # i
    <3>1. handle' = handle
      BY <2>2 DEF Moved
    <3>2. handle # i + 1
      BY <1>2, <1>4, <2>2 DEF LinesInv, HandleYoungest
    <3>. QED
      BY <1>1, <1>2, <2>2, <3>1, <3>2
  <2>. QED
    BY <2>1, <2>2
<1>. QED
  BY <1>3, <1>6, <1>7, <1>8

\* Only full files become archives, whatever befalls a rotation.
LEMMA SizesStep ==
  ASSUME LogInv, LogNext
  PROVE  SizesInv'
<1>0. History \in Nat \ {0} /\ Full \in Nat \ {0}
  BY LogAssumption
<1>. USE DEF LogInv
<1>h. /\ handle \in Files /\ handle \in 0 .. History /\ Files \subseteq 0 .. History
      /\ bytes[handle] \in Nat
  BY OpenFileLength
<1>1. CASE LogCall
  <2>1. UNCHANGED <<logs, bytes, handle>> /\ Files' = Files
    BY <1>1 DEF LogCall, Files
  <2>2. at' = "shifting" => bytes[handle] >= Full
    BY <1>1 DEF LogCall
  <2>. QED
    BY <2>1, <2>2 DEF SizesInv, NoFileNoBytes, ArchivesFull
<1>2. CASE ShiftArchive
  <2>0. /\ index \in 0 .. History - 1 /\ index \in 0 .. History /\ index # 0
        /\ at = "shifting" /\ UNCHANGED lines
    BY <1>0, <1>2 DEF ShiftArchive, LogTypeOK
  <2>1. CASE index \in Files
    <3>1. Moved(index)
      BY <1>2, <2>1 DEF ShiftArchive, Files
    <3>2. index + 1 \notin Files \/ index + 1 = History
      BY <1>0, <2>0 DEF RoomToMove
    <3>3. NoFileNoBytes' /\ (\A j \in Files' : j # 0 => bytes'[j] >= Full) /\ bytes'[handle'] = bytes[handle]
      BY <2>0, <2>1, <3>1, <3>2, MoveSizes
    <3>. QED
      BY <2>0, <3>3 DEF SizesInv, ArchivesFull
  <2>2. CASE index \notin Files
    <3>1. UNCHANGED <<logs, bytes, handle>> /\ Files' = Files
      BY <1>2, <2>0, <2>2 DEF ShiftArchive, Files
    <3>. QED
      BY <2>0, <3>1 DEF SizesInv, NoFileNoBytes, ArchivesFull
  <2>. QED
    BY <2>1, <2>2
<1>3. CASE ShiftLog
  <2>0. 0 \in 0 .. History - 1 /\ 0 \in 0 .. History /\ index = 0 /\ at = "shifting" /\ UNCHANGED lines
    BY <1>0, <1>3 DEF ShiftLog
  <2>1. CASE 0 \in Files
    <3>1. Moved(0) /\ at' = "opening"
      BY <1>3, <2>1 DEF ShiftLog, Files
    <3>2. 0 + 1 \notin Files \/ 0 + 1 = History
      BY <1>0, <2>0 DEF RoomToMove
    <3>3. handle = 0
      BY <1>h, <2>1 DEF LinesInv, HandleYoungest
    <3>4. bytes[0] >= Full
      BY <2>0, <3>3 DEF SizesInv, ArchivesFull
    <3>5. NoFileNoBytes' /\ (\A j \in Files' : j # 0 => bytes'[j] >= Full)
      BY <2>0, <2>1, <3>1, <3>2, <3>4, MoveSizes
    <3>. QED
      BY <3>1, <3>5 DEF SizesInv, ArchivesFull
  <2>2. CASE 0 \notin Files
    <3>1. UNCHANGED <<logs, bytes, handle>> /\ Files' = Files /\ at' = "writing"
      BY <1>3, <2>0, <2>2 DEF ShiftLog, Files
    <3>. QED
      BY <3>1 DEF SizesInv, NoFileNoBytes, ArchivesFull
  <2>. QED
    BY <2>1, <2>2
<1>4. CASE OpenLog \/ LogRestart
  <2>1. Files' = Files \cup {0} /\ UNCHANGED bytes /\ at' \in {"idle", "writing"}
    BY <1>4, OpenKeeps DEF OpenLog, LogRestart
  <2>. QED
    BY <2>1 DEF SizesInv, NoFileNoBytes, ArchivesFull
<1>5. CASE RotateFails \/ WriteRefused
  <2>1. UNCHANGED <<logs, bytes, handle>> /\ Files' = Files /\ at' \in {"idle", "writing"}
    BY <1>5 DEF RotateFails, WriteRefused, Files
  <2>. QED
    BY <2>1 DEF SizesInv, NoFileNoBytes, ArchivesFull
<1>6. CASE WriteLine
  <2>0. lines < MaxLines /\ at' = "idle"
    BY <1>6 DEF WriteLine, RoomToMove
  <2>1. /\ Files' = Files /\ bytes' \in [0 .. History -> Nat]
        /\ \A j \in 0 .. History : j # handle => bytes'[j] = bytes[j]
        /\ bytes'[handle] > bytes[handle]
    BY <1>6, <2>0, WriteKeeps
  <2>2. NoFileNoBytes'
    BY <1>h, <2>1 DEF SizesInv, NoFileNoBytes
  <2>3. handle # 0 => bytes'[handle] >= Full
    <3>1. handle # 0 => bytes[handle] >= Full
      BY <1>h DEF SizesInv, ArchivesFull
    <3>. QED
      BY <1>0, <1>h, <2>1, <3>1
  <2>4. \A j \in Files : j # 0 => bytes'[j] >= Full
    BY <1>h, <2>1, <2>3 DEF SizesInv, ArchivesFull
  <2>. QED
    BY <2>0, <2>1, <2>2, <2>4 DEF SizesInv, ArchivesFull
<1>. QED
  BY <1>1, <1>2, <1>3, <1>4, <1>5, <1>6 DEF LogNext

\* As long as nothing is refused the log is open and no file passes its limit by a
\* whole line.
LEMMA LogOpenStep ==
  ASSUME LogInv, LogNext, SizesInv'
  PROVE  LogOpen'
<1>0. History \in Nat \ {0} /\ Full \in Nat \ {0} /\ MaxLine \in Nat \ {0}
  BY LogAssumption
<1>. USE DEF LogInv
<1>. SUFFICES ASSUME fault' # "refusal"
              PROVE  /\ \A i \in Files' : bytes'[i] < Full + MaxLine
                     /\ handle' = IF at' = "opening" THEN 1 ELSE 0
                     /\ at' = "writing" => bytes'[handle'] < Full
  BY DEF LogOpen
<1>f. fault # "refusal"
  BY DEF LogNext, LogCall, ShiftArchive, ShiftLog, OpenLog, RotateFails, WriteLine, WriteRefused,
         LogRestart
<1>g. /\ \A i \in Files : bytes[i] < Full + MaxLine
      /\ handle = IF at = "opening" THEN 1 ELSE 0
      /\ at = "writing" => bytes[handle] < Full
  BY <1>f DEF LogOpen
<1>h. /\ handle \in Files /\ handle \in 0 .. History /\ Files \subseteq 0 .. History
      /\ bytes[handle] \in Nat
  BY OpenFileLength
<1>1. CASE LogCall
  <2>1. UNCHANGED <<logs, bytes, handle>> /\ Files' = Files /\ at = "idle" /\ at' # "opening"
    BY <1>1 DEF LogCall, Files
  <2>2. at' = "writing" => bytes[handle] < Full
    BY <1>0, <1>1, <1>h DEF LogCall
  <2>. QED
    BY <1>g, <2>1, <2>2
<1>2. CASE ShiftArchive
  <2>0. /\ index \in 0 .. History - 1 /\ index \in 0 .. History /\ index # 0
        /\ at = "shifting" /\ at' = "shifting" /\ handle = 0 /\ UNCHANGED lines
    BY <1>0, <1>2, <1>g DEF ShiftArchive, LogTypeOK
  <2>1. CASE index \in Files
    <3>1. Moved(index)
      BY <1>2, <2>1 DEF ShiftArchive, Files
    <3>2. index + 1 \notin Files \/ index + 1 = History
      BY <1>0, <2>0 DEF RoomToMove
    <3>3. \A j \in Files' : \E f \in Files : bytes'[j] = bytes[f]
      BY <2>0, <2>1, <3>1, <3>2, MoveSizes
    <3>4. handle' = 0
      BY <2>0, <3>1 DEF Moved
    <3>. QED
      BY <1>g, <2>0, <3>3, <3>4
  <2>2. CASE index \notin Files
    <3>1. UNCHANGED <<logs, bytes, handle>> /\ Files' = Files
      BY <1>2, <2>0, <2>2 DEF ShiftArchive, Files
    <3>. QED
      BY <1>g, <2>0, <3>1
  <2>. QED
    BY <2>1, <2>2
<1>3. CASE ShiftLog
  <2>0. /\ 0 \in 0 .. History - 1 /\ index = 0 /\ at = "shifting" /\ handle = 0 /\ 0 \in Files
        /\ Moved(0) /\ UNCHANGED lines /\ at' = "opening"
    BY <1>0, <1>3, <1>g, <1>h DEF ShiftLog, Files
  <2>1. bytes[0] >= Full
    BY <2>0 DEF SizesInv, ArchivesFull
  <2>2. 0 + 1 \notin Files \/ 0 + 1 = History
    BY <1>0, <2>0 DEF RoomToMove
  <2>3. \A j \in Files' : \E f \in Files : bytes'[j] = bytes[f]
    BY <2>0, <2>1, <2>2, MoveSizes
  <2>4. handle' = 1
    BY <2>0 DEF Moved
  <2>. QED
    BY <1>g, <2>0, <2>3, <2>4
<1>4. CASE OpenLog \/ LogRestart
  <2>1. Files' = Files \cup {0} /\ UNCHANGED bytes /\ handle' = 0 /\ at' \in {"idle", "writing"}
    BY <1>4, OpenKeeps DEF OpenLog, LogRestart
  <2>2. 0 \in 0 .. History /\ (0 \notin Files => bytes[0] = 0)
    BY <1>0 DEF SizesInv, NoFileNoBytes
  <2>3. \A i \in Files' : bytes'[i] < Full + MaxLine
    BY <1>0, <1>g, <2>1, <2>2
  <2>4. at' = "writing" => 0 \notin Files
    BY <1>4 DEF OpenLog, LogRestart, RoomToMove
  <2>. QED
    BY <1>0, <2>1, <2>2, <2>3, <2>4
<1>5. CASE RotateFails
  BY <1>5 DEF RotateFails
<1>6. CASE WriteLine
  <2>0. lines < MaxLines /\ at = "writing" /\ at' = "idle" /\ handle' = handle
    BY <1>6 DEF WriteLine, RoomToMove
  <2>1. /\ Files' = Files /\ bytes' \in [0 .. History -> Nat]
        /\ \A j \in 0 .. History : j # handle => bytes'[j] = bytes[j]
        /\ bytes'[handle] <= bytes[handle] + MaxLine
    BY <1>6, <2>0, WriteKeeps
  <2>2. bytes'[handle] < Full + MaxLine
    <3>1. bytes[handle] < Full /\ bytes'[handle] \in Nat
      BY <1>g, <1>h, <2>0, <2>1
    <3>. QED
      BY <1>0, <1>h, <2>1, <3>1
  <2>3. \A i \in Files' : bytes'[i] < Full + MaxLine
    BY <1>g, <1>h, <2>1, <2>2
  <2>. QED
    BY <1>g, <2>0, <2>3
<1>7. CASE WriteRefused
  <2>1. UNCHANGED <<bytes, handle>> /\ Files' = Files /\ at = "writing" /\ at' = "idle"
    BY <1>7 DEF WriteRefused, Files
  <2>. QED
    BY <1>g, <2>1
<1>. QED
  BY <1>1, <1>2, <1>3, <1>4, <1>5, <1>6, <1>7 DEF LogNext

\* As long as no rotation is interrupted the archives are without a hole, and
\* nothing is lost before they are complete.
LEMMA LayoutStep ==
  ASSUME LogInv, LogNext, LogTypeOK', LinesInv'
  PROVE  Layout'
<1>0. History \in Nat \ {0}
  BY LogAssumption
<1>. USE DEF LogInv
<1>. SUFFICES ASSUME fault' = "none"
              PROVE  NoHole' /\ NothingLost'
  BY DEF Layout
<1>f. fault = "none" /\ NoHole /\ NothingLost
  BY DEF LogNext, LogCall, ShiftArchive, ShiftLog, OpenLog, RotateFails, WriteLine, WriteRefused,
         LogRestart, Layout
<1>g. handle = IF at = "opening" THEN 1 ELSE 0
  BY <1>f DEF LogOpen
<1>h. handle \in Files /\ Files \subseteq 0 .. History /\ lines \in Nat
  BY OpenFileLength DEF LogTypeOK
<1>1. CASE LogCall \/ WriteRefused
  <2>1. UNCHANGED <<logs, lines>> /\ Files' = Files /\ at \in {"idle", "writing"}
    BY <1>1 DEF LogCall, WriteRefused, Files
  <2>2. NoHole'
    BY <1>f, <2>1 DEF NoHole, Hole
  <2>3. NothingLost'
    BY <1>f, <2>1 DEF NothingLost, Kept
  <2>. QED
    BY <2>2, <2>3
<1>2. CASE ShiftArchive
  <2>0. /\ index \in 0 .. History - 1 /\ index \in 0 .. History /\ index > 0
        /\ at = "shifting" /\ at' = "shifting" /\ index' = index - 1 /\ UNCHANGED lines
    BY <1>0, <1>2 DEF ShiftArchive, LogTypeOK
  <2>n. \A i \in Files : \A j \in 0 .. History : j < i => j \in Files \/ j = index + 1
    BY <1>f, <2>0 DEF NoHole, Hole
  <2>1. CASE index \in Files
    <3>1. Moved(index)
      BY <1>2, <2>1 DEF ShiftArchive, Files
    <3>2. index + 1 \notin Files \/ index + 1 = History
      BY <1>0, <2>0 DEF RoomToMove
    <3>3. /\ Files' = (Files \ {index}) \cup {index + 1}
          /\ index + 1 \notin Files => \A n : Kept(n) => Kept(n)'
      BY <2>0, <2>1, <3>1, <3>2, MoveKeeps
    <3>4. NoHole'
      <4>. SUFFICES ASSUME NEW i \in Files', NEW j \in 0 .. History, j < i
                    PROVE  j \in Files' \/ j = index
        BY <2>0 DEF NoHole, Hole
      <4>1. CASE i = index + 1
        <5>1. j < index \/ j = index
          BY <2>0, <4>1
        <5>2. j < index => j \in Files
          BY <2>0, <2>1, <2>n
        <5>. QED
          BY <3>3, <5>1, <5>2
      <4>2. CASE i # index + 1
        BY <2>n, <3>3, <4>2
      <4>. QED
        BY <4>1, <4>2
    <3>5. NothingLost'
      BY <1>0, <1>f, <2>0, <3>2, <3>3 DEF NothingLost
    <3>. QED
      BY <3>4, <3>5
  <2>2. CASE index \notin Files
    <3>1. UNCHANGED logs /\ Files' = Files
      BY <1>2, <2>0, <2>2 DEF ShiftArchive, Files
    <3>2. \A i \in Files : i < index
      <4>. SUFFICES ASSUME NEW i \in Files, index < i PROVE FALSE
        BY <1>h, <2>0, <2>2
      <4>. QED
        BY <2>0, <2>2, <2>n
    <3>3. NoHole'
      <4>. SUFFICES ASSUME NEW i \in Files, NEW j \in 0 .. History, j < i
                    PROVE  j \in Files
        BY <3>1 DEF NoHole
      <4>1. j # index + 1
        BY <1>h, <2>0, <3>2
      <4>. QED
        BY <2>n, <4>1
    <3>4. NothingLost'
      BY <1>f, <2>0, <3>1 DEF NothingLost, Kept
    <3>. QED
      BY <3>3, <3>4
  <2>. QED
    BY <2>1, <2>2
<1>3. CASE ShiftLog
  <2>0. /\ 0 \in 0 .. History - 1 /\ index = 0 /\ at = "shifting" /\ handle = 0 /\ 0 \in Files
        /\ Moved(0) /\ UNCHANGED lines /\ at' = "opening"
    BY <1>0, <1>3, <1>g, <1>h DEF ShiftLog, Files
  <2>2. 1 \notin Files \/ 1 = History
    BY <1>0, <2>0 DEF RoomToMove
  <2>3. /\ Files' = (Files \ {0}) \cup {1}
        /\ 1 \notin Files => \A n : Kept(n) => Kept(n)'
    <3>1. 0 + 1 = 1
      OBVIOUS
    <3>. QED
      BY <2>0, <2>2, <3>1, MoveKeeps
  <2>4. NoHole'
    <3>. SUFFICES ASSUME NEW i \in Files', NEW j \in 0 .. History, j < i, j # 0, j # 1
                  PROVE  j \in Files'
      BY <2>0, <2>3 DEF NoHole, Hole
    <3>1. i \in Files
      BY <1>h, <2>3
    <3>2. j \in Files
      BY <1>f, <2>0, <3>1 DEF NoHole, Hole
    <3>. QED
      BY <2>3, <3>2
  <2>5. NothingLost'
    BY <1>0, <1>f, <2>0, <2>2, <2>3 DEF NothingLost
  <2>. QED
    BY <2>4, <2>5
<1>4. CASE OpenLog \/ LogRestart
  <2>0. at \in {"idle", "opening", "writing"} /\ at' \in {"idle", "writing"} /\ UNCHANGED lines
    BY <1>4, <1>f DEF OpenLog, LogRestart, LogTypeOK
  <2>1. Files' = Files \cup {0} /\ \A j \in Files : logs'[j] = logs[j]
    BY <1>4, OpenKeeps DEF OpenLog, LogRestart
  <2>2. NoHole'
    <3>. SUFFICES ASSUME NEW i \in Files', NEW j \in 0 .. History, j < i, j # 0
                  PROVE  j \in Files
      BY <2>1 DEF NoHole
    <3>1. i \in Files
      BY <2>1
    <3>. QED
      BY <1>f, <2>0, <3>1 DEF NoHole, Hole
  <2>3. NothingLost'
    BY <1>f, <2>0, <2>1 DEF NothingLost, Kept
  <2>. QED
    BY <2>2, <2>3
<1>5. CASE RotateFails
  BY <1>5 DEF RotateFails
<1>6. CASE WriteLine
  <2>0. at = "writing" /\ at' = "idle" /\ lines' = lines + 1 /\ lines < MaxLines
    BY <1>6 DEF WriteLine, RoomToMove
  <2>1. Files' = Files /\ (Kept(1)' <=> Kept(1) \/ 1 = lines + 1)
    BY <1>6, <2>0, WriteKeeps
  <2>2. NoHole'
    BY <1>f, <2>0, <2>1 DEF NoHole, Hole
  <2>3. NothingLost'
    BY <1>f, <1>h, <2>0, <2>1 DEF NothingLost
  <2>. QED
    BY <2>2, <2>3
<1>. QED
  BY <1>1, <1>2, <1>3, <1>4, <1>5, <1>6 DEF LogNext

LEMMA LogInitially == LogInit => LogInv
<1>. SUFFICES ASSUME LogInit
              PROVE  LogInv
  OBVIOUS
<1>0. /\ History \in Nat \ {0} /\ Full \in Nat \ {0} /\ MaxLines \in Nat
      /\ NoFile \notin Seq(1 .. MaxLines)
  BY LogAssumption
<1>1. <<>> \in Seq(1 .. MaxLines) /\ DOMAIN <<>> = {} /\ Len(<<>>) = 0
  OBVIOUS
<1>2. LogTypeOK
  BY <1>0, <1>1 DEF LogInit, LogTypeOK
<1>3. Files = {0} /\ logs[0] = <<>>
  <2>0. History \in Nat
    BY <1>0
  <2>1. 0 \in 0 .. History
    BY <2>0
  <2>n. <<>> # NoFile
    BY <1>0, <1>1, Zenon
  <2>2. logs[0] = <<>> /\ \A i \in 0 .. History : i # 0 => logs[i] = NoFile
    BY <2>1 DEF LogInit
  <2>. QED
    BY <2>1, <2>n, <2>2 DEF Files
<1>4. LinesInv
  BY <1>0, <1>1, <1>3 DEF LogInit, LinesInv, LinesOrdered, NoneMissing, LinesWritten, HandleYoungest
<1>5. RoomToMove /\ SizesInv /\ LogOpen
  BY <1>0, <1>3, LogAssumption DEF LogInit, RoomToMove, SizesInv, NoFileNoBytes, ArchivesFull, LogOpen
<1>6. Layout
  BY <1>0, <1>3 DEF LogInit, Layout, NoHole, NothingLost
<1>. QED
  BY <1>2, <1>4, <1>5, <1>6 DEF LogInv

LEMMA LogStep == LogInv /\ [LogNext]_logVars => LogInv'
<1>. SUFFICES ASSUME LogInv, [LogNext]_logVars
              PROVE  LogInv'
  OBVIOUS
<1>1. CASE LogNext
  BY <1>1, LinesStep, SizesStep, LogOpenStep, LayoutStep DEF LogInv
<1>2. CASE UNCHANGED logVars
  <2>1. Files' = Files /\ UNCHANGED <<logs, bytes, handle, at, index, lines, fault>>
    BY <1>2 DEF logVars, Files
  <2>2. LinesInv' /\ \A n : Kept(n)' <=> Kept(n)
    BY <2>1, SameLines DEF LogInv
  <2>3. LogTypeOK' /\ RoomToMove'
    BY <2>1 DEF LogInv, LogTypeOK, RoomToMove
  <2>4. SizesInv' /\ LogOpen'
    BY <2>1 DEF LogInv, SizesInv, NoFileNoBytes, ArchivesFull, LogOpen
  <2>5. Layout'
    BY <2>1, <2>2 DEF LogInv, Layout, NoHole, Hole, NothingLost
  <2>. QED
    BY <2>2, <2>3, <2>4, <2>5 DEF LogInv
<1>. QED
  BY <1>1, <1>2

\* FileLogger keeps the lines in order and without a gap whatever befalls a
\* rotation, and unless one was interrupted it keeps all of them or as many full
\* files as there are archives.
THEOREM LogKeptIsRecent == LogSpec => []KeptIsRecent
<1>1. LogInv => KeptIsRecent
  <2>. SUFFICES ASSUME LogInv
                PROVE  KeptIsRecent
    OBVIOUS
  <2>0. History \in Nat \ {0} /\ lines \in Nat /\ index \in 0 .. History - 1
    BY LogAssumption DEF LogInv, LogTypeOK
  <2>. DEFINE Retained == \/ \A n \in 1 .. lines : Kept(n)
                          \/ \E gap \in 0 .. History : \A i \in (0 .. History) \ {gap} :
                                i \in Files /\ bytes[i] >= Full
  <2>1. ASSUME fault = "none"
        PROVE  Retained
    <3>1. CASE lines = 0 \/ Kept(1)
      <4>1. \A n \in 1 .. lines : Kept(n)
        BY <2>0, <3>1 DEF LogInv, LinesInv, NoneMissing
      <4>. QED
        BY <4>1
    <3>2. CASE History \in Files
      <4>1. \A i \in 0 .. History : i \in Files \/ Hole(i)
        BY <2>0, <2>1, <3>2 DEF LogInv, Layout, NoHole
      <4>2. \A i \in Files : i # 0 => bytes[i] >= Full
        BY DEF LogInv, SizesInv, ArchivesFull
      <4>3. CASE at = "shifting"
        <5>1. index + 1 \in 0 .. History
          BY <2>0
        <5>2. \A i \in (0 .. History) \ {index + 1} : i \in Files
          BY <4>1, <4>3 DEF Hole
        <5>3. 0 \in Files => bytes[0] >= Full
          <6>1. 0 \in Files => handle = 0
            BY DEF LogInv, LogTypeOK, LinesInv, HandleYoungest
          <6>. QED
            BY <4>3, <6>1 DEF LogInv, SizesInv, ArchivesFull
        <5>4. \A i \in (0 .. History) \ {index + 1} : i \in Files /\ bytes[i] >= Full
          BY <4>2, <5>2, <5>3
        <5>. QED
          BY <5>1, <5>4
      <4>4. CASE at # "shifting"
        <5>1. \A i \in (0 .. History) \ {0} : i \in Files /\ bytes[i] >= Full
          BY <4>1, <4>2, <4>4 DEF Hole
        <5>2. 0 \in 0 .. History
          BY <2>0
        <5>. QED
          BY <5>1, <5>2
      <4>. QED
        BY <4>3, <4>4
    <3>. QED
      BY <2>1, <3>1, <3>2 DEF LogInv, Layout, NothingLost
  <2>. QED
    BY <2>1 DEF LogInv, LinesInv, LinesOrdered, NoneMissing, KeptIsRecent
<1>. QED
  BY LogInitially, LogStep, <1>1, PTL DEF LogSpec

\* Every archive has reached the limit on the size of a log, whatever befalls a
\* rotation; and as long as the file system refuses nothing no file passes the limit
\* by a whole line, also when the host dies in the middle of a rotation.
THEOREM LogFilesBounded == LogSpec => []LogsBounded
<1>1. LogInv => LogsBounded
  BY DEF LogInv, SizesInv, ArchivesFull, LogOpen, LogsBounded
<1>. QED
  BY LogInitially, LogStep, <1>1, PTL DEF LogSpec

-----------------------------------------------------------------------------

(***************************************************************************)
(* The record of the Wi-Fi credentials.  That a complete record is read as *)
(* it was written holds whatever the checksum is; that a torn one is never *)
(* taken for credentials rests on the checksum, which is taken to be free  *)
(* of collisions (CollisionFree).                                          *)
(***************************************************************************)

Valid == {c \in Typed : Provisionable(c)}

\* What is left of c: up to some cell its cells or erased ones, in this cell
\* anything, and then erased ones.
Remains(c) ==
  \E t \in 1 .. Size + 1 :
    /\ \A i \in Cells : i < t => flash[i] \in {Blank, config_image(c)[i]}
    /\ \A i \in Cells : i > t => flash[i] = Blank
    /\ t \in Cells => flash[t] \in 0 .. Blank

Erased == flash = [i \in Cells |-> Blank]

WifiInv ==
  /\ flash = [i \in Cells |-> flash[i]]
  /\ writing \in 0 .. Size
  /\ provisioned \in Valid \cup {NoCredentials}
  /\ older \in Valid \cup {NoCredentials}
  /\ writing # 0 =>
       /\ provisioned # NoCredentials
       /\ \A i \in Cells : flash[i] = IF i < writing THEN config_image(provisioned)[i] ELSE Blank
  /\ writing = 0 /\ provisioned # NoCredentials => flash = config_image(provisioned)
  /\ provisioned = NoCredentials =>
       IF older = NoCredentials THEN Erased ELSE Remains(older)

-----------------------------------------------------------------------------

LEMMA Sizes ==
  /\ Blank \in Nat /\ Blank > 1 /\ SsidMax \in Nat /\ PasswordMax \in Nat /\ SsidMax > 0
  /\ SsidMax < Blank /\ PasswordMax < Blank
  /\ Header = 4 /\ Size \in Nat /\ Size > 5 /\ Size = 5 + SsidMax + PasswordMax /\ Cells = 1 .. Size
  /\ Magic # Blank /\ NoCredentials \notin Valid
BY RecordAssumption DEF Header, Size, Cells, Magic, Valid

LEMMA ConcatFacts ==
  ASSUME NEW S, NEW s \in Seq(S), NEW t \in Seq(S)
  PROVE  /\ s \o t \in Seq(S) /\ Len(s) \in Nat /\ Len(t) \in Nat
         /\ Len(s \o t) = Len(s) + Len(t)
         /\ \A i \in 1 .. Len(s) : (s \o t)[i] = s[i]
         /\ \A i \in 1 .. Len(t) : (s \o t)[Len(s) + i] = t[i]
<1>1. Len(s) \in Nat /\ Len(t) \in Nat
  OBVIOUS
<1>2. /\ s \o t \in Seq(S) /\ Len(s \o t) = Len(s) + Len(t)
      /\ \A i \in 1 .. Len(s) + Len(t) : (s \o t)[i] = IF i <= Len(s) THEN s[i] ELSE t[i - Len(s)]
  BY ConcatProperties
<1>3. ASSUME NEW i \in 1 .. Len(s) PROVE (s \o t)[i] = s[i]
  BY <1>1, <1>2
<1>4. ASSUME NEW i \in 1 .. Len(t) PROVE (s \o t)[Len(s) + i] = t[i]
  <2>1. Len(s) + i \in 1 .. Len(s) + Len(t) /\ ~ (Len(s) + i <= Len(s)) /\ (Len(s) + i) - Len(s) = i
    BY <1>1
  <2>. QED
    BY <1>2, <2>1
<1>. QED
  BY <1>1, <1>2, <1>3, <1>4

LEMMA TextFacts ==
  ASSUME NEW S, NEW n \in Nat, NEW f \in [1 .. n -> S]
  PROVE  f \in Seq(S) /\ Len(f) = n /\ (n = 0 <=> f = <<>>)
  OBVIOUS

LEMMA ValidFacts ==
  ASSUME NEW c \in Valid
  PROVE  /\ c = [ssid |-> c.ssid, password |-> c.password]
         /\ c.ssid \in Seq(Bytes) /\ c.password \in Seq(Bytes)
         /\ Len(c.ssid) \in 1 .. SsidMax /\ Len(c.password) \in 0 .. PasswordMax
         /\ c \in Readable
<1>1. c \in Typed /\ Provisionable(c)
  BY DEF Valid
<1>2. /\ c = [ssid |-> c.ssid, password |-> c.password]
      /\ c.ssid \in Texts(SsidMax + 1) /\ c.password \in Texts(PasswordMax + 1)
  BY <1>1 DEF Typed
<1>3. PICK n \in 0 .. SsidMax + 1 : c.ssid \in [1 .. n -> Chars]
  BY <1>2 DEF Texts
<1>4. PICK k \in 0 .. PasswordMax + 1 : c.password \in [1 .. k -> Chars]
  BY <1>2 DEF Texts
<1>5. n \in Nat /\ k \in Nat /\ Chars \subseteq Bytes
  BY <1>3, <1>4, Sizes, RecordAssumption DEF Bytes
<1>6. c.ssid \in [1 .. n -> Bytes] /\ c.password \in [1 .. k -> Bytes]
  BY <1>3, <1>4, <1>5
<1>7. /\ c.ssid \in Seq(Bytes) /\ Len(c.ssid) = n
      /\ c.password \in Seq(Bytes) /\ Len(c.password) = k
  BY <1>5, <1>6, TextFacts
<1>8. n # 0
  BY <1>1, <1>5, <1>6, TextFacts DEF Provisionable
<1>9. n \in 1 .. SsidMax /\ k \in 0 .. PasswordMax
  BY <1>1, <1>5, <1>7, <1>8, Sizes DEF Provisionable
<1>10. c \in Readable
  BY <1>2, <1>6, <1>9 DEF Readable
<1>. QED
  BY <1>2, <1>7, <1>9, <1>10

\* The layout of a record: three numbers, the checksum and two texts.
LEMMA UsedCells ==
  ASSUME NEW S, NEW a \in S, NEW b \in S, NEW d \in S, NEW x \in S,
         NEW s \in Seq(S), NEW p \in Seq(S)
  PROVE  LET used == <<a, b, d>> \o <<x>> \o (s \o p)
         IN  /\ Len(used) = 4 + Len(s) + Len(p) /\ Len(s) \in Nat /\ Len(p) \in Nat
             /\ used[1] = a /\ used[2] = b /\ used[3] = d /\ used[4] = x
             /\ \A i \in 1 .. Len(s) : used[4 + i] = s[i]
             /\ \A i \in 1 .. Len(p) : used[4 + Len(s) + i] = p[i]
<1>1. PICK h : h = <<a, b, d>>
  OBVIOUS
<1>2. PICK y : y = <<x>>
  OBVIOUS
<1>3. /\ h \in Seq(S) /\ Len(h) = 3 /\ h[1] = a /\ h[2] = b /\ h[3] = d
      /\ y \in Seq(S) /\ Len(y) = 1 /\ y[1] = x
  BY <1>1, <1>2
<1>4. h \in Seq(S) /\ y \in Seq(S)
  BY <1>3
<1>5. PICK f : f = h \o y
  OBVIOUS
<1>6. f \in Seq(S)
  BY <1>4, <1>5, ConcatFacts
<1>7. Len(f) = 4 /\ f[1] = a /\ f[2] = b /\ f[3] = d /\ f[4] = x
  <2>1. Len(f) = Len(h) + Len(y)
    BY <1>4, <1>5, ConcatFacts
  <2>2. \A i \in 1 .. Len(h) : f[i] = h[i]
    BY <1>4, <1>5, ConcatFacts
  <2>3. \A i \in 1 .. Len(y) : f[Len(h) + i] = y[i]
    BY <1>4, <1>5, ConcatFacts
  <2>. QED
    BY <1>3, <2>1, <2>2, <2>3
<1>8. PICK q : q = s \o p
  OBVIOUS
<1>9. q \in Seq(S)
  BY <1>8, ConcatFacts
<1>10. /\ Len(q) = Len(s) + Len(p) /\ Len(s) \in Nat /\ Len(p) \in Nat
       /\ \A i \in 1 .. Len(s) : q[i] = s[i]
       /\ \A i \in 1 .. Len(p) : q[Len(s) + i] = p[i]
  <2>1. Len(q) = Len(s) + Len(p) /\ Len(s) \in Nat /\ Len(p) \in Nat
    BY <1>8, ConcatFacts
  <2>2. \A i \in 1 .. Len(s) : q[i] = s[i]
    BY <1>8, ConcatFacts
  <2>3. \A i \in 1 .. Len(p) : q[Len(s) + i] = p[i]
    BY <1>8, ConcatFacts
  <2>. QED
    BY <2>1, <2>2, <2>3
<1>11. PICK used : used = f \o q
  OBVIOUS
<1>12. /\ Len(used) = Len(f) + Len(q)
       /\ \A i \in 1 .. Len(f) : used[i] = f[i]
       /\ \A i \in 1 .. Len(q) : used[Len(f) + i] = q[i]
  <2>1. Len(used) = Len(f) + Len(q)
    BY <1>6, <1>9, <1>11, ConcatFacts
  <2>2. \A i \in 1 .. Len(f) : used[i] = f[i]
    BY <1>6, <1>9, <1>11, ConcatFacts
  <2>3. \A i \in 1 .. Len(q) : used[Len(f) + i] = q[i]
    BY <1>6, <1>9, <1>11, ConcatFacts
  <2>. QED
    BY <2>1, <2>2, <2>3
<1>13. ASSUME NEW i \in 1 .. Len(s) PROVE used[4 + i] = s[i]
  BY <1>7, <1>10, <1>12
<1>14. ASSUME NEW i \in 1 .. Len(p) PROVE used[4 + Len(s) + i] = p[i]
  <2>1. Len(s) + i \in 1 .. Len(q) /\ 4 + (Len(s) + i) = 4 + Len(s) + i
    BY <1>10
  <2>. QED
    BY <1>7, <1>10, <1>12, <2>1
<1>15. Len(used) = 4 + Len(s) + Len(p)
  BY <1>7, <1>10, <1>12
<1>16. used[1] = a /\ used[2] = b /\ used[3] = d /\ used[4] = x
  BY <1>7, <1>12
<1>17. used = <<a, b, d>> \o <<x>> \o (s \o p)
  BY <1>1, <1>2, <1>5, <1>8, <1>11, Zenon
<1>. QED
  BY <1>10, <1>13, <1>14, <1>15, <1>16, <1>17, Zenon

\* The cells of a record.
LEMMA ImageCells ==
  ASSUME NEW c \in Valid
  PROVE  LET image == config_image(c)
             n == Len(c.ssid)
             k == Len(c.password)
         IN  /\ image = [i \in Cells |-> image[i]]
             /\ image[1] = Magic /\ image[2] = n /\ image[3] = k /\ image[4] = Sum(c)
             /\ \A i \in 1 .. n : image[4 + i] = c.ssid[i]
             /\ \A i \in 1 .. k : image[4 + n + i] = c.password[i]
             /\ \A i \in Cells : i > 4 + n + k => image[i] = Blank
             /\ \A i \in Cells : i > 4 => image[i] \in 0 .. Blank
<1>. DEFINE n == Len(c.ssid)
            k == Len(c.password)
            header == <<Magic, n, k>>
            payload == c.ssid \o c.password
            used == header \o <<checksum(header, payload)>> \o payload
            image == config_image(c)
<1>1. /\ n \in Nat /\ k \in Nat /\ n <= SsidMax /\ k <= PasswordMax
      /\ c.ssid \in Seq(Bytes) /\ c.password \in Seq(Bytes)
  BY ValidFacts, Sizes
<1>2. image = [i \in Cells |-> IF i <= Len(used) THEN used[i] ELSE Blank]
  BY DEF config_image
<1>3. /\ Len(used) = 4 + n + k
      /\ used[1] = Magic /\ used[2] = n /\ used[3] = k /\ used[4] = Sum(c)
      /\ \A i \in 1 .. n : used[4 + i] = c.ssid[i]
      /\ \A i \in 1 .. k : used[4 + n + i] = c.password[i]
  <2>. DEFINE x == checksum(header, payload)
              S == {Magic, n, k, x} \cup Bytes
  <2>1. x = Sum(c)
    BY DEF Sum
  <2>2. Magic \in S /\ n \in S /\ k \in S /\ x \in S
    OBVIOUS
  <2>3. PICK s : s = c.ssid
    OBVIOUS
  <2>4. PICK p : p = c.password
    OBVIOUS
  <2>5. s \in Seq(S) /\ p \in Seq(S)
    BY <1>1, <2>3, <2>4
  <2>6. PICK u : u = <<Magic, n, k>> \o <<x>> \o (s \o p)
    OBVIOUS
  <2>7. u = used /\ Len(s) = n /\ Len(p) = k
    BY <2>3, <2>4, <2>6, Zenon
  <2>. HIDE DEF S, x, n, k, used
  <2>8. Len(u) = 4 + Len(s) + Len(p) /\ u[1] = Magic /\ u[2] = n /\ u[3] = k /\ u[4] = x
    BY <2>2, <2>5, <2>6, UsedCells
  <2>9. \A i \in 1 .. Len(s) : u[4 + i] = s[i]
    BY <2>2, <2>5, <2>6, UsedCells
  <2>10. \A i \in 1 .. Len(p) : u[4 + Len(s) + i] = p[i]
    BY <2>2, <2>5, <2>6, UsedCells
  <2>. QED
    BY <2>1, <2>3, <2>4, <2>7, <2>8, <2>9, <2>10, Zenon
<1>. HIDE DEF used, image, n, k
<1>6. 4 + n + k <= Size
  BY <1>1, Sizes
<1>7. \A i \in Cells : i \in Nat /\ i > 0 /\ image[i] = IF i <= 4 + n + k THEN used[i] ELSE Blank
  BY <1>2, <1>3, Sizes
<1>8. image = [i \in Cells |-> image[i]]
  BY <1>2
<1>9. image[1] = Magic /\ image[2] = n /\ image[3] = k /\ image[4] = Sum(c)
  BY <1>1, <1>3, <1>7, Sizes
<1>10. ASSUME NEW i \in 1 .. n PROVE 4 + i \in Cells /\ image[4 + i] = c.ssid[i]
  BY <1>1, <1>3, <1>6, <1>7, Sizes
<1>11. ASSUME NEW i \in 1 .. k PROVE 4 + n + i \in Cells /\ image[4 + n + i] = c.password[i]
  BY <1>1, <1>3, <1>6, <1>7, Sizes
<1>12. \A i \in Cells : i > 4 + n + k => image[i] = Blank
  BY <1>1, <1>7
<1>13. ASSUME NEW i \in Cells, i > 4 PROVE image[i] \in 0 .. Blank
  <2>0. Blank \in Nat /\ i \in Nat /\ Bytes \subseteq 0 .. Blank
    BY <1>7, Sizes DEF Bytes
  <2>1. CASE i > 4 + n + k
    BY <1>12, <2>0, <2>1
  <2>2. CASE i <= 4 + n
    <3>1. i - 4 \in 1 .. n /\ 4 + (i - 4) = i
      BY <1>1, <1>13, <2>0, <2>2
    <3>2. c.ssid[i - 4] \in Bytes
      <4>. DEFINE t == c.ssid
      <4>1. t \in Seq(Bytes) /\ Len(t) = n
        BY <1>1 DEF n
      <4>. HIDE DEF t
      <4>2. \A j \in 1 .. Len(t) : t[j] \in Bytes
        BY <4>1, ElementOfSeq
      <4>. QED
        BY <3>1, <4>1, <4>2 DEF t
    <3>. QED
      BY <1>10, <2>0, <3>1, <3>2
  <2>3. CASE i > 4 + n /\ i <= 4 + n + k
    <3>1. i - 4 - n \in 1 .. k /\ 4 + n + (i - 4 - n) = i
      BY <1>1, <2>0, <2>3
    <3>2. c.password[i - 4 - n] \in Bytes
      <4>. DEFINE t == c.password
      <4>1. t \in Seq(Bytes) /\ Len(t) = k
        BY <1>1 DEF k
      <4>. HIDE DEF t
      <4>2. \A j \in 1 .. Len(t) : t[j] \in Bytes
        BY <4>1, ElementOfSeq
      <4>. QED
        BY <3>1, <4>1, <4>2 DEF t
    <3>. QED
      BY <1>11, <2>0, <3>1, <3>2
  <2>. QED
    BY <1>1, <2>0, <2>1, <2>2, <2>3
<1>. QED
  BY <1>8, <1>9, <1>10, <1>11, <1>12, <1>13 DEF image, n, k

LEMMA SubText ==
  ASSUME NEW S, NEW f, NEW m \in Nat, NEW n \in Nat, \A i \in 1 .. n : f[m + i] \in S
  PROVE  /\ SubSeq(f, m + 1, m + n) \in Seq(S)
         /\ Len(SubSeq(f, m + 1, m + n)) = n
         /\ \A i \in 1 .. n : SubSeq(f, m + 1, m + n)[i] = f[m + i]
<1>1. \A i \in m + 1 .. m + n : f[i] \in S
  <2>1. SUFFICES ASSUME NEW i \in m + 1 .. m + n PROVE f[i] \in S
    OBVIOUS
  <2>2. i - m \in 1 .. n /\ m + (i - m) = i
    OBVIOUS
  <2>. QED
    BY <2>2
<1>2. m + 1 \in Int /\ m + n \in Int
  OBVIOUS
<1>3. /\ SubSeq(f, m + 1, m + n) \in Seq(S)
      /\ Len(SubSeq(f, m + 1, m + n)) = IF m + 1 <= m + n THEN (m + n) - (m + 1) + 1 ELSE 0
      /\ \A i \in 1 .. (m + n) - (m + 1) + 1 : SubSeq(f, m + 1, m + n)[i] = f[(m + 1) + i - 1]
  BY <1>1, <1>2, SubSeqProperties
<1>4. /\ (IF m + 1 <= m + n THEN (m + n) - (m + 1) + 1 ELSE 0) = n
      /\ (m + n) - (m + 1) + 1 = n /\ \A i \in 1 .. n : (m + 1) + i - 1 = m + i
  OBVIOUS
<1>. QED
  BY <1>3, <1>4

LEMMA SameSeq ==
  ASSUME NEW S, NEW s \in Seq(S), NEW t \in Seq(S), Len(s) = Len(t),
         \A i \in 1 .. Len(s) : s[i] = t[i]
  PROVE  s = t
  OBVIOUS

\* The parts of a record as load_wifi_credentials takes them.
LEMMA Parts ==
  ASSUME NEW cells, NEW n \in 1 .. SsidMax, NEW k \in 0 .. PasswordMax,
         cells[1] = Magic, cells[2] = n, cells[3] = k,
         \A i \in 1 .. n + k : cells[4 + i] \in Bytes
  PROVE  LET s == SubSeq(cells, Header + 1, Header + cells[2])
             p == SubSeq(cells, Header + cells[2] + 1, Header + cells[2] + cells[3])
         IN  /\ s \in Seq(Bytes) /\ Len(s) = n /\ \A i \in 1 .. n : s[i] = cells[4 + i]
             /\ p \in Seq(Bytes) /\ Len(p) = k /\ \A i \in 1 .. k : p[i] = cells[4 + n + i]
             /\ SubSeq(cells, 1, 3) = <<Magic, n, k>>
<1>1. n \in Nat /\ k \in Nat /\ 4 \in Nat /\ 4 + n \in Nat
  BY Sizes
<1>2. \A i \in 1 .. n : cells[4 + i] \in Bytes
  BY <1>1
<1>3. \A i \in 1 .. k : cells[(4 + n) + i] \in Bytes
  <2>1. \A i \in 1 .. k : n + i \in 1 .. n + k /\ 4 + (n + i) = (4 + n) + i
    BY <1>1
  <2>. QED
    BY <2>1
<1>4. /\ SubSeq(cells, 4 + 1, 4 + n) \in Seq(Bytes) /\ Len(SubSeq(cells, 4 + 1, 4 + n)) = n
      /\ \A i \in 1 .. n : SubSeq(cells, 4 + 1, 4 + n)[i] = cells[4 + i]
  <2>1. PICK l \in Nat : l = n
    BY <1>1
  <2>2. \A i \in 1 .. l : cells[4 + i] \in Bytes
    BY <1>2, <2>1
  <2>3. /\ SubSeq(cells, 4 + 1, 4 + l) \in Seq(Bytes) /\ Len(SubSeq(cells, 4 + 1, 4 + l)) = l
        /\ \A i \in 1 .. l : SubSeq(cells, 4 + 1, 4 + l)[i] = cells[4 + i]
    BY <1>1, <2>2, SubText
  <2>. QED
    BY <2>1, <2>3
<1>5. PICK m \in Nat : m = 4 + n
  BY <1>1
<1>6. /\ SubSeq(cells, m + 1, m + k) \in Seq(Bytes) /\ Len(SubSeq(cells, m + 1, m + k)) = k
      /\ \A i \in 1 .. k : SubSeq(cells, m + 1, m + k)[i] = cells[m + i]
  <2>1. \A i \in 1 .. k : cells[m + i] \in Bytes
    BY <1>3, <1>5
  <2>2. PICK l \in Nat : l = k
    BY <1>1
  <2>3. \A i \in 1 .. l : cells[m + i] \in Bytes
    BY <2>1, <2>2
  <2>4. /\ SubSeq(cells, m + 1, m + l) \in Seq(Bytes) /\ Len(SubSeq(cells, m + 1, m + l)) = l
        /\ \A i \in 1 .. l : SubSeq(cells, m + 1, m + l)[i] = cells[m + i]
    BY <2>3, SubText
  <2>. QED
    BY <2>2, <2>4
<1>7. SubSeq(cells, 1, 3) = <<Magic, n, k>>
  <2>. DEFINE S == {Magic, n, k}
  <2>1. \A i \in 1 .. 3 : cells[0 + i] \in S
    OBVIOUS
  <2>2. <<Magic, n, k>> \in Seq(S) /\ Len(<<Magic, n, k>>) = 3
    OBVIOUS
  <2>. HIDE DEF S
  <2>3. /\ SubSeq(cells, 0 + 1, 0 + 3) \in Seq(S) /\ Len(SubSeq(cells, 0 + 1, 0 + 3)) = 3
        /\ \A i \in 1 .. 3 : SubSeq(cells, 0 + 1, 0 + 3)[i] = cells[0 + i]
    BY <2>1, SubText
  <2>4. PICK t : t = SubSeq(cells, 1, 3)
    OBVIOUS
  <2>5. t \in Seq(S) /\ Len(t) = 3 /\ t[1] = Magic /\ t[2] = n /\ t[3] = k
    BY <2>3, <2>4
  <2>6. PICK w : w = <<Magic, n, k>>
    OBVIOUS
  <2>7. w \in Seq(S) /\ Len(w) = 3 /\ w[1] = Magic /\ w[2] = n /\ w[3] = k
    BY <2>2, <2>6
  <2>8. \A i \in 1 .. 3 : t[i] = w[i]
    BY <2>5, <2>7
  <2>9. t = w
    BY <2>5, <2>7, <2>8, SameSeq
  <2>. QED
    BY <2>4, <2>6, <2>9
<1>8. Header + 1 = 4 + 1 /\ Header + cells[2] = 4 + n /\ Header + cells[2] + 1 = m + 1
      /\ Header + cells[2] + cells[3] = m + k
  BY <1>1, <1>5, Sizes
<1>. QED
  BY <1>4, <1>5, <1>6, <1>7, <1>8

\* A complete record is read as it was typed.
LEMMA LoadImage ==
  ASSUME NEW c \in Valid
  PROVE  load_wifi_credentials(config_image(c)) = c
<1>. DEFINE cells == config_image(c)
            n == Len(c.ssid)
            k == Len(c.password)
            s == SubSeq(cells, Header + 1, Header + cells[2])
            p == SubSeq(cells, Header + cells[2] + 1, Header + cells[2] + cells[3])
<1>1. /\ n \in 1 .. SsidMax /\ k \in 0 .. PasswordMax /\ c.ssid \in Seq(Bytes)
      /\ c.password \in Seq(Bytes) /\ c = [ssid |-> c.ssid, password |-> c.password]
  BY ValidFacts
<1>2. /\ cells[1] = Magic /\ cells[2] = n /\ cells[3] = k /\ cells[4] = Sum(c)
      /\ \A i \in 1 .. n : cells[4 + i] = c.ssid[i]
      /\ \A i \in 1 .. k : cells[4 + n + i] = c.password[i]
  BY ImageCells
<1>. HIDE DEF cells
<1>3. \A i \in 1 .. n : c.ssid[i] \in Bytes
  BY <1>1, ElementOfSeq
<1>4. \A i \in 1 .. k : c.password[i] \in Bytes
  BY <1>1, ElementOfSeq
<1>. HIDE DEF n, k
<1>5. \A i \in 1 .. n + k : cells[4 + i] \in Bytes
  <2>1. SUFFICES ASSUME NEW i \in 1 .. n + k PROVE cells[4 + i] \in Bytes
    OBVIOUS
  <2>2. CASE i <= n
    <3>1. i \in 1 .. n
      BY <1>1, <2>2, Sizes
    <3>. QED
      BY <1>2, <1>3, <3>1
  <2>3. CASE i > n
    <3>1. i - n \in 1 .. k /\ 4 + n + (i - n) = 4 + i
      BY <1>1, <2>3, Sizes
    <3>. QED
      BY <1>2, <1>4, <3>1
  <2>. QED
    BY <1>1, <2>2, <2>3, Sizes
<1>6. /\ s \in Seq(Bytes) /\ Len(s) = n /\ \A i \in 1 .. n : s[i] = cells[4 + i]
      /\ p \in Seq(Bytes) /\ Len(p) = k /\ \A i \in 1 .. k : p[i] = cells[4 + n + i]
      /\ SubSeq(cells, 1, 3) = <<Magic, n, k>>
  <2>1. cells[1] = Magic /\ cells[2] = n /\ cells[3] = k
    BY <1>2
  <2>. QED
    BY <1>1, <1>5, <2>1, Parts, Zenon
<1>. HIDE DEF s, p
<1>7. s = c.ssid
  <2>1. PICK t \in Seq(Bytes) : t = c.ssid
    BY <1>1
  <2>2. s \in Seq(Bytes) /\ Len(s) = Len(t)
    BY <1>6, <2>1 DEF n
  <2>3. \A i \in 1 .. Len(s) : s[i] = t[i]
    BY <1>2, <1>6, <2>1
  <2>. QED
    BY <2>1, <2>2, <2>3, SameSeq
<1>8. p = c.password
  <2>1. PICK t \in Seq(Bytes) : t = c.password
    BY <1>1
  <2>2. p \in Seq(Bytes) /\ Len(p) = Len(t)
    BY <1>6, <2>1 DEF k
  <2>3. \A i \in 1 .. Len(p) : p[i] = t[i]
    BY <1>2, <1>6, <2>1
  <2>. QED
    BY <2>1, <2>2, <2>3, SameSeq
<1>9. checksum(SubSeq(cells, 1, 3), s \o p) = cells[4]
  BY <1>2, <1>6, <1>7, <1>8 DEF Sum, n, k
<1>10. IsText(s) /\ IsText(p)
  <2>1. \A t \in Seq(Bytes) : \A i \in DOMAIN t : t[i] \in Bytes
    OBVIOUS
  <2>2. Blank \notin Bytes
    BY Sizes DEF Bytes
  <2>. QED
    BY <1>6, <2>1, <2>2 DEF IsText
<1>. QED
  BY <1>1, <1>2, <1>7, <1>8, <1>9, <1>10 DEF load_wifi_credentials, cells, s, p

\* What is found in any flash has the checksum that the flash holds.
LEMMA LoadFound ==
  ASSUME NEW cells, \A i \in Cells : i > 4 => cells[i] \in 0 .. Blank,
         load_wifi_credentials(cells) # NoCredentials
  PROVE  /\ load_wifi_credentials(cells) \in Readable
         /\ cells[4] = Sum(load_wifi_credentials(cells))
         /\ cells[1] = Magic /\ cells[5] # Blank
<1>. DEFINE s == SubSeq(cells, Header + 1, Header + cells[2])
            p == SubSeq(cells, Header + cells[2] + 1, Header + cells[2] + cells[3])
            d == load_wifi_credentials(cells)
<1>1. /\ cells[1] = Magic /\ cells[2] \in 1 .. SsidMax /\ cells[3] \in 0 .. PasswordMax
      /\ checksum(SubSeq(cells, 1, 3), s \o p) = cells[4]
      /\ IsText(s) /\ IsText(p) /\ d = [ssid |-> s, password |-> p]
  BY DEF load_wifi_credentials
<1>. HIDE DEF d
<1>2. PICK n \in 1 .. SsidMax : n = cells[2]
  BY <1>1
<1>3. PICK k \in 0 .. PasswordMax : k = cells[3]
  BY <1>1
<1>4. n \in Nat /\ n > 0 /\ k \in Nat /\ 4 + n \in Nat /\ 4 + n + k <= Size
  BY Sizes
<1>5. \A i \in 1 .. n + k : cells[4 + i] \in 0 .. Blank
  BY <1>4, Sizes
\* Every cell of the two texts is part of one of them.
<1>6. \A i \in 1 .. n : cells[4 + i] # Blank
  <2>0. PICK m \in Nat : m = 4
    OBVIOUS
  <2>. PICK B : B = 0 .. Blank
    OBVIOUS
  <2>1. /\ SubSeq(cells, m + 1, m + n) \in Seq(B)
        /\ Len(SubSeq(cells, m + 1, m + n)) = n
        /\ \A i \in 1 .. n : SubSeq(cells, m + 1, m + n)[i] = cells[m + i]
    <3>1. \A i \in 1 .. n : i \in 1 .. n + k /\ 4 + i = m + i
      BY <1>4, <2>0
    <3>2. \A i \in 1 .. n : cells[m + i] \in B
      BY <1>5, <3>1
    <3>3. PICK l \in Nat : l = n
      BY <1>4
    <3>4. \A i \in 1 .. l : cells[m + i] \in B
      BY <3>2, <3>3
    <3>5. /\ SubSeq(cells, m + 1, m + l) \in Seq(B)
          /\ Len(SubSeq(cells, m + 1, m + l)) = l
          /\ \A i \in 1 .. l : SubSeq(cells, m + 1, m + l)[i] = cells[m + i]
      BY <3>4, SubText
    <3>. QED
      BY <3>3, <3>5
  <2>2. s = SubSeq(cells, m + 1, m + n)
    BY <1>2, <2>0, Sizes
  <2>. HIDE DEF s
  <2>3. DOMAIN s = 1 .. n
    BY <2>1, <2>2
  <2>. QED
    BY <1>1, <2>0, <2>1, <2>2, <2>3 DEF IsText
<1>7. \A i \in 1 .. k : cells[4 + n + i] # Blank
  <2>0. PICK m \in Nat : m = 4 + n
    BY <1>4
  <2>. PICK B : B = 0 .. Blank
    OBVIOUS
  <2>1. /\ SubSeq(cells, m + 1, m + k) \in Seq(B)
        /\ Len(SubSeq(cells, m + 1, m + k)) = k
        /\ \A i \in 1 .. k : SubSeq(cells, m + 1, m + k)[i] = cells[m + i]
    <3>1. \A i \in 1 .. k : n + i \in 1 .. n + k /\ 4 + (n + i) = m + i
      BY <1>4, <2>0
    <3>2. \A i \in 1 .. k : cells[m + i] \in B
      BY <1>5, <3>1
    <3>3. PICK l \in Nat : l = k
      BY <1>4
    <3>4. \A i \in 1 .. l : cells[m + i] \in B
      BY <3>2, <3>3
    <3>5. /\ SubSeq(cells, m + 1, m + l) \in Seq(B)
          /\ Len(SubSeq(cells, m + 1, m + l)) = l
          /\ \A i \in 1 .. l : SubSeq(cells, m + 1, m + l)[i] = cells[m + i]
      BY <3>4, SubText
    <3>. QED
      BY <3>3, <3>5
  <2>2. p = SubSeq(cells, m + 1, m + k)
    BY <1>2, <1>3, <2>0, Sizes
  <2>. HIDE DEF p
  <2>3. DOMAIN p = 1 .. k
    BY <2>1, <2>2
  <2>. QED
    BY <1>1, <2>0, <2>1, <2>2, <2>3 DEF IsText
<1>8. \A i \in 1 .. n + k : cells[4 + i] \in Bytes
  <2>1. SUFFICES ASSUME NEW i \in 1 .. n + k PROVE cells[4 + i] # Blank
    BY <1>5, Sizes DEF Bytes
  <2>2. CASE i <= n
    <3>1. i \in 1 .. n
      BY <1>4, <2>2
    <3>. QED
      BY <1>6, <3>1
  <2>3. CASE i > n
    <3>1. i - n \in 1 .. k /\ 4 + n + (i - n) = 4 + i
      BY <1>4, <2>3
    <3>. QED
      BY <1>7, <3>1
  <2>. QED
    BY <1>4, <2>2, <2>3
<1>9. /\ s \in Seq(Bytes) /\ Len(s) = n /\ p \in Seq(Bytes) /\ Len(p) = k
      /\ SubSeq(cells, 1, 3) = <<Magic, n, k>>
  BY <1>1, <1>2, <1>3, <1>8, Parts, Zenon
<1>. HIDE DEF s, p
<1>10. d \in Readable
  <2>1. s \in [1 .. n -> Bytes] /\ p \in [1 .. k -> Bytes]
    BY <1>9
  <2>2. /\ s \in UNION {[1 .. j -> Bytes] : j \in 1 .. SsidMax}
        /\ p \in UNION {[1 .. j -> Bytes] : j \in 0 .. PasswordMax}
    BY <2>1
  <2>. QED
    BY <1>1, <2>2 DEF Readable
<1>11. cells[4] = Sum(d)
  <2>1. d.ssid = s /\ d.password = p
    BY <1>1
  <2>. QED
    BY <1>1, <1>9, <2>1, Zenon DEF Sum
<1>12. cells[5] # Blank
  <2>1. 1 \in 1 .. n /\ 4 + 1 = 5
    BY <1>4
  <2>. QED
    BY <1>6, <2>1
<1>. QED
  BY <1>1, <1>10, <1>11, <1>12 DEF d

\* An erased flash holds no credentials.
LEMMA LoadErased ==
  ASSUME Erased
  PROVE  load_wifi_credentials(flash) = NoCredentials
<1>1. 1 \in Cells
  BY Sizes
<1>2. flash[1] # Magic
  BY <1>1, Sizes DEF Erased
<1>. QED
  BY <1>2 DEF load_wifi_credentials

\* What is left of some credentials is read as those or not at all.
LEMMA LoadRemains ==
  ASSUME CollisionFree, NEW c \in Valid, Remains(c)
  PROVE  load_wifi_credentials(flash) \in {NoCredentials, c}
<1>. DEFINE d == load_wifi_credentials(flash)
<1>1. SUFFICES ASSUME d # NoCredentials PROVE d = c
  OBVIOUS
<1>2. PICK t \in 1 .. Size + 1 :
        /\ \A i \in Cells : i < t => flash[i] \in {Blank, config_image(c)[i]}
        /\ \A i \in Cells : i > t => flash[i] = Blank
        /\ t \in Cells => flash[t] \in 0 .. Blank
  BY DEF Remains
<1>3. t \in Nat /\ Cells \subseteq Nat /\ 4 \in Cells /\ 5 \in Cells /\ Blank \in 0 .. Blank
  BY Sizes
<1>4. /\ \A i \in Cells : i > 4 => config_image(c)[i] \in 0 .. Blank
      /\ config_image(c)[4] = Sum(c)
  BY ImageCells
<1>5. \A i \in Cells : i > 4 => flash[i] \in 0 .. Blank
  <2>1. SUFFICES ASSUME NEW i \in Cells, i > 4 PROVE flash[i] \in 0 .. Blank
    OBVIOUS
  <2>2. i \in Nat /\ (i < t \/ i = t \/ i > t)
    BY <1>3
  <2>. QED
    BY <1>2, <1>3, <1>4, <2>1, <2>2
<1>6. d \in Readable /\ flash[4] = Sum(d) /\ flash[5] # Blank
  BY <1>1, <1>5, LoadFound
<1>. HIDE DEF d
<1>7. ~ (5 > t)
  BY <1>2, <1>3, <1>6
<1>8. flash[4] \in {Blank, Sum(c)}
  BY <1>2, <1>3, <1>4, <1>7
<1>9. c \in Readable
  BY ValidFacts
<1>. QED
  BY <1>6, <1>8, <1>9 DEF CollisionFree

-----------------------------------------------------------------------------

LEMMA WifiInitially == WifiInit => WifiInv
<1>. SUFFICES ASSUME WifiInit PROVE WifiInv
  OBVIOUS
<1>1. 0 \in 0 .. Size
  BY Sizes
<1>. QED
  BY <1>1 DEF WifiInit, WifiInv, Erased

LEMMA WifiStep ==
  ASSUME WifiInv, [WifiNext]_wifiVars
  PROVE  WifiInv'
<1>0. NoCredentials \notin Valid /\ Size \in Nat /\ Size > 5 /\ Cells = 1 .. Size /\ Blank \in Nat
      /\ Blank \in 0 .. Blank
  BY Sizes
<1>1. ASSUME NEW c \in Typed, Provision(c) PROVE WifiInv'
  <2>1. c \in Valid /\ c # NoCredentials
    BY <1>0, <1>1 DEF Provision, Valid
  <2>2. 1 \in 0 .. Size /\ 1 # 0 /\ \A i \in Cells : ~ (i < 1)
    BY <1>0
  <2>. QED
    BY <1>1, <2>1, <2>2 DEF Provision, WifiInv
<1>2. CASE EraseTorn
  <2>0. /\ writing = 0 /\ writing' = 0 /\ provisioned' = NoCredentials
        /\ older' = (IF provisioned = NoCredentials THEN older ELSE provisioned)
    BY <1>2 DEF EraseTorn
  <2>1. PICK kept \in SUBSET {i \in Cells : flash[i] # Blank} :
          flash' = [i \in Cells |-> IF i \in kept THEN flash[i] ELSE Blank]
    BY <1>2 DEF EraseTorn
  <2>2. /\ flash' = [i \in Cells |-> flash'[i]]
        /\ \A i \in Cells : flash'[i] \in {flash[i], Blank}
    BY <2>1
  <2>3. CASE provisioned = NoCredentials /\ older = NoCredentials
    <3>1. \A i \in Cells : flash[i] = Blank
      BY <2>3 DEF WifiInv, Erased
    <3>2. Erased'
      BY <2>2, <3>1 DEF Erased
    <3>. QED
      BY <2>0, <2>2, <2>3, <3>2 DEF WifiInv
  <2>4. CASE provisioned = NoCredentials /\ older # NoCredentials
    <3>1. PICK t \in 1 .. Size + 1 :
            /\ \A i \in Cells : i < t => flash[i] \in {Blank, config_image(older)[i]}
            /\ \A i \in Cells : i > t => flash[i] = Blank
            /\ t \in Cells => flash[t] \in 0 .. Blank
      BY <2>4 DEF WifiInv, Remains
    <3>2. older' = older
      BY <2>0, <2>4
    <3>3. /\ \A i \in Cells : i < t => flash'[i] \in {Blank, config_image(older)[i]}
          /\ \A i \in Cells : i > t => flash'[i] = Blank
          /\ t \in Cells => flash'[t] \in 0 .. Blank
      BY <1>0, <2>2, <3>1
    <3>4. Remains(older)'
      BY <3>2, <3>3 DEF Remains, Cells, Size, Header, config_image
    <3>. QED
      BY <2>0, <2>2, <2>4, <3>2, <3>4 DEF WifiInv
  <2>5. CASE provisioned # NoCredentials
    <3>1. older' = provisioned /\ provisioned \in Valid /\ flash = config_image(provisioned)
      BY <2>0, <2>5 DEF WifiInv
    <3>2. /\ \A i \in Cells : i < Size + 1 => flash'[i] \in {Blank, config_image(provisioned)[i]}
          /\ \A i \in Cells : ~ (i > Size + 1) /\ Size + 1 \notin Cells
          /\ Size + 1 \in 1 .. Size + 1
      BY <1>0, <2>2, <3>1
    <3>3. Remains(older)'
      BY <3>1, <3>2 DEF Remains, Cells, Size, Header, config_image
    <3>. QED
      BY <1>0, <2>0, <2>2, <2>5, <3>1, <3>3 DEF WifiInv
  <2>. QED
    BY <2>3, <2>4, <2>5
<1>3. CASE WriteCell
  <2>. DEFINE image == config_image(provisioned)
  <2>1. /\ writing # 0 /\ flash' = [flash EXCEPT ![writing] = image[writing]]
        /\ writing' = IF writing = Size THEN 0 ELSE writing + 1
        /\ UNCHANGED <<provisioned, older>>
    BY <1>3 DEF WriteCell
  <2>2. /\ writing \in Cells /\ writing \in Nat /\ provisioned \in Valid /\ provisioned # NoCredentials
        /\ flash = [i \in Cells |-> flash[i]]
        /\ \A i \in Cells : flash[i] = IF i < writing THEN image[i] ELSE Blank
    BY <1>0, <2>1 DEF WifiInv
  <2>3. image = [i \in Cells |-> image[i]]
    BY <2>2, ImageCells
  <2>. HIDE DEF image
  <2>4. /\ flash' = [i \in Cells |-> flash'[i]]
        /\ \A i \in Cells : flash'[i] = IF i < writing + 1 THEN image[i] ELSE Blank
    <3>1. flash' = [i \in Cells |-> flash'[i]]
      BY <2>1, <2>2
    <3>2. flash'[writing] = image[writing]
      BY <2>1, <2>2
    <3>3. \A i \in Cells : i # writing => flash'[i] = flash[i]
      BY <2>1, <2>2
    <3>4. \A i \in Cells : (i < writing + 1 <=> i = writing \/ i < writing)
      BY <1>0, <2>2
    <3>. QED
      BY <2>2, <3>1, <3>2, <3>3, <3>4
  <2>5. CASE writing = Size
    <3>1. \A i \in Cells : flash'[i] = image[i]
      BY <1>0, <2>4, <2>5
    <3>2. flash' = image
      BY <2>3, <2>4, <3>1
    <3>3. writing' = 0 /\ 0 \in 0 .. Size
      BY <1>0, <2>1, <2>5
    <3>4. flash' = config_image(provisioned)'
      BY <2>1, <3>2 DEF image
    <3>. QED
      BY <2>1, <2>2, <2>4, <3>3, <3>4 DEF WifiInv
  <2>6. CASE writing # Size
    <3>1. writing + 1 \in 0 .. Size /\ writing + 1 # 0 /\ writing' = writing + 1
      BY <1>0, <2>1, <2>2, <2>6
    <3>2. \A i \in Cells : flash'[i] = IF i < writing' THEN config_image(provisioned)[i] ELSE Blank
      BY <2>4, <3>1 DEF image
    <3>3. provisioned' = provisioned /\ older' = older
      BY <2>1
    <3>. QED
      BY <2>2, <2>4, <3>1, <3>2, <3>3 DEF WifiInv
  <2>. QED
    BY <2>5, <2>6
<1>4. CASE WriteTorn
  <2>. DEFINE image == config_image(provisioned)
  <2>1. PICK b \in 0 .. Blank : flash' = [flash EXCEPT ![writing] = b]
    BY <1>4 DEF WriteTorn
  <2>2. writing # 0 /\ writing' = 0 /\ older' = provisioned /\ provisioned' = NoCredentials
    BY <1>4 DEF WriteTorn
  <2>3. /\ writing \in Cells /\ writing \in Nat /\ provisioned \in Valid /\ provisioned # NoCredentials
        /\ flash = [i \in Cells |-> flash[i]]
        /\ \A i \in Cells : flash[i] = IF i < writing THEN image[i] ELSE Blank
    BY <1>0, <2>2 DEF WifiInv
  <2>. HIDE DEF image
  <2>4. /\ flash' = [i \in Cells |-> flash'[i]] /\ flash'[writing] = b
        /\ \A i \in Cells : i # writing => flash'[i] = flash[i]
    BY <2>1, <2>3
  <2>5. /\ \A i \in Cells : i < writing => flash'[i] \in {Blank, image[i]}
        /\ \A i \in Cells : i > writing => flash'[i] = Blank
        /\ flash'[writing] \in 0 .. Blank /\ writing \in 1 .. Size + 1
    BY <1>0, <2>3, <2>4
  <2>6. Remains(older)'
    BY <2>2, <2>5 DEF Remains, Cells, Size, Header, image, config_image
  <2>. QED
    BY <1>0, <2>2, <2>3, <2>4, <2>6 DEF WifiInv
<1>5. CASE UNCHANGED wifiVars
  BY <1>5 DEF wifiVars, WifiInv, Remains, Erased
<1>. QED
  BY <1>1, <1>2, <1>3, <1>4, <1>5 DEF WifiNext

\* The record and the state of espflash agree, in every reachable state.
THEOREM WifiSafety == WifiSpec => []WifiInv
BY WifiInitially, WifiStep, PTL DEF WifiSpec

\* Credentials that the tool has written completely are those that the firmware
\* loads, for every SSID and password that config_image accepts.
THEOREM WifiProvisionedLoads == WifiSpec => []ProvisionedLoads
<1>1. WifiInv => ProvisionedLoads
  BY LoadImage DEF WifiInv, ProvisionedLoads
<1>. QED
  BY <1>1, WifiSafety, PTL

\* An interrupted provisioning leaves a record that load_wifi_credentials refuses
\* or that is complete, if the checksum has no collisions.
THEOREM WifiNeverTorn ==
  ASSUME CollisionFree PROVE WifiSpec => []NeverTorn
<1>1. WifiInv => NeverTorn
  <2>. SUFFICES ASSUME WifiInv PROVE NeverTorn
    OBVIOUS
  <2>0. Size \in Nat /\ Cells = 1 .. Size /\ Blank \in 0 .. Blank
    BY Sizes
  <2>1. CASE writing # 0
    <3>1. provisioned \in Valid /\ writing \in 1 .. Size + 1 /\ writing \in Nat
      BY <2>0, <2>1 DEF WifiInv
    <3>2. \A i \in Cells : flash[i] = IF i < writing THEN config_image(provisioned)[i] ELSE Blank
      BY <2>1 DEF WifiInv
    <3>3. /\ \A i \in Cells : i < writing => flash[i] \in {Blank, config_image(provisioned)[i]}
          /\ \A i \in Cells : i > writing => flash[i] = Blank
          /\ writing \in Cells => flash[writing] \in 0 .. Blank
      BY <2>0, <3>1, <3>2
    <3>4. Remains(provisioned)
      BY <3>1, <3>3 DEF Remains
    <3>. QED
      BY <3>1, <3>4, LoadRemains DEF NeverTorn
  <2>2. CASE writing = 0 /\ provisioned # NoCredentials
    BY <2>2, LoadImage DEF WifiInv, NeverTorn
  <2>3. CASE provisioned = NoCredentials
    BY <2>3, LoadErased, LoadRemains DEF WifiInv, NeverTorn
  <2>. QED
    BY <2>1, <2>2, <2>3
<1>. QED
  BY <1>1, WifiSafety, PTL

=============================================================================
