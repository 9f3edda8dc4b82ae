------------------------------ MODULE HostConfig ------------------------------
(***************************************************************************)
(* The configuration that the host serves to all browsers and keeps in     *)
(* config.json (src/host/src/main.rs): GET and PUT /config, the file is    *)
(* replaced through config.json.tmp, a restart loads it again.             *)
(*                                                                         *)
(* The handlers run on several threads and persist_host_config takes no    *)
(* lock, so that its system calls interleave with those of other PUTs; the *)
(* browser sends a PUT for every step of a slider without waiting for the  *)
(* one before.  The process may die at any point; what the kernel has done *)
(* by then stays done (no loss of power).  An open file is known by the    *)
(* name it has: renaming it does not close it.                             *)
(***************************************************************************)
EXTENDS FiniteSets

CONSTANTS
  Puts,      \* PUT requests that can be in progress at the same time
  Configs,   \* configurations that validate_host_config accepts
  Default,   \* HostConfig::default()
  Invalid,   \* a configuration that it rejects
  Absent,    \* no such file
  Empty,     \* a file just created or truncated
  Torn,      \* a file that is not a configuration
  IoErrors   \* whether the file system may refuse an operation

ASSUME ConfigAssumption ==
  /\ Default \in Configs
  /\ Configs \cap {Invalid, Absent, Empty, Torn} = {}
  /\ Cardinality({Invalid, Absent, Empty, Torn}) = 4
  /\ IoErrors \in BOOLEAN

VARIABLES
  mem,    \* AppState.config
  disk,   \* config.json
  tmp,    \* config.json.tmp
  pc,     \* where each PUT is
  cfg,    \* its configuration
  file    \* the name of the file it has open

vars == <<mem, disk, tmp, pc, cfg, file>>

Content == Configs \cup {Invalid, Absent, Empty, Torn}

TypeOK ==
  /\ mem \in Configs
  /\ disk \in Content
  /\ tmp \in Content
  /\ pc \in [Puts -> {"idle", "persisting", "created", "written", "renamed"}]
  /\ cfg \in [Puts -> Configs]
  /\ file \in [Puts -> {"none", "tmp", "disk"}]

\* load_host_config: what cannot be read, parsed or validated is ignored.
load_host_config(content) == IF content \in Configs THEN content ELSE Default

\* The first start finds whatever a user may have left there.
Init ==
  /\ disk \in Content \ {Empty}
  /\ tmp = Absent
  /\ mem = load_host_config(disk)
  /\ pc = [r \in Puts |-> "idle"]
  /\ cfg = [r \in Puts |-> Default]
  /\ file = [r \in Puts |-> "none"]

Idle(r) ==
  /\ pc' = [pc EXCEPT ![r] = "idle"]
  /\ cfg' = [cfg EXCEPT ![r] = Default]
  /\ file' = [file EXCEPT ![r] = "none"]

-----------------------------------------------------------------------------
(* put_config and persist_host_config                                      *)

\* validate_host_config: a configuration that is not valid is answered with 400
\* and goes no further.
Put(r, c) ==
  /\ pc[r] = "idle"
  /\ c \in Configs
  /\ pc' = [pc EXCEPT ![r] = "persisting"]
  /\ cfg' = [cfg EXCEPT ![r] = c]
  /\ UNCHANGED <<mem, disk, tmp, file>>

\* config.json itself is truncated and written.
CreateInPlace(r) ==
  /\ pc[r] = "persisting"
  /\ disk' = Empty
  /\ file' = [file EXCEPT ![r] = "disk"]
  /\ pc' = [pc EXCEPT ![r] = "created"]
  /\ UNCHANGED <<mem, tmp, cfg>>

\* fs::write opens config.json.tmp, truncating what another PUT has in it.
Create(r) ==
  /\ pc[r] = "persisting"
  /\ tmp' = Empty
  /\ file' = [file EXCEPT ![r] = "tmp"]
  /\ pc' = [pc EXCEPT ![r] = "created"]
  /\ UNCHANGED <<mem, disk, cfg>>

\* The content of the open file of r becomes new.
Fill(r, new) ==
  /\ tmp'  = IF file[r] = "tmp" THEN new ELSE tmp
  /\ disk' = IF file[r] = "disk" THEN new ELSE disk

\* fs::write writes the bytes.  Over those of another PUT, which may have been
\* more, a rest of these can remain.
WriteFile(r) ==
  /\ pc[r] = "created"
  /\ \/ Fill(r, cfg[r])
     \/ (IF file[r] = "tmp" THEN tmp ELSE disk) # Empty /\ Fill(r, Torn)
  /\ pc' = [pc EXCEPT ![r] = "written"]
  /\ file' = [file EXCEPT ![r] = "none"]
  /\ UNCHANGED <<mem, cfg>>

\* No directory, no permission, no space, or the file has been renamed by
\* another PUT already: the PUT is answered with 500.
PersistFails(r) ==
  /\ \/ /\ pc[r] \in {"persisting", "written"}
        /\ IoErrors \/ (pc[r] = "written" /\ tmp = Absent)
        /\ UNCHANGED <<disk, tmp>>
     \/ pc[r] = "created" /\ IoErrors /\ Fill(r, Torn)
  /\ Idle(r)
  /\ UNCHANGED mem

\* fs::rename: another PUT that still writes to the file goes on doing so under
\* its new name.
Rename(r) ==
  /\ pc[r] = "written"
  /\ tmp # Absent
  /\ disk' = tmp
  /\ tmp' = Absent
  /\ file' = [q \in Puts |-> IF file[q] = "tmp" THEN "disk" ELSE "none"]
  /\ pc' = [pc EXCEPT ![r] = "renamed"]
  /\ UNCHANGED <<mem, cfg>>

\* The PUT is acknowledged before memory is brought up to date.
ServeForgotten(r) ==
  /\ pc[r] = "renamed"
  /\ Idle(r)
  /\ UNCHANGED <<mem, disk, tmp>>

\* The configuration in memory is replaced and the PUT is acknowledged.
Serve(r) ==
  /\ pc[r] = "renamed"
  /\ mem' = cfg[r]
  /\ Idle(r)
  /\ UNCHANGED <<disk, tmp>>

\* The host dies and is started again.
Restart ==
  /\ mem' = load_host_config(disk)
  /\ pc' = [r \in Puts |-> "idle"]
  /\ cfg' = [r \in Puts |-> Default]
  /\ file' = [r \in Puts |-> "none"]
  /\ UNCHANGED <<disk, tmp>>

Next ==
  \/ \E r \in Puts :
       \/ \E c \in Configs \cup {Invalid} : Put(r, c)
       \/ Create(r) \/ WriteFile(r) \/ PersistFails(r) \/ Rename(r) \/ Serve(r)
  \/ Restart

Spec == Init /\ [][Next]_vars

-----------------------------------------------------------------------------

Quiescent == \A r \in Puts : pc[r] = "idle"

\* "stored by the Linux host in config.json [...] Every browser opening the host
\* UI therefore receives the same configuration after a reload" (README.md):
\* when no PUT is in progress, what the host serves is what a restart of it
\* would serve.
StoredIsServed == Quiescent => load_host_config(disk) = mem

\* A host that dies in the middle of a PUT comes back with the configuration it
\* served or with that of the PUT, whatever had been done of it.
RestartKeepsConfig ==
  [][Restart => mem' \in {mem} \cup {cfg[r] : r \in {q \in Puts : pc[q] # "idle"}}]_vars

=============================================================================
