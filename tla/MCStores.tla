------------------------------ MODULE MCStores ------------------------------
(* The three things that outlive a process or a power cycle: config.json, the
   log files and the record of the Wi-Fi credentials.  They share no state, so
   that a behaviour exercises one of them. *)
EXTENDS HostConfig, HostLog, WifiRecord

ASSUME ChecksumAssumption == CollisionFree

VARIABLE store   \* the one that this behaviour is about

storesVars == <<store, vars, logVars, wifiVars>>

StoresInit ==
  /\ store \in {"config", "log", "wifi"}
  /\ Init /\ LogInit /\ WifiInit

StoresNext ==
  /\ UNCHANGED store
  /\ \/ store = "config" /\ Next /\ UNCHANGED <<logVars, wifiVars>>
     \/ store = "log" /\ LogNext /\ UNCHANGED <<vars, wifiVars>>
     \/ store = "wifi" /\ WifiNext /\ UNCHANGED <<vars, logVars>>

StoresSpec == StoresInit /\ [][StoresNext]_storesVars

=============================================================================
