--------------------------- MODULE DeviceRegistry ---------------------------
(***************************************************************************)
(* The device registry: internal/devices/registry.go and the "devices"     *)
(* table behind it, internal/devices/store.go.                             *)
(*                                                                         *)
(* The registry keeps an in-memory map of connected devices and a table of *)
(* device rows.  The two are written by separate statements, each under    *)
(* its own lock (the map) or as one SQL statement (the table), so a caller *)
(* such as Delete is two steps here.  The stale-device checker is a        *)
(* goroutine of its own and its steps are actions of this module; the      *)
(* other operations are operators the agent sessions use in their steps.   *)
(***************************************************************************)
EXTENDS Naturals, FiniteSets

CONSTANTS
    Device,     \* the device ids agents announce
    NoDevice,   \* the empty device id
    LongLived,  \* the devices whose rows get older than the checker's timeout
    MaxFaults   \* how many SQL statements may fail, over a whole behaviour

ASSUME DeviceAssumption == NoDevice \notin Device
ASSUME LongLivedAssumption == LongLived \subseteq Device
ASSUME FaultAssumption == MaxFaults \in Nat

VARIABLES
    online,     \* Registry.connections: the devices with an entry in the map
    status,     \* the devices table: "none" when there is no row
    aged,       \* the devices whose row has a last_seen older than the timeout
    staleTodo,  \* CheckStaleDevices: listed devices not looked at yet
    staleMark,  \* CheckStaleDevices: the device it is about to mark offline
    faults      \* SQL statements that failed so far

registryVars == <<online, status, aged, staleTodo, staleMark, faults>>

RegistryTypeOK ==
    /\ online \in SUBSET Device
    /\ status \in [Device -> {"none", "online", "offline"}]
    /\ aged \in SUBSET Device
    /\ staleTodo \in SUBSET Device
    /\ staleMark \in Device \cup {NoDevice}
    /\ faults \in 0..MaxFaults

RegistryInit ==
    /\ online = {}
    /\ status = [d \in Device |-> "none"]
    /\ aged = {}
    /\ staleTodo = {}
    /\ staleMark = NoDevice
    /\ faults = 0

HasRow(d) == status[d] # "none"

\* One SQL statement returns an error (a locked database, a full disk).
SqlFault ==
    /\ faults < MaxFaults
    /\ faults' = faults + 1

\* Register writes a row that is online and was seen just now.
WriteRow(d) ==
    /\ status' = [status EXCEPT ![d] = "online"]
    /\ aged' = aged \ {d}

\* Store.Create fails when there is a row by now, Store.Update when there is
\* none left.
CreateRow(d) == ~HasRow(d) /\ WriteRow(d)
UpdateRow(d) == HasRow(d) /\ WriteRow(d)

\* Store.Delete: a missing row is an error its caller only logs.
DeleteRow(d) ==
    /\ status' = [status EXCEPT ![d] = "none"]
    /\ aged' = aged \ {d}

\* Registry.SetConnection and the first half of Registry.Delete.
SetConnection(d) == online' = online \cup {d}
ForgetConnection(d) == online' = online \ {d}

-----------------------------------------------------------------------------
\* Time passes: last_seen is written at registration only (UpdateHeartbeat
\* writes nothing), so any row gets older than the checker's timeout.
Age(d) ==
    /\ d \in LongLived /\ HasRow(d) /\ d \notin aged
    /\ aged' = aged \cup {d}
    /\ UNCHANGED <<online, status, staleTodo, staleMark, faults>>

\* CheckStaleDevices, the query: the rows that are online, of which only the
\* aged ones can pass the later test on the LastSeen read here.
StaleList ==
    /\ staleTodo = {} /\ staleMark = NoDevice
    /\ staleTodo' = {d \in aged : status[d] = "online"}
    /\ staleTodo' # {}
    /\ UNCHANGED <<online, status, aged, staleMark, faults>>

\* CheckStaleDevices, one turn of the loop up to the UPDATE: the lookup in the
\* map is under r.mu, which is released before the UPDATE.
StaleLook(d) ==
    /\ staleMark = NoDevice /\ d \in staleTodo
    /\ staleTodo' = staleTodo \ {d}
    /\ staleMark' = IF d \in online THEN NoDevice ELSE d
    /\ UNCHANGED <<online, status, aged, faults>>

\* CheckStaleDevices, the UPDATE, which also writes back the LastSeen that was
\* listed.  No row to update is an error and ends the pass.
StaleUpdate ==
    /\ staleMark # NoDevice
    /\ staleMark' = NoDevice
    /\ \/ /\ HasRow(staleMark)
          /\ status' = [status EXCEPT ![staleMark] = "offline"]
          /\ aged' = aged \cup {staleMark}
          /\ UNCHANGED <<staleTodo, faults>>
       \/ /\ ~HasRow(staleMark)
          /\ staleTodo' = {}
          /\ UNCHANGED <<status, aged, faults>>
       \/ /\ SqlFault
          /\ staleTodo' = {}
          /\ UNCHANGED <<status, aged>>
    /\ UNCHANGED online

StaleChecker == StaleList \/ (\E d \in Device : StaleLook(d)) \/ StaleUpdate

\* CleanupAllDevices, which the start-up code calls before it serves: both the
\* map and the table are emptied, unless the DELETE fails.
CleanupAllDevices ==
    /\ online' = {}
    /\ \/ status' = [d \in Device |-> "none"] /\ aged' = {} /\ UNCHANGED faults
       \/ SqlFault /\ UNCHANGED <<status, aged>>
    /\ staleTodo' = {}
    /\ staleMark' = NoDevice
=============================================================================
