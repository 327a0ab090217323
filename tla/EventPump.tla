----------------------------- MODULE EventPump -----------------------------
(***************************************************************************)
(* How a changed variable reaches its handler: the monitor task compares   *)
(* every registered variable with its shadow once a second                 *)
(* (Module/md_monitor.c), tells the event task (Module/md_event.c), which  *)
(* tells the dispatcher (vSystem_EventPollTask); the 10 s poll task        *)
(* (vSystem_ParameterSysn) recomputes some of the variables without being  *)
(* told.                                                                   *)
(*                                                                         *)
(* Facts of the kernel the model uses (external):                          *)
(*  - eTaskCreate gives every task a message queue of size 0, so a post    *)
(*    reaches only a task that is pending; any other post fails and every  *)
(*    caller ignores the error;                                            *)
(*  - monitor and event task share priority 5 without time slicing: the    *)
(*    event task runs after the whole scan, and the tasks that write the   *)
(*    variables (priorities 6 to 11) do not run during it;                 *)
(*  - the dispatcher has priority 4: a successful post runs its handler at *)
(*    once.                                                                *)
(*                                                                         *)
(* The monitor compares cells of memory, not variables: a registration     *)
(* whose type is wider than the variable takes in the variable behind it.  *)
(* xCommErr, a BOOL, is registered as an int16 (modularRoof.c:346) and its *)
(* cell holds xStopErrFlag too (modularRoof.h:89-90), so every change of   *)
(* the one is reported as a change of the other.                           *)
(***************************************************************************)
EXTENDS Naturals, Sequences

CONSTANTS
    Vars,           \* the variables the dispatcher has a handler for
    Vals,           \* their values
    InitVal,        \* the value all of them start with
    Cell,           \* per variable: the variables its registered type spans
    HandlerReads,   \* per variable: the variables its handler acts upon
    ScanOrder,      \* the variables in the order MonitorList holds them
    Registered,     \* those whose registration call is executed correctly
    UninitRegistered, \* those registered through an uninitialised pointer
    Resynced,       \* those vSystem_ParameterSysn recomputes
    BMSVars,        \* those BMS_InitDefaultData overwrites at start-up
    Rejectable,     \* those whose handler may refuse and write back
    MaxWrites       \* bound on the number of changes of one cell

ASSUME VarsAssumption ==
    /\ InitVal \in Vals
    /\ Cell \in [Vars -> SUBSET Vars]
    /\ HandlerReads \in [Vars -> SUBSET Vars]
    /\ \A v \in Vars : v \in Cell[v] /\ v \in HandlerReads[v]
    /\ ScanOrder \in Seq(Vars)
    /\ Registered \cup UninitRegistered
         \subseteq {ScanOrder[i] : i \in DOMAIN ScanOrder}
    /\ Resynced \subseteq Vars /\ BMSVars \subseteq Vars
    /\ Rejectable \subseteq Vars
    /\ MaxWrites \in Nat

NoMsg == "no message"
ASSUME NoMsgAssumption == NoMsg \notin Vars

VARIABLES
    monitored,      \* the variables that really are in MonitorList
    val,            \* the variables
    usDataVal,      \* the monitor's shadow of the cell of each
    sEventMsg,      \* pvArg of the monitor's one message buffer
    eventTask,      \* "pending" on its queue, or "ready" with a message
    dispatcher,     \* "boot": waiting for the EEPROM; "pending" on its queue
    applied,        \* the value the system last acted upon
    written,        \* history: changes of the cell of each variable
    dispatched      \* history: handler calls for each variable

history == <<written, dispatched>>
vars == <<monitored, val, usDataVal, sEventMsg, eventTask, dispatcher, applied,
          history>>

(* The contents of the cell registered for a variable.                       *)
CellVal(v) == [u \in Cell[v] |-> val[u]]

TypeOK ==
    /\ monitored \subseteq Vars
    /\ val \in [Vars -> Vals]
    /\ usDataVal \in [Vars -> UNION {[Cell[v] -> Vals] : v \in Vars}]
    /\ \A v \in Vars : usDataVal[v] \in [Cell[v] -> Vals]
    /\ sEventMsg \in Vars \cup {NoMsg}
    /\ eventTask \in {"pending", "ready"}
    /\ dispatcher \in {"boot", "pending"}
    /\ applied \in [Vars -> Vals]
    /\ written \in [Vars -> Nat]
    /\ dispatched \in [Vars -> Nat]

-----------------------------------------------------------------------------
(* Registration happens before the tasks run.  sensor.c:139 and sensor.c:293 *)
(* register through a pointer that was never set: it may be the right one.   *)
Init ==
    /\ \E lucky \in SUBSET UninitRegistered : monitored = Registered \cup lucky
    /\ val = [v \in Vars |-> InitVal]
    /\ usDataVal = [v \in Vars |-> CellVal(v)]
    /\ sEventMsg = NoMsg
    /\ eventTask = "pending"
    /\ dispatcher = "boot"
    /\ applied = val
    /\ written = [v \in Vars |-> 0]
    /\ dispatched = written

(* A change of val is a change of every cell it touches.                     *)
CountChanges ==
    written' = [v \in Vars |-> written[v] + IF CellVal(v)' # CellVal(v) THEN 1 ELSE 0]

(* A Modbus exchange, an input scan or a device's timer changes a variable.  *)
Write(v, x) ==
    /\ x # val[v]
    /\ written[v] < MaxWrites
    /\ val' = [val EXCEPT ![v] = x]
    /\ CountChanges
    /\ UNCHANGED <<monitored, usDataVal, sEventMsg, eventTask, dispatcher,
                   applied, dispatched>>

(* The type of the registration decides how much is read and compared.       *)
Changed == {v \in monitored : usDataVal[v] # CellVal(v)}

(* The variable whose address the last iteration of the scan left in the     *)
(* message buffer.                                                           *)
LastChanged ==
    LET at == {i \in DOMAIN ScanOrder : ScanOrder[i] \in Changed}
    IN  ScanOrder[CHOOSE i \in at : \A j \in at : j <= i]

Shadowed_Never == usDataVal
Shadowed == [v \in Vars |-> IF v \in monitored THEN CellVal(v) ELSE usDataVal[v]]

(* One pass of vMonitorPollTask.  Its first post makes the event task ready; *)
(* the others of the pass fail, while the buffer goes on changing.           *)
Scan ==
    /\ usDataVal' = Shadowed
    /\ IF Changed # {}
       THEN sEventMsg' = LastChanged /\ eventTask' = "ready"
       ELSE UNCHANGED <<sEventMsg, eventTask>>
    /\ UNCHANGED <<monitored, val, dispatcher, applied, history>>

Accept_Address(v) ==
    /\ applied' = [applied EXCEPT ![v] = v]
    /\ UNCHANGED <<val, written>>

(* A handler acts upon every value it reads, or refuses its variable's and   *)
(* writes the old one back.                                                  *)
Accept(v) ==
    /\ applied' = [u \in Vars |-> IF u \in HandlerReads[v] THEN val[u] ELSE applied[u]]
    /\ UNCHANGED <<val, written>>

Reject(v) ==
    /\ v \in Rejectable
    /\ written[v] < MaxWrites
    /\ val' = [val EXCEPT ![v] = applied[v]]
    /\ CountChanges
    /\ UNCHANGED applied

(* vEventPollTask forwards whatever the buffer holds by now; the dispatcher  *)
(* handles it at once if it is pending and never hears of it otherwise.      *)
Forward ==
    /\ eventTask = "ready"
    /\ eventTask' = "pending"
    /\ IF dispatcher = "pending"
       THEN /\ Accept(sEventMsg) \/ Reject(sEventMsg)
            /\ dispatched' = [dispatched EXCEPT ![sEventMsg] = @ + 1]
       ELSE UNCHANGED <<val, applied, history>>
    /\ UNCHANGED <<monitored, usDataVal, sEventMsg, dispatcher>>

(* The EEPROM data is ready: BMS_InitDefaultData copies the system's values  *)
(* over the BMS's and the dispatcher starts to pend.                         *)
Boot ==
    /\ dispatcher = "boot"
    /\ dispatcher' = "pending"
    /\ val' = [v \in Vars |-> IF v \in BMSVars THEN applied[v] ELSE val[v]]
    /\ CountChanges
    /\ UNCHANGED <<monitored, usDataVal, sEventMsg, eventTask, applied, dispatched>>

Poll_Unmonitored ==
    /\ applied' = [v \in Vars |-> IF v \in Resynced \ monitored
                                 THEN val[v] ELSE applied[v]]
    /\ UNCHANGED <<monitored, val, usDataVal, sEventMsg, eventTask, dispatcher,
                   history>>

(* vSystem_ParameterSysn calls these handlers every 10 s.                    *)
Poll ==
    /\ applied' = [v \in Vars |-> IF v \in Resynced THEN val[v] ELSE applied[v]]
    /\ UNCHANGED <<monitored, val, usDataVal, sEventMsg, eventTask, dispatcher,
                   history>>

Next ==
    \/ \E v \in Vars, x \in Vals : Write(v, x)
    \/ Scan
    \/ Forward
    \/ Boot
    \/ Poll

Spec == Init /\ [][Next]_vars

(* The three tasks loop for ever and the EEPROM read ends.                   *)
FairSpec == Spec /\ WF_vars(Scan) /\ WF_vars(Forward) /\ WF_vars(Boot)
                 /\ WF_vars(Poll)

-----------------------------------------------------------------------------
(* The change the event task has been told of, and the change the monitor    *)
(* has yet to see.                                                           *)
InFlight(v) == IF eventTask = "ready" /\ sEventMsg = v THEN 1 ELSE 0
Unseen(v)   == IF v \in Changed THEN 1 ELSE 0

(* A handler call is always due to a change of the cell registered for its   *)
(* variable, and to one call at most per change: every change is dispatched, *)
(* in flight, unseen or lost.  Neither the shared buffer (overwritten while  *)
(* the event task waits), nor posts lost while the dispatcher boots, nor     *)
(* values a handler writes back itself make the dispatcher act without       *)
(* cause, and the event task never wakes without a message.                  *)
ChangesAccounted ==
    /\ eventTask = "ready" => sEventMsg \in Vars
    /\ \A v \in Vars : dispatched[v] + InFlight(v) + Unseen(v) <= written[v]

(* A variable the poll task recomputes is brought up to date again and       *)
(* again, whether or not its events are lost or it was ever registered.      *)
ResyncedUpToDate == \A v \in Resynced : []<>(applied[v] = val[v])

(* system.c:558 binds the changes of a unit's variables to the dispatcher:   *)
(* a changed value of a registered variable is acted upon once the           *)
(* dispatcher runs.                                                          *)
UnitChangeHandled ==
    \A v \in Registered :
        (dispatcher = "pending" /\ usDataVal[v][v] # val[v]) ~> (applied[v] = val[v])
=============================================================================
