----------------------------- MODULE ParamStore -----------------------------
(***************************************************************************)
(* The parameter store (Module/md_eeprom.c).  Variables register with a    *)
(* type; each type has a RAM buffer and a range of EEPROM pages.  The task *)
(* initialises the pages on the first run, reads them back, tells the      *)
(* dispatcher that the parameters are ready and from then on compares the  *)
(* variables with the buffers once a second and writes what changed.  The  *)
(* task sleeps after every driver call, so one type is one step: the BMS,  *)
(* the dispatcher and the run-time timer act in between, and the power may *)
(* fail.  One value stands for all variables of a type.                    *)
(***************************************************************************)
EXTENDS Integers

CONSTANTS
    Types,                  \* the types that have a registered variable
    Settings,               \* the values of a parameter that are distinguished
    Default,                \* the value the constructors give a parameter
    RunTimeWrap,            \* 65535 h in periods of the run-time timer
    WriteIntv               \* changes per write: X_WRITE_INTV

AllTypes == {"uint8", "int8", "uint16", "int16", "uint32", "int32", "runtime",
             "e32"}

(* Run times are counted in periods of 10 s, the others are settings.        *)
Domain(t) == IF t = "runtime" THEN 0 .. RunTimeWrap - 1 ELSE Settings
Initial(t) == IF t = "runtime" THEN 0 ELSE Default

ASSUME TypesAssumption == Types \subseteq AllTypes /\ "uint8" \in Types
ASSUME DomainAssumption == /\ Default \in Settings
                           /\ RunTimeWrap \in Nat \ {0}
                           /\ WriteIntv \in [Types -> Nat \ {0}]

VARIABLES
    pc,             \* where the task is: "off", "check", "first", "read", "run"
    todo,           \* the types of this pass it has not come to yet
    store,          \* what the pages of a type hold
    buf,            \* DataBufUint8, DataBufUint16, ...
    val,            \* the registered variables
    firstStore,     \* the first-run flag in the last byte of the uint8 page
    firstBuf,       \* and in DataBufUint8
    changedTimes,   \* DataBufUint8ChangedTimes, ...
    ticked,         \* a run time has advanced since the task last looked
    settled,        \* history: the parameters were ready once
    written,        \* history: the types the firmware has written
    cutInFirst      \* history: the power failed during the first write

histories == <<settled, written, cutInFirst>>
vars == <<pc, todo, store, buf, val, firstStore, firstBuf, changedTimes, ticked,
          histories>>

Image(f) == /\ f \in [Types -> Settings \cup Nat]
            /\ \A t \in Types : f[t] \in Domain(t)

TypeOK ==
    /\ pc \in {"off", "check", "first", "read", "run"}
    /\ todo \subseteq Types
    /\ Image(store) /\ Image(buf) /\ Image(val)
    /\ firstStore \in BOOLEAN /\ firstBuf \in BOOLEAN
    /\ changedTimes \in [Types -> Nat]
    /\ ticked \in BOOLEAN
    /\ settled \in BOOLEAN /\ cutInFirst \in BOOLEAN
    /\ written \subseteq Types

-----------------------------------------------------------------------------
(* The layout: first page, bytes per element and number of elements.         *)
PageAddr == [uint8 |-> 0, int8 |-> 2, uint16 |-> 3, int16 |-> 5, uint32 |-> 6,
             int32 |-> 7, runtime |-> 8, e32 |-> 9]
Width    == [uint8 |-> 1, int8 |-> 1, uint16 |-> 2, int16 |-> 2, uint32 |-> 4,
             int32 |-> 4, runtime |-> 4, e32 |-> 4]
Count    == [uint8 |-> 5, int8 |-> 1, uint16 |-> 36, int16 |-> 1, uint32 |-> 2,
             int32 |-> 1, runtime |-> 6, e32 |-> 1]
PageSize == 64

(* UINT8_SAVE_SIZE, ...: the length in bytes.  The periodic write of e32     *)
(* passes the one of the run times; nothing lies behind its pages.           *)
SaveSize(t) == IF t = "e32" THEN Count["runtime"] * Width["runtime"]
                            ELSE Count[t] * Width[t]

(* The driver takes the length as a number of elements and goes on in the    *)
(* next page when one is full.                                               *)
PagesWritten(t) ==
    PageAddr[t] .. PageAddr[t] + ((SaveSize(t) * Width[t] - 1) \div PageSize)

Reached(t) == {u \in Types \ {t} : PageAddr[u] \in PagesWritten(t)}
Victims    == UNION {Reached(t) : t \in Types}

(* EEPROM_Write: the buffer of t goes to its pages; the pages of the types   *)
(* it reaches get what lies in RAM behind that buffer, which may be anything.*)
EEPROM_Write(t, image, flag) ==
    /\ \E junk \in [Reached(t) -> Settings] :
           store' = [u \in Types |-> IF u = t THEN image
                                    ELSE IF u \in Reached(t) THEN junk[u]
                                    ELSE store[u]]
    /\ firstStore' = IF t = "uint8" THEN flag ELSE firstStore
    /\ written' = written \cup {t}

-----------------------------------------------------------------------------
(* The types are handled in the order of their pages.                        *)
Turn(t) == t \in todo /\ \A u \in todo : PageAddr[t] <= PageAddr[u]

(* RAM as the constructors leave it: the defaults in the variables and, by   *)
(* their registration, in the buffers; the flag is registered last, as TRUE. *)
Registered ==
    /\ todo' = {}
    /\ val' = [t \in Types |-> Initial(t)] /\ buf' = [t \in Types |-> Initial(t)]
    /\ firstBuf' = TRUE
    /\ changedTimes' = [t \in Types |-> 0] /\ ticked' = FALSE

(* A board that was prepared for its first run: the flag is set, and the     *)
(* pages hold whatever was there.                                            *)
Init ==
    /\ pc = "check" /\ todo = {}
    /\ store \in [Types -> Settings \cup 0 .. RunTimeWrap - 1] /\ Image(store)
    /\ firstStore = TRUE
    /\ val = [t \in Types |-> Initial(t)] /\ buf = [t \in Types |-> Initial(t)]
    /\ firstBuf = TRUE
    /\ changedTimes = [t \in Types |-> 0] /\ ticked = FALSE
    /\ settled = FALSE /\ written = {} /\ cutInFirst = FALSE

PowerCut ==
    /\ pc # "off" /\ pc' = "off"
    /\ Registered
    /\ cutInFirst' = (cutInFirst \/ pc = "first")
    /\ UNCHANGED <<store, firstStore, settled, written>>

PowerOn ==
    /\ pc = "off" /\ pc' = "check"
    /\ UNCHANGED <<todo, store, buf, val, firstStore, firstBuf, changedTimes,
                   ticked, histories>>

Check_KeepFlag ==
    /\ pc = "check" /\ pc' = IF firstStore THEN "first" ELSE "read"
    /\ todo' = Types
    /\ UNCHANGED <<store, buf, val, firstStore, firstBuf, changedTimes, ticked,
                   histories>>

(* The task looks at the stored flag; on a first run it clears the flag in   *)
(* the buffer before the buffers are written.                                *)
Check ==
    /\ pc = "check" /\ pc' = IF firstStore THEN "first" ELSE "read"
    /\ todo' = Types
    /\ firstBuf' = (firstBuf /\ ~firstStore)
    /\ UNCHANGED <<store, buf, val, firstStore, changedTimes, ticked, histories>>

FirstWrite_FlagOnly(t) ==
    /\ pc = "first" /\ Turn(t)
    /\ EEPROM_Write(t, buf[t], firstBuf)
    /\ todo' = Types /\ pc' = "read"
    /\ UNCHANGED <<buf, val, firstBuf, changedTimes, ticked, settled, cutInFirst>>

(* vWriteEEPROMDataFirstTime, one type; after the last one the pages are read. *)
FirstWrite(t) ==
    /\ pc = "first" /\ Turn(t)
    /\ EEPROM_Write(t, buf[t], firstBuf)
    /\ todo' = IF todo = {t} THEN Types ELSE todo \ {t}
    /\ pc'   = IF todo = {t} THEN "read" ELSE pc
    /\ UNCHANGED <<buf, val, firstBuf, changedTimes, ticked, settled, cutInFirst>>

(* vReadEEPROMData, first half: one type's pages into its buffer.            *)
ReadPage(t) ==
    /\ pc = "read" /\ Turn(t)
    /\ buf' = [buf EXCEPT ![t] = store[t]]
    /\ firstBuf' = IF t = "uint8" THEN firstStore ELSE firstBuf
    /\ todo' = todo \ {t}
    /\ UNCHANGED <<pc, store, val, firstStore, changedTimes, ticked, histories>>

(* Second half: all buffers into the variables, whatever the BMS wrote there *)
(* meanwhile, and EEPROMDataReady.                                           *)
CopyAll ==
    /\ pc = "read" /\ todo = {}
    /\ val' = buf
    /\ pc' = "run" /\ todo' = Types
    /\ settled' = TRUE
    /\ UNCHANGED <<store, buf, firstStore, firstBuf, changedTimes, ticked, written,
                   cutInFirst>>

EEPROMDataReady == pc = "run"

Saved_OldBuffer(t, due) ==
    /\ pc = "run" /\ Turn(t)
    /\ buf' = [buf EXCEPT ![t] = val[t]]
    /\ IF due THEN EEPROM_Write(t, buf[t], firstBuf)
              ELSE UNCHANGED <<store, firstStore, written>>
    /\ changedTimes' = [changedTimes EXCEPT ![t] =
                            IF due THEN 0
                            ELSE IF buf[t] # val[t] THEN @ + 1 ELSE @]
    /\ ticked' = (ticked /\ t # "runtime")
    /\ UNCHANGED <<pc, val, firstBuf, settled, cutInFirst>>

(* vWriteEEPROMData, one type: a changed variable goes to the buffer and     *)
(* counts; the buffer is written when enough changes were counted.           *)
Saved(t, due) ==
    /\ pc = "run" /\ Turn(t)
    /\ buf' = [buf EXCEPT ![t] = val[t]]
    /\ IF due THEN EEPROM_Write(t, val[t], firstBuf)
              ELSE UNCHANGED <<store, firstStore, written>>
    /\ changedTimes' = [changedTimes EXCEPT ![t] =
                            IF due THEN 0
                            ELSE IF buf[t] # val[t] THEN @ + 1 ELSE @]
    /\ ticked' = (ticked /\ t # "runtime")
    /\ UNCHANGED <<pc, val, firstBuf, settled, cutInFirst>>

NextType(t) == todo' = IF todo = {t} THEN Types ELSE todo \ {t}

(* Whether this change completes the write interval.                         *)
Due(t) == buf[t] # val[t] /\ changedTimes[t] + 1 >= WriteIntv[t]

Scan_Late(t) ==
    /\ Saved(t, buf[t] # val[t] /\ changedTimes[t] >= WriteIntv[t])
    /\ NextType(t)

Scan_Restart(t) ==
    /\ Saved(t, Due(t))
    /\ todo' = IF todo = {t} \/ Due(t) THEN Types ELSE todo \ {t}

Scan(t) == Saved(t, Due(t)) /\ NextType(t)

(* The BMS writes some uint16 parameters and the int16 one in place, at any  *)
(* time; the others are set by the dispatcher, which waits until the         *)
(* parameters are ready.                                                     *)
Change(t, x) ==
    /\ t # "runtime"
    /\ IF t \in {"uint16", "int16"} THEN pc # "off" ELSE EEPROMDataReady
    /\ val' = [val EXCEPT ![t] = x]
    /\ UNCHANGED <<pc, todo, store, buf, firstStore, firstBuf, changedTimes,
                   ticked, histories>>

Tick_NoWrap ==
    /\ "runtime" \in Types /\ EEPROMDataReady /\ ~ticked
    /\ val' = [val EXCEPT !["runtime"] = @ + 1]
    /\ ticked' = TRUE
    /\ UNCHANGED <<pc, todo, store, buf, firstStore, firstBuf, changedTimes,
                   histories>>

(* vSystem_PollTmrCallback: a device has run for another 10 s.  The boot and *)
(* a pass over the types take less than that, so it is seen before the next. *)
Tick ==
    /\ "runtime" \in Types /\ EEPROMDataReady /\ ~ticked
    /\ val' = [val EXCEPT !["runtime"] = IF @ + 1 >= RunTimeWrap THEN 0 ELSE @ + 1]
    /\ ticked' = TRUE
    /\ UNCHANGED <<pc, todo, store, buf, firstStore, firstBuf, changedTimes,
                   histories>>

Task == Check \/ CopyAll \/ \E t \in Types : FirstWrite(t) \/ ReadPage(t) \/ Scan(t)

Next == Task \/ Tick \/ PowerOn \/ PowerCut
             \/ \E t \in Types : \E x \in Domain(t) : Change(t, x)

Spec == Init /\ [][Next]_vars

(* The task is never blocked for good while there is power.                  *)
FairSpec == Spec /\ WF_vars(Task)

-----------------------------------------------------------------------------
(* The defaults are written once in a board's life: when the parameters have *)
(* been ready, no later power-up takes the run for the first one and writes  *)
(* defaults over the settings, wherever the power fails.                     *)
FirstRunOnce == settled => ~firstStore /\ pc # "first"

(* No page is used that the firmware never wrote, unless the power failed    *)
(* during the first write (the flag's page goes first).                      *)
InitialisedUnlessCut == EEPROMDataReady /\ ~cutInFirst => written = Types

(* A type that no other type's write reaches: when none of its changes is    *)
(* waiting for its interval, the pages hold what is in the buffer.           *)
PagesCurrent(t) == EEPROMDataReady /\ changedTimes[t] = 0 => store[t] = buf[t]
SafePagesCurrent == \A t \in Types \ Victims : PagesCurrent(t)

(* lpc_eeprom.c:154 and md_eeprom.c:45 give lengths in bytes, and every type *)
(* has pages of its own: the pages of every type hold what is in its buffer  *)
(* when none of its changes is waiting.                                      *)
AllPagesCurrent == \A t \in Types : PagesCurrent(t)

(* A power cut costs a device at most one write interval of its run time.    *)
RunTimeLossBounded ==
    "runtime" \in Types /\ EEPROMDataReady
        => val["runtime"] <= store["runtime"] + WriteIntv["runtime"]

(* A setting that stays is stored, or the power fails first, however often   *)
(* the other settings change.                                                *)
SettingStored ==
    \A t \in Types \ (Victims \cup {"runtime"}) : \A x \in Settings :
        (EEPROMDataReady /\ val[t] = x) ~> (store[t] = x \/ val[t] # x \/ pc = "off")
=============================================================================
