-------------------------- MODULE ParamStoreProofs --------------------------
(***************************************************************************)
(* For every choice of registered types, settings and intervals, and with  *)
(* the power failing anywhere: the defaults are written in the first run   *)
(* only, no page is used unwritten unless the first write was cut, pages   *)
(* that no other type's write reaches are current, and a power cut costs   *)
(* at most one write interval of run time.                                 *)
(***************************************************************************)
EXTENDS ParamStore, TLAPS

(* The run times are not among the pages that another type's write spoils.   *)
LEMMA RunTimesNotReached == \A t \in Types : "runtime" \notin Reached(t)
<1> SUFFICES ASSUME NEW t \in Types, t # "runtime"
             PROVE  PageAddr["runtime"] \notin PagesWritten(t)
  BY DEF Reached
<1>1. t \in AllTypes
  BY TypesAssumption
<1>2. CASE t = "uint8"
  BY <1>2 DEF PagesWritten, PageAddr, SaveSize, Width, Count, PageSize
<1>3. CASE t = "int8"
  BY <1>3 DEF PagesWritten, PageAddr, SaveSize, Width, Count, PageSize
<1>4. CASE t = "uint16"
  BY <1>4 DEF PagesWritten, PageAddr, SaveSize, Width, Count, PageSize
<1>5. CASE t = "int16"
  BY <1>5 DEF PagesWritten, PageAddr, SaveSize, Width, Count, PageSize
<1>6. CASE t = "uint32"
  BY <1>6 DEF PagesWritten, PageAddr, SaveSize, Width, Count, PageSize
<1>7. CASE t = "int32"
  BY <1>7 DEF PagesWritten, PageAddr, SaveSize, Width, Count, PageSize
<1>8. CASE t = "e32"
  BY <1>8 DEF PagesWritten, PageAddr, SaveSize, Width, Count, PageSize
<1> QED  BY <1>1, <1>2, <1>3, <1>4, <1>5, <1>6, <1>7, <1>8 DEF AllTypes

(* What a write does: the type's own page gets the image, the pages of the   *)
(* types it does not reach stay.                                             *)
LEMMA WriteEffect ==
    ASSUME TypeOK, NEW t \in Types, NEW x \in Domain(t), NEW flag \in BOOLEAN,
           EEPROM_Write(t, x, flag)
    PROVE  /\ Image(store') /\ firstStore' \in BOOLEAN
           /\ store'[t] = x
           /\ \A u \in Types \ {t} : u \notin Reached(t) => store'[u] = store[u]
           /\ firstStore' = IF t = "uint8" THEN flag ELSE firstStore
           /\ written' = written \cup {t}
<1>1. PICK junk \in [Reached(t) -> Settings] :
          store' = [u \in Types |-> IF u = t THEN x
                                    ELSE IF u \in Reached(t) THEN junk[u]
                                    ELSE store[u]]
  BY DEF EEPROM_Write
<1>2. \A u \in Reached(t) : u # "runtime" /\ junk[u] \in Domain(u)
  BY RunTimesNotReached DEF Domain
<1>3. \A u \in Types : store'[u] \in Domain(u)
  BY <1>1, <1>2 DEF TypeOK, Image
<1>4. \A u \in Types : Domain(u) \subseteq Settings \cup Nat
  BY DomainAssumption DEF Domain
<1>5. Image(store')
  BY <1>1, <1>3, <1>4 DEF Image
<1> QED  BY <1>1, <1>5 DEF EEPROM_Write, TypeOK

(* The flag: cleared in the buffer before the first write, in the store by   *)
(* the first page, and never set again.                                      *)
FlagInv ==
    /\ settled => ~firstStore /\ pc # "first"
    /\ pc = "first" => ~firstBuf /\ ("uint8" \notin todo => ~firstStore)
    /\ pc = "read"  => ~firstStore /\ ("uint8" \notin todo => ~firstBuf)
    /\ pc = "run"   => ~firstStore /\ ~firstBuf

(* The first write has reached every type it has passed.                     *)
WrittenInv ==
    /\ pc = "first" => Types \ todo \subseteq written
    /\ pc \in {"read", "run"} /\ ~cutInFirst => written = Types
    /\ ~firstStore /\ pc # "first" /\ ~cutInFirst => written = Types

(* Nothing is counted before the parameters are ready, a page that was read  *)
(* is in the buffer, and from then on safe pages follow the buffer.          *)
PagesInv ==
    /\ pc # "run" => changedTimes = [t \in Types |-> 0]
    /\ pc = "read" => \A t \in Types \ todo : buf[t] = store[t]
    /\ SafePagesCurrent

(* The buffer is ahead of the pages by the changes counted, the run time     *)
(* ahead of the buffer by one period at most.                                *)
LossInv ==
    "runtime" \in Types /\ pc = "run" =>
        /\ changedTimes["runtime"] < WriteIntv["runtime"]
        /\ buf["runtime"] <= store["runtime"] + changedTimes["runtime"]
        /\ val["runtime"] <= buf["runtime"] + (IF ticked THEN 1 ELSE 0)

IInv == TypeOK /\ FlagInv /\ WrittenInv /\ PagesInv /\ LossInv

(* The image the constructors leave is one of parameters.                    *)
LEMMA InitialImage == Image([t \in Types |-> Initial(t)])
BY DomainAssumption DEF Image, Initial, Domain

LEMMA InitIInv == Init => IInv
<1> SUFFICES ASSUME Init PROVE IInv
  OBVIOUS
<1>1. TypeOK
  BY InitialImage DEF Init, TypeOK
<1> QED  BY <1>1 DEF Init, IInv, FlagInv, WrittenInv, PagesInv, LossInv,
                   SafePagesCurrent, PagesCurrent, EEPROMDataReady

(* The steps that write no page.                                             *)
LEMMA PowerIInv == ASSUME IInv, PowerCut \/ PowerOn PROVE IInv'
<1> USE DEF IInv, EEPROMDataReady, histories
<1>1. CASE PowerCut
  <2> USE <1>1 DEF PowerCut, Registered
  <2>1. TypeOK'
    <3>1. Image(val') /\ Image(buf') /\ Image(store')
      BY InitialImage DEF TypeOK, Image
    <3> QED  BY <3>1 DEF TypeOK
  <2>2. FlagInv' /\ WrittenInv'
    BY DEF FlagInv, WrittenInv
  <2>3. PagesInv' /\ LossInv'
    BY DEF PagesInv, LossInv, SafePagesCurrent, PagesCurrent
  <2> QED  BY <2>1, <2>2, <2>3
<1>2. CASE PowerOn
  <2> USE <1>2 DEF PowerOn
  <2>1. TypeOK'
    BY DEF TypeOK, Image
  <2>2. FlagInv' /\ WrittenInv'
    BY DEF FlagInv, WrittenInv
  <2>3. PagesInv' /\ LossInv'
    BY DEF PagesInv, LossInv, SafePagesCurrent, PagesCurrent
  <2> QED  BY <2>1, <2>2, <2>3
<1> QED  BY <1>1, <1>2

LEMMA CheckIInv == ASSUME IInv, Check PROVE IInv'
<1> USE DEF IInv, Check, EEPROMDataReady, histories
<1>1. TypeOK'
  BY DEF TypeOK, Image
<1>2. FlagInv'
  BY TypesAssumption DEF FlagInv, TypeOK
<1>3. WrittenInv'
  BY DEF WrittenInv, TypeOK
<1>4. PagesInv' /\ LossInv'
  BY DEF PagesInv, LossInv, SafePagesCurrent, PagesCurrent
<1> QED  BY <1>1, <1>2, <1>3, <1>4

LEMMA FirstWriteIInv ==
    ASSUME IInv, NEW t \in Types, FirstWrite(t) PROVE IInv'
<1> USE DEF IInv, FirstWrite, EEPROMDataReady, histories
<1>1. buf[t] \in Domain(t) /\ firstBuf \in BOOLEAN
  BY DEF TypeOK, Image
<1>2. EEPROM_Write(t, buf[t], firstBuf)
  OBVIOUS
<1>3. /\ Image(store') /\ firstStore' \in BOOLEAN
      /\ firstStore' = IF t = "uint8" THEN firstBuf ELSE firstStore
      /\ written' = written \cup {t}
  BY <1>1, <1>2, WriteEffect
<1>4. TypeOK'
  BY <1>3 DEF TypeOK, Image
<1>5. t \in todo /\ todo \subseteq Types
  BY DEF Turn, TypeOK
<1>6. FlagInv'
  BY <1>3, <1>5, TypesAssumption DEF FlagInv
<1>7. WrittenInv'
  BY <1>3, <1>5 DEF WrittenInv, TypeOK
<1>8. PagesInv'
  BY <1>5 DEF PagesInv, SafePagesCurrent, PagesCurrent
<1>9. LossInv'
  BY DEF LossInv
<1> QED  BY <1>4, <1>6, <1>7, <1>8, <1>9

LEMMA ReadPageIInv ==
    ASSUME IInv, NEW t \in Types, ReadPage(t) PROVE IInv'
<1> USE DEF IInv, ReadPage, EEPROMDataReady, histories
<1>1. TypeOK'
  BY DEF TypeOK, Image
<1>2. FlagInv'
  BY DEF FlagInv
<1>3. WrittenInv'
  BY DEF WrittenInv
<1>4. PagesInv'
  BY DEF PagesInv, SafePagesCurrent, PagesCurrent, TypeOK, Image
<1>5. LossInv'
  BY DEF LossInv
<1> QED  BY <1>1, <1>2, <1>3, <1>4, <1>5

LEMMA CopyAllIInv == ASSUME IInv, CopyAll PROVE IInv'
<1> USE DEF IInv, CopyAll, EEPROMDataReady, histories
<1>1. TypeOK'
  BY DEF TypeOK, Image
<1>2. FlagInv'
  BY DEF FlagInv
<1>3. WrittenInv'
  BY DEF WrittenInv
<1>4. \A t \in Types : buf[t] = store[t] /\ changedTimes[t] = 0
  BY DEF PagesInv
<1>5. PagesInv'
  BY <1>4 DEF PagesInv, SafePagesCurrent, PagesCurrent
<1>6. ASSUME "runtime" \in Types PROVE LossInv'
  <2>1. store["runtime"] \in Int /\ WriteIntv["runtime"] \in Nat \ {0}
    BY <1>6, DomainAssumption DEF TypeOK, Image, Domain
  <2> QED  BY <1>4, <1>6, <2>1 DEF LossInv
<1>7. LossInv'
  BY <1>6 DEF LossInv
<1> QED  BY <1>1, <1>2, <1>3, <1>5, <1>7

(* The periodic write.  Pages and loss are where the interval matters.       *)
LEMMA ScanIInv == ASSUME IInv, NEW t \in Types, Scan(t) PROVE IInv'
<1> USE DEF IInv, EEPROMDataReady, histories
<1>1. /\ pc = "run" /\ Turn(t) /\ buf' = [buf EXCEPT ![t] = val[t]]
      /\ ticked' = (ticked /\ t # "runtime")
      /\ todo' = IF todo = {t} THEN Types ELSE todo \ {t}
      /\ UNCHANGED <<pc, val, firstBuf, settled, cutInFirst>>
      /\ changedTimes' = [changedTimes EXCEPT ![t] =
                             IF Due(t) THEN 0
                             ELSE IF buf[t] # val[t] THEN @ + 1 ELSE @]
  BY DEF Scan, Saved, NextType
<1>2. val[t] \in Domain(t) /\ firstBuf \in BOOLEAN
  BY DEF TypeOK, Image
<1>3. /\ Image(store') /\ firstStore' \in BOOLEAN /\ written' \subseteq Types
      /\ written \subseteq written' /\ firstStore' \in {firstStore, firstBuf}
      /\ Due(t) => store'[t] = val[t]
      /\ ~Due(t) => store' = store
      /\ \A u \in Types \ {t} : u \notin Reached(t) => store'[u] = store[u]
  <2>1. CASE Due(t)
    <3>1. EEPROM_Write(t, val[t], firstBuf)
      BY <2>1 DEF Scan, Saved
    <3> QED  BY <1>2, <2>1, <3>1, WriteEffect DEF TypeOK
  <2>2. CASE ~Due(t)
    BY <2>2 DEF Scan, Saved, TypeOK
  <2> QED  BY <2>1, <2>2
<1>4. TypeOK'
  <2>1. changedTimes' \in [Types -> Nat]
    BY <1>1 DEF TypeOK
  <2>2. Image(buf') /\ Image(val')
    BY <1>1, <1>2 DEF TypeOK, Image
  <2>3. todo' \subseteq Types
    BY <1>1 DEF TypeOK
  <2> QED  BY <1>1, <1>3, <2>1, <2>2, <2>3 DEF TypeOK
<1>5. FlagInv'
  BY <1>1, <1>3 DEF FlagInv
<1>6. WrittenInv'
  BY <1>1, <1>3 DEF WrittenInv
<1>7. PagesInv'
  <2>1. SUFFICES ASSUME NEW u \in Types \ Victims, changedTimes'[u] = 0
                 PROVE  store'[u] = buf'[u]
    BY <1>1 DEF PagesInv, SafePagesCurrent, PagesCurrent
  <2>2. CASE u = t /\ Due(t)
    BY <1>1, <1>3, <2>2 DEF TypeOK, Image
  <2>3. CASE u = t /\ ~Due(t)
    <3>1. buf[t] = val[t] /\ changedTimes[t] = 0
      BY <1>1, <2>1, <2>3 DEF TypeOK
    <3> QED  BY <1>1, <1>3, <2>1, <2>3, <3>1
             DEF PagesInv, SafePagesCurrent, PagesCurrent, TypeOK, Image
  <2>4. CASE u # t
    <3>1. u \notin Reached(t)
      BY <2>1 DEF Victims
    <3>2. changedTimes[u] = 0 /\ buf'[u] = buf[u]
      BY <1>1, <2>1, <2>4 DEF TypeOK, Image
    <3> QED  BY <1>1, <1>3, <2>1, <2>4, <3>1, <3>2
             DEF PagesInv, SafePagesCurrent, PagesCurrent
  <2> QED  BY <2>2, <2>3, <2>4
<1>8. LossInv'
  <2> SUFFICES ASSUME "runtime" \in Types
               PROVE  /\ changedTimes'["runtime"] < WriteIntv["runtime"]
                      /\ buf'["runtime"]
                             <= store'["runtime"] + changedTimes'["runtime"]
                      /\ val'["runtime"]
                             <= buf'["runtime"] + (IF ticked' THEN 1 ELSE 0)
    BY DEF LossInv
  <2> DEFINE r == "runtime"
  <2>1. /\ store[r] \in Int /\ buf[r] \in Int /\ val[r] \in Int
        /\ changedTimes[r] \in Nat /\ WriteIntv[r] \in Nat \ {0}
    BY DomainAssumption DEF TypeOK, Image, Domain
  <2>2. /\ changedTimes[r] < WriteIntv[r]
        /\ buf[r] <= store[r] + changedTimes[r]
        /\ val[r] <= buf[r] + (IF ticked THEN 1 ELSE 0)
    BY <1>1 DEF LossInv
  <2>3. CASE t # r
    <3>1. store'[r] = store[r]
      BY <1>3, <2>3, RunTimesNotReached
    <3>2. changedTimes'[r] = changedTimes[r] /\ buf'[r] = buf[r] /\ val' = val
          /\ ticked' = ticked
      BY <1>1, <2>3 DEF TypeOK, Image
    <3> QED  BY <2>2, <3>1, <3>2
  <2>4. CASE t = r
    <3>1. buf'[r] = val[r] /\ val' = val
      BY <1>1, <2>4 DEF TypeOK, Image
    <3>2. CASE Due(r)
      <4>1. store'[r] = val[r] /\ changedTimes'[r] = 0
        BY <1>1, <1>3, <2>4, <3>2 DEF TypeOK
      <4> QED  BY <2>1, <3>1, <4>1
    <3>3. CASE ~Due(r)
      <4>1. store'[r] = store[r]
        BY <1>3, <2>4, <3>3
      <4>2. changedTimes'[r] = IF buf[r] # val[r] THEN changedTimes[r] + 1
                                                  ELSE changedTimes[r]
        BY <1>1, <2>4, <3>3 DEF TypeOK
      <4> QED  BY <2>1, <2>2, <3>1, <3>3, <4>1, <4>2 DEF Due
    <3> QED  BY <3>2, <3>3
  <2> QED  BY <2>3, <2>4
<1> QED  BY <1>4, <1>5, <1>6, <1>7, <1>8

LEMMA ChangeIInv ==
    ASSUME IInv, NEW t \in Types, NEW x \in Domain(t), Change(t, x) PROVE IInv'
<1> USE DEF IInv, Change, EEPROMDataReady, histories
<1>1. TypeOK'
  <2>1. x \in Settings \cup Nat
    BY DEF Domain
  <2> QED  BY <2>1 DEF TypeOK, Image
<1>2. FlagInv' /\ WrittenInv'
  BY DEF FlagInv, WrittenInv
<1>3. PagesInv'
  BY DEF PagesInv, SafePagesCurrent, PagesCurrent
<1>4. LossInv'
  BY DEF LossInv, TypeOK, Image
<1> QED  BY <1>1, <1>2, <1>3, <1>4

LEMMA TickIInv == ASSUME IInv, Tick PROVE IInv'
<1> USE DEF IInv, Tick, EEPROMDataReady, histories
<1> DEFINE r == "runtime"
<1>1. /\ val[r] \in 0 .. RunTimeWrap - 1 /\ buf[r] \in 0 .. RunTimeWrap - 1
      /\ RunTimeWrap \in Nat \ {0}
  BY DomainAssumption DEF TypeOK, Image, Domain
<1>2. /\ val'[r] = IF val[r] + 1 >= RunTimeWrap THEN 0 ELSE val[r] + 1
      /\ val'[r] \in 0 .. RunTimeWrap - 1
      /\ val' \in [Types -> Settings \cup Nat]
      /\ \A u \in Types \ {r} : val'[u] = val[u]
  BY <1>1 DEF TypeOK, Image
<1>3. TypeOK'
  BY <1>2 DEF TypeOK, Image, Domain
<1>4. FlagInv' /\ WrittenInv'
  BY DEF FlagInv, WrittenInv
<1>5. PagesInv'
  BY DEF PagesInv, SafePagesCurrent, PagesCurrent
<1>6. LossInv'
  BY <1>1, <1>2 DEF LossInv
<1> QED  BY <1>3, <1>4, <1>5, <1>6

LEMMA NextIInv == ASSUME IInv, [Next]_vars PROVE IInv'
<1>1. CASE Task
  BY <1>1, CheckIInv, CopyAllIInv, FirstWriteIInv, ReadPageIInv, ScanIInv DEF Task
<1>2. CASE Tick
  BY <1>2, TickIInv
<1>3. CASE PowerOn \/ PowerCut
  BY <1>3, PowerIInv
<1>4. CASE \E t \in Types : \E x \in Domain(t) : Change(t, x)
  BY <1>4, ChangeIInv
<1>5. CASE UNCHANGED vars
  BY <1>5 DEF vars, histories, IInv, TypeOK, Image, FlagInv, WrittenInv, PagesInv,
              LossInv, SafePagesCurrent, PagesCurrent, EEPROMDataReady
<1> QED  BY <1>1, <1>2, <1>3, <1>4, <1>5 DEF Next

(* Every step of the task, the writers of the variables and the power keeps  *)
(* the inductive invariant, which all that follows rests on.                 *)
THEOREM Inductive == Spec => []IInv
BY InitIInv, NextIInv, PTL DEF Spec

(* The types hold in every reachable state of the parameter store.           *)
THEOREM TypeCorrect == Spec => []TypeOK
<1>1. IInv => TypeOK
  BY DEF IInv
<1> QED  BY <1>1, Inductive, PTL

(* vEEPROMDataTask writes the defaults in the first run only: once the       *)
(* parameters have been ready, no power-up writes defaults over settings.    *)
THEOREM DefaultsWrittenOnce == Spec => []FirstRunOnce
<1>1. IInv => FirstRunOnce
  BY DEF IInv, FlagInv, FirstRunOnce
<1> QED  BY <1>1, Inductive, PTL

(* vReadEEPROMData uses no page the firmware never wrote, unless a power cut *)
(* hit vWriteEEPROMDataFirstTime.                                            *)
THEOREM NoPageUnwritten == Spec => []InitialisedUnlessCut
<1>1. IInv => InitialisedUnlessCut
  BY DEF IInv, WrittenInv, InitialisedUnlessCut, EEPROMDataReady
<1> QED  BY <1>1, Inductive, PTL

(* vWriteEEPROMData keeps the pages no other write reaches equal to the      *)
(* buffer whenever no change waits for its interval.                         *)
THEOREM SafePagesFollow == Spec => []SafePagesCurrent
<1>1. IInv => SafePagesCurrent
  BY DEF IInv, PagesInv
<1> QED  BY <1>1, Inductive, PTL

(* A power cut costs at most one write interval of run time, for every       *)
(* interval and through the wrap at 65535 h.                                 *)
THEOREM RunTimeLoss == Spec => []RunTimeLossBounded
<1>1. ASSUME IInv, "runtime" \in Types, EEPROMDataReady
      PROVE  val["runtime"] <= store["runtime"] + WriteIntv["runtime"]
  <2>1. /\ store["runtime"] \in Int /\ buf["runtime"] \in Int
        /\ val["runtime"] \in Int /\ changedTimes["runtime"] \in Nat
        /\ WriteIntv["runtime"] \in Nat \ {0}
    BY <1>1, DomainAssumption DEF IInv, TypeOK, Image, Domain
  <2> QED  BY <1>1, <2>1 DEF IInv, LossInv, EEPROMDataReady
<1>2. IInv => RunTimeLossBounded
  BY <1>1 DEF RunTimeLossBounded
<1> QED  BY <1>2, Inductive, PTL
=============================================================================
