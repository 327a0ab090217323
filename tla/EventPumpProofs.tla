-------------------------- MODULE EventPumpProofs --------------------------
(* The event pump calls a handler at most once per change of the cell of its *)
(* variable, for any set of variables, any registration, any width of the    *)
(* registered types and any scan order.                                      *)
EXTENDS EventPump, WellFoundedInduction, TLAPS

(* A non-empty set of positions of a finite sequence has a greatest one.     *)
LEMMA GreatestPosition ==
  ASSUME NEW n \in Nat, NEW S \in SUBSET (1..n), S # {}
  PROVE  \E i \in S : \A j \in S : j <= i
<1> DEFINE T == {n - i : i \in S}
<1>1. T \subseteq Nat /\ T # {}
  <2>1. ASSUME NEW i \in S PROVE n - i \in Nat
    <3>1. i \in 1..n
      OBVIOUS
    <3> QED BY <3>1
  <2>2. T \subseteq Nat
    BY <2>1
  <2>3. T # {}
    OBVIOUS
  <2> QED BY <2>2, <2>3
<1>2. PICK x \in T : \A y \in T : ~(<<y, x>> \in OpToRel(<, Nat))
  <2>1. IsWellFoundedOn(OpToRel(<, Nat), Nat)
    BY NatLessThanWellFounded
  <2> HIDE DEF T
  <2> QED BY <1>1, <2>1, WFMin
<1>3. \A y \in T : ~(y < x)
  BY <1>1, <1>2 DEF OpToRel
<1>4. PICK i \in S : x = n - i
  BY <1>2
<1>5. \A j \in S : j <= i
  <2> TAKE j \in S
  <2>1. n - j \in T
    OBVIOUS
  <2>2. ~(n - j < n - i)
    BY <1>3, <1>4, <2>1
  <2> QED BY <2>2
<1> QED BY <1>5

(* What the scan leaves in the message buffer is a variable that changed.    *)
LEMMA LastChangedIsChanged ==
  ASSUME monitored \subseteq {ScanOrder[i] : i \in DOMAIN ScanOrder},
         Changed # {}
  PROVE  LastChanged \in Changed
<1> DEFINE at == {i \in DOMAIN ScanOrder : ScanOrder[i] \in Changed}
           last == CHOOSE i \in at : \A j \in at : j <= i
<1>1. at # {}
  BY DEF Changed
<1>2. Len(ScanOrder) \in Nat /\ at \in SUBSET (1..Len(ScanOrder))
  BY VarsAssumption
<1>3. \E i \in at : \A j \in at : j <= i
  <2> HIDE DEF at
  <2> QED BY <1>1, <1>2, GreatestPosition
<1>4. last \in at
  BY <1>3
<1>5. LastChanged = ScanOrder[last]
  BY DEF LastChanged
<1> QED BY <1>4, <1>5

(* The inductive invariant; the scan order must list what is monitored.      *)
IInv == /\ TypeOK
        /\ monitored \subseteq {ScanOrder[i] : i \in DOMAIN ScanOrder}
        /\ ChangesAccounted

(* The cell of a variable holds one value per variable it spans.             *)
LEMMA CellType ==
  ASSUME val \in [Vars -> Vals], NEW v \in Vars
  PROVE  CellVal(v) \in [Cell[v] -> Vals]
<1>1. Cell[v] \subseteq Vars
  BY VarsAssumption
<1> QED BY <1>1 DEF CellVal

(* A counted change adds one to a cell for every change it makes unseen.     *)
LEMMA Counting ==
  ASSUME TypeOK, CountChanges, UNCHANGED <<monitored, usDataVal>>
  PROVE  /\ written' \in [Vars -> Nat]
         /\ \A u \in Vars : /\ Unseen(u) \in Nat /\ Unseen(u)' \in Nat
                            /\ written[u] <= written'[u]
                            /\ Unseen(u)' + written[u] <= Unseen(u) + written'[u]
<1>1. ASSUME NEW u \in Vars
      PROVE  /\ CellVal(u)' = CellVal(u) => written'[u] = written[u]
             /\ CellVal(u)' # CellVal(u) => written'[u] = written[u] + 1
             /\ written'[u] \in Nat
  BY DEF CountChanges, TypeOK
<1>2. written' \in [Vars -> Nat]
  BY <1>1 DEF CountChanges
<1>3. ASSUME NEW u \in Vars
      PROVE  /\ Unseen(u) \in {0, 1} /\ Unseen(u)' \in {0, 1}
             /\ CellVal(u)' = CellVal(u) => Unseen(u)' = Unseen(u)
  BY DEF Unseen, Changed
<1>4. ASSUME NEW u \in Vars
      PROVE  /\ written[u] <= written'[u]
             /\ Unseen(u)' + written[u] <= Unseen(u) + written'[u]
  <2>1. written[u] \in Nat
    BY DEF TypeOK
  <2>2. Unseen(u) \in {0, 1} /\ Unseen(u)' \in {0, 1}
    BY <1>3
  <2>3. CASE CellVal(u)' = CellVal(u)
    <3>1. written'[u] = written[u] /\ Unseen(u)' = Unseen(u)
      BY <1>1, <1>3, <2>3
    <3> QED BY <2>1, <2>2, <3>1
  <2>4. CASE CellVal(u)' # CellVal(u)
    <3>1. written'[u] = written[u] + 1
      BY <1>1, <2>4
    <3> QED BY <2>1, <2>2, <3>1
  <2> QED BY <2>3, <2>4
<1> QED BY <1>2, <1>3, <1>4

LEMMA InitIInv == Init => IInv
<1> SUFFICES ASSUME Init PROVE IInv
  OBVIOUS
<1>1. monitored \subseteq {ScanOrder[i] : i \in DOMAIN ScanOrder}
  BY VarsAssumption DEF Init
<1>2. {ScanOrder[i] : i \in DOMAIN ScanOrder} \subseteq Vars
  BY VarsAssumption
<1>3. TypeOK
  <2>1. val \in [Vars -> Vals]
    BY VarsAssumption DEF Init
  <2>2. \A v \in Vars : CellVal(v) \in [Cell[v] -> Vals]
    BY <2>1, CellType
  <2>3. /\ usDataVal \in [Vars -> UNION {[Cell[v] -> Vals] : v \in Vars}]
        /\ \A v \in Vars : usDataVal[v] \in [Cell[v] -> Vals]
    BY <2>2 DEF Init
  <2> QED BY <1>1, <1>2, <2>1, <2>3 DEF Init, TypeOK
<1>4. ChangesAccounted
  <2>1. \A v \in Vars : Unseen(v) = 0
    BY <1>1, <1>2 DEF Init, Unseen, Changed
  <2> QED BY <2>1 DEF Init, ChangesAccounted, InFlight
<1> QED BY <1>1, <1>3, <1>4 DEF IInv

LEMMA NextIInv == IInv /\ [Next]_vars => IInv'
<1> SUFFICES ASSUME IInv, [Next]_vars PROVE IInv'
  OBVIOUS
<1> USE DEF IInv, history
<1>1. ASSUME NEW v \in Vars, NEW x \in Vals, Write(v, x) PROVE IInv'
  <2>1. CountChanges /\ UNCHANGED <<monitored, usDataVal>>
    BY <1>1 DEF Write
  <2>2. TypeOK'
    BY <1>1, <2>1, Counting DEF Write, TypeOK
  <2>3. ChangesAccounted'
    BY <1>1, <2>1, Counting DEF Write, TypeOK, ChangesAccounted, InFlight
  <2> QED BY <1>1, <2>2, <2>3 DEF Write
<1>2. CASE Scan
  <2>1. Changed # {} => LastChanged \in Vars
    BY LastChangedIsChanged DEF Changed, TypeOK
  <2>2. TypeOK'
    <3>1. \A v \in Vars : CellVal(v) \in [Cell[v] -> Vals]
      BY CellType DEF TypeOK
    <3>2. \A v \in Vars : Shadowed[v] \in [Cell[v] -> Vals]
      BY <3>1 DEF Shadowed, TypeOK
    <3>3. Shadowed \in [Vars -> UNION {[Cell[v] -> Vals] : v \in Vars}]
      BY <3>2 DEF Shadowed
    <3> QED BY <1>2, <2>1, <3>2, <3>3 DEF Scan, TypeOK
  <2>3. \A u \in Vars : Unseen(u)' = 0
    <3>1. \A u \in Vars : CellVal(u)' = CellVal(u)
      BY <1>2 DEF Scan, CellVal
    <3>2. \A u \in Vars : u \in monitored => usDataVal'[u] = CellVal(u)
      BY <1>2 DEF Scan, Shadowed
    <3> QED BY <1>2, <3>1, <3>2 DEF Scan, Unseen, Changed
  <2>4. \A u \in Vars : dispatched[u] + InFlight(u)' <= written[u]
    <3> TAKE u \in Vars
    <3>1. CASE Changed # {} /\ LastChanged = u
      <4>1. u \in Changed
        BY <3>1, LastChangedIsChanged
      <4>2. Unseen(u) = 1
        BY <4>1 DEF Unseen
      <4> QED BY <1>2, <3>1, <4>2 DEF Scan, ChangesAccounted, InFlight, TypeOK
    <3>2. CASE Changed # {} /\ LastChanged # u
      <4>1. InFlight(u)' = 0
        BY <1>2, <3>2 DEF Scan, InFlight
      <4>2. InFlight(u) \in Nat /\ Unseen(u) \in Nat
        BY DEF InFlight, Unseen
      <4>3. dispatched[u] + InFlight(u) + Unseen(u) <= written[u]
        BY DEF ChangesAccounted
      <4> QED BY <4>1, <4>2, <4>3 DEF TypeOK
    <3>3. CASE Changed = {}
      BY <1>2, <3>3 DEF Scan, ChangesAccounted, InFlight, Unseen, TypeOK
    <3> QED BY <3>1, <3>2, <3>3
  <2>5. ChangesAccounted'
    <3>1. \A u \in Vars : dispatched'[u] + InFlight(u)' + Unseen(u)' <= written'[u]
      BY <1>2, <2>3, <2>4 DEF Scan, InFlight, TypeOK
    <3>2. eventTask' = "ready" => sEventMsg' \in Vars
      BY <1>2, <2>1 DEF Scan, ChangesAccounted
    <3> QED BY <3>1, <3>2 DEF ChangesAccounted
  <2> QED BY <1>2, <2>2, <2>5 DEF Scan
<1>3. CASE Forward
  <2> DEFINE m == sEventMsg
  <2>1. m \in Vars /\ InFlight(m) = 1
    BY <1>3 DEF Forward, ChangesAccounted, InFlight
  <2>2. CASE dispatcher # "pending"
    <3>1. \A u \in Vars : Unseen(u)' = Unseen(u)
      BY <1>3, <2>2 DEF Forward, Unseen, Changed, CellVal
    <3>2. TypeOK' /\ ChangesAccounted'
      BY <1>3, <2>1, <2>2, <3>1
      DEF Forward, TypeOK, ChangesAccounted, InFlight, Unseen
    <3> QED BY <1>3, <3>2 DEF Forward
  <2>3. CASE dispatcher = "pending" /\ Accept(m)
    <3>1. \A u \in Vars : Unseen(u)' = Unseen(u)
      BY <1>3, <2>3 DEF Forward, Accept, Unseen, Changed, CellVal
    <3>2. TypeOK'
      BY <1>3, <2>1, <2>3 DEF Forward, Accept, TypeOK
    <3>3. \A u \in Vars : dispatched'[u] = dispatched[u] + InFlight(u)
      BY <1>3, <2>1, <2>3 DEF Forward, InFlight, TypeOK
    <3>4. \A u \in Vars : InFlight(u) \in Nat /\ InFlight(u)' = 0
      BY <1>3 DEF Forward, InFlight
    <3>5. \A u \in Vars : Unseen(u) \in Nat
      BY DEF Unseen
    <3>6. eventTask' = "pending" /\ UNCHANGED written
      BY <1>3, <2>3 DEF Forward, Accept
    <3>7. ChangesAccounted'
      BY <3>1, <3>3, <3>4, <3>5, <3>6 DEF TypeOK, ChangesAccounted
    <3> QED BY <1>3, <3>2, <3>7 DEF Forward
  <2>4. CASE dispatcher = "pending" /\ Reject(m)
    <3>1. CountChanges /\ UNCHANGED <<monitored, usDataVal>>
      BY <1>3, <2>4 DEF Forward, Reject
    <3>2. TypeOK'
      <4>1. written' \in [Vars -> Nat]
        BY <3>1, Counting
      <4>2. val' \in [Vars -> Vals]
        BY <2>1, <2>4 DEF Reject, TypeOK
      <4>3. dispatched' \in [Vars -> Nat]
        BY <1>3, <2>1, <2>4 DEF Forward, TypeOK
      <4> QED BY <1>3, <2>4, <3>1, <4>1, <4>2, <4>3 DEF Forward, Reject, TypeOK
    <3>3. \A u \in Vars : dispatched'[u] = dispatched[u] + InFlight(u)
      BY <1>3, <2>1, <2>4 DEF Forward, InFlight, TypeOK
    <3>4. \A u \in Vars : InFlight(u) \in Nat /\ InFlight(u)' = 0
      BY <1>3 DEF Forward, InFlight
    <3>5. ChangesAccounted'
      <4>1. \A u \in Vars : /\ Unseen(u) \in Nat /\ Unseen(u)' \in Nat
                           /\ Unseen(u)' + written[u] <= Unseen(u) + written'[u]
        BY <3>1, Counting
      <4>2. \A u \in Vars : /\ dispatched[u] \in Nat /\ written[u] \in Nat
                           /\ written'[u] \in Nat
        BY <3>2 DEF TypeOK
      <4>3. \A u \in Vars : dispatched[u] + InFlight(u) + Unseen(u) <= written[u]
        BY DEF ChangesAccounted
      <4>4. \A u \in Vars : dispatched'[u] + InFlight(u)' + Unseen(u)' <= written'[u]
        BY <3>3, <3>4, <4>1, <4>2, <4>3
      <4> QED BY <1>3, <4>4 DEF Forward, ChangesAccounted
    <3> QED BY <1>3, <3>2, <3>5 DEF Forward
  <2> QED BY <1>3, <2>2, <2>3, <2>4 DEF Forward
<1>4. CASE Boot
  <2>1. CountChanges /\ UNCHANGED <<monitored, usDataVal>>
    BY <1>4 DEF Boot
  <2>2. TypeOK'
    BY <1>4, <2>1, Counting DEF Boot, TypeOK
  <2>3. ChangesAccounted'
    BY <1>4, <2>1, Counting DEF Boot, TypeOK, ChangesAccounted, InFlight
  <2> QED BY <1>4, <2>2, <2>3 DEF Boot
<1>5. CASE Poll
  BY <1>5 DEF Poll, TypeOK, ChangesAccounted, InFlight, Unseen, Changed, CellVal
<1>6. CASE UNCHANGED vars
  BY <1>6 DEF vars, TypeOK, ChangesAccounted, InFlight, Unseen, Changed, CellVal
<1> QED BY <1>1, <1>2, <1>3, <1>4, <1>5, <1>6 DEF Next

(* The fields of the monitor, the event task and the dispatcher keep their   *)
(* types: what the shared buffer holds is always a variable with a handler,  *)
(* or nothing yet.                                                           *)
THEOREM TypeCorrect == Spec => []TypeOK
<1>1. IInv => TypeOK
  BY DEF IInv
<1> QED BY <1>1, InitIInv, NextIInv, PTL DEF Spec

(* The types hold, and so does the account of changes: a handler never runs  *)
(* without a change of its variable's cell, nor twice for one change.        *)
THEOREM PumpInvariant == Spec => [](TypeOK /\ ChangesAccounted)
<1>1. IInv => TypeOK /\ ChangesAccounted
  BY DEF IInv
<1> QED BY <1>1, InitIInv, NextIInv, PTL DEF Spec
=============================================================================
