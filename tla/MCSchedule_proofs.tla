------------------------- MODULE MCSchedule_proofs -------------------------
(***************************************************************************)
(* Theorems about the components that MCSchedule runs, for every value of  *)
(* their constants.  Each is an invariant of one component, which holds    *)
(* while that component steps and while the others do.                     *)
(***************************************************************************)
EXTENDS MCSchedule, Integers, FiniteSetTheorems, SequenceTheorems, WellFoundedInduction, TLAPS

-----------------------------------------------------------------------------
(* The date and time step.  A request for a listing is of a day that was   *)
(* selected.                                                               *)
Fetch == [date: PickerDates, silent: BOOLEAN, answer: {None} \cup SUBSET Picker!Times]

PickerInv ==
  /\ Picker!TypeOK /\ Picker!ListIsKey
  /\ pickerFetches \subseteq Fetch
  /\ pickerFetches # {} \/ pickerSlots # {} \/ pickerEffect => pickerSelected # None

LEMMA PickerInit == Picker!Init => PickerInv
BY DEF Picker!Init, PickerInv, Picker!TypeOK, Picker!ListIsKey

LEMMA PickerAsks ==
  ASSUME pickerFetches \subseteq Fetch, NEW d \in PickerDates, NEW silent \in BOOLEAN, Picker!Asks(d, silent)
  PROVE  /\ pickerFetches' \subseteq Fetch /\ pickerFetches \subseteq pickerFetches'
         /\ \E f \in pickerFetches' : f.silent = silent
<1> DEFINE f == [date |-> d, silent |-> silent, answer |-> None]
<1>1. pickerFetches' = pickerFetches \cup {f}
  BY DEF Picker!Asks
<1>2. f \in Fetch /\ f.silent = silent
  BY DEF Fetch
<1> HIDE DEF f
<1> QED
  BY <1>1, <1>2

(* A fetch that is not silent clears the list, and is under way.           *)
LEMMA PickerFetchesLoudly ==
  ASSUME PickerInv, NEW d \in PickerDates, Picker!FetchLoudly(d), pickerSelected' = d,
         UNCHANGED <<pickerFree, pickerPrevKey, pickerNext, pickerChosen>>,
         pickerEffect' \in BOOLEAN
  PROVE  PickerInv'
<1>1. pickerFetches' \subseteq Fetch /\ \E f \in pickerFetches' : f.silent = FALSE
  BY PickerAsks DEF Picker!FetchLoudly, PickerInv
<1>2. d # None
  BY ScheduleAssumption DEF Picker!DatesAssumption
<1>3. Picker!TypeOK'
  BY <1>1 DEF Picker!FetchLoudly, PickerInv, Picker!TypeOK, Fetch
<1>4. Picker!ListIsKey'
  BY <1>1 DEF Picker!FetchLoudly, Picker!ListIsKey
<1> QED
  BY <1>1, <1>2, <1>3, <1>4 DEF PickerInv

LEMMA PickerStep == ASSUME PickerInv, [Picker!Next]_pickerVars PROVE PickerInv'
<1> USE DEF PickerInv, Picker!TypeOK, Picker!ListIsKey
<1>1. CASE UNCHANGED pickerVars
  BY <1>1 DEF pickerVars, Fetch, Picker!Times
<1>2. ASSUME NEW d \in PickerDates, Picker!selectDate(d) PROVE PickerInv'
  BY <1>2, PickerFetchesLoudly DEF Picker!selectDate
<1>3. CASE Picker!Retry
  BY <1>3, PickerFetchesLoudly DEF Picker!Retry
<1>4. CASE Picker!EffectRuns
  BY <1>4, PickerFetchesLoudly DEF Picker!EffectRuns
<1>5. CASE Picker!Poll
  <2>1. pickerFetches' \subseteq Fetch /\ pickerFetches \subseteq pickerFetches'
    BY <1>5, PickerAsks DEF Picker!Poll
  <2>2. Picker!TypeOK'
    BY <1>5, <2>1 DEF Picker!Poll, Picker!shown, Fetch
  <2>3. Picker!ListIsKey'
    BY <1>5, <2>1 DEF Picker!Poll, Picker!shown
  <2> QED
    BY <1>5, <2>1, <2>2, <2>3 DEF Picker!Poll, Picker!shown
<1>6. CASE Picker!handleNextAvailable
  <2>1. "asked" # None
    BY ScheduleAssumption DEF Picker!DatesAssumption
  <2> QED
    BY <1>6, <2>1 DEF Picker!handleNextAvailable, Picker!Picks, Fetch
<1>7. CASE Picker!NextAnswered
  <2>1. \A d \in PickerDates : Picker!Listing(d) \subseteq Picker!Times /\ d # None
    BY ScheduleAssumption DEF Picker!Listing, Picker!DatesAssumption
  <2>2. /\ UNCHANGED <<pickerFree, pickerLoading, pickerFetches, pickerChosen>>
        /\ pickerNext' = None /\ pickerEffect = FALSE
    BY <1>7 DEF Picker!NextAnswered
  <2>3. \/ \E d \in PickerDates :
             /\ pickerSelected' = d /\ pickerSlots' = Picker!Listing(d) /\ pickerPrevKey' = Picker!Listing(d)
             /\ pickerEffect' = TRUE /\ pickerError' = pickerError
        \/ /\ pickerError' = "next"
           /\ UNCHANGED <<pickerSelected, pickerSlots, pickerPrevKey, pickerEffect>>
    BY <1>7 DEF Picker!NextAnswered, Picker!NextDay
  <2> QED
    BY <2>1, <2>2, <2>3
<1>8. ASSUME NEW f \in pickerFetches, Picker!Served(f) PROVE PickerInv'
  <2> DEFINE g == [f EXCEPT !.answer = Picker!Listing(f.date)]
  <2>1. g \in Fetch /\ g.silent = f.silent
    BY DEF Fetch, Picker!Listing
  <2>2. pickerFetches' = (pickerFetches \ {f}) \cup {g} /\ UNCHANGED <<Picker!shown, pickerFree, pickerNext, pickerEffect, pickerChosen>>
    BY <1>8 DEF Picker!Served
  <2> HIDE DEF g
  <2>3. pickerFetches' \subseteq Fetch /\ ((\E h \in pickerFetches : ~h.silent) => \E h \in pickerFetches' : ~h.silent)
    BY <2>1, <2>2
  <2>4. Picker!TypeOK'
    BY <2>2, <2>3 DEF Picker!shown, Fetch
  <2> QED
    BY <2>2, <2>3, <2>4 DEF Picker!shown
<1>9. ASSUME NEW f \in pickerFetches, Picker!Answered(f) PROVE PickerInv'
  BY <1>9 DEF Picker!Answered, Fetch
<1>10. ASSUME NEW f \in pickerFetches, Picker!Fails(f) PROVE PickerInv'
  BY <1>10 DEF Picker!Fails, Fetch
<1>11. ASSUME NEW x \in Picker!Times, Picker!reserveSlot(x) PROVE PickerInv'
  BY <1>11, PickerFetchesLoudly DEF Picker!reserveSlot, Picker!Enabled, Picker!Taken, Picker!Failed, Fetch
<1>12. CASE Picker!OthersChange
  BY <1>12 DEF Picker!OthersChange, Picker!shown, Fetch
<1> QED
  BY <1>1, <1>2, <1>3, <1>4, <1>5, <1>6, <1>7, <1>8, <1>9, <1>10, <1>11, <1>12
     DEF Picker!Next, Picker!Client, Picker!FetchGoesOn

(* A step of the application is one of the date and time step, or none of it. *)
LEMMA PickerTurns == ASSUME [Next]_vars PROVE [Picker!Next]_pickerVars
BY DEF Next, Turn, vars, NotDay, NotPush, NotMirror, NotLimit, NotWizard

(* A poll that finds nothing new leaves nothing stale on the page, for any *)
(* days and times and however many requests are under way: while the list  *)
(* differs from the key, it is empty and somebody is still to fill it.     *)
THEOREM ListStaysKey == Spec => []ListIsKey
<1>1. Init => PickerInv
  BY PickerInit DEF Init
<1>2. PickerInv /\ [Next]_vars => PickerInv'
  BY PickerStep, PickerTurns
<1>3. PickerInv => ListIsKey
  BY DEF PickerInv, ListIsKey
<1> QED
  BY <1>1, <1>2, <1>3, PTL DEF Spec

-----------------------------------------------------------------------------
(* The copy of Google's events.  An item that is to be written exists at   *)
(* Google.                                                                 *)
Mirroring(o) == IF o THEN OverlapSyncs ELSE {y1}

SyncState(o, x, d) ==
  [at: {"idle", "read", "list", "apply", "create", "update"},
   from: 0 .. (IF o \/ x THEN MaxOverlapChanges ELSE MaxMirrorChanges) \cup {-1},
   list: SUBSET Mirror(o, x, d)!Item,
   upto: 0 .. (IF o \/ x THEN MaxOverlapChanges ELSE MaxMirrorChanges),
   item: SUBSET [event: IF o THEN OverlapEvents ELSE MirrorEvents, time: MirrorTimes],
   row: SUBSET Mirror(o, x, d)!Rows]

MirrorTypes(o, x, d) ==
  /\ Mirror(o, x, d)!TypeOK
  /\ mirrorSync \in [Mirroring(o) -> SyncState(o, x, d)]

LEMMA MirrorConstants ==
  /\ MaxMirrorChanges \in Nat /\ MaxOverlapChanges \in Nat /\ MaxMirrorDeaths \in Nat
  /\ MirrorTimes \subseteq Nat /\ OverlapSyncs # {}
<1>1. \A o \in BOOLEAN : Mirror(o, FALSE, MaxMirrorDeaths)!CalendarMirrorAssumption
  BY ScheduleAssumption
<1> QED
  BY <1>1 DEF Mirror!CalendarMirrorAssumption

LEMMA MirrorTypeStep ==
  ASSUME NEW o \in BOOLEAN, NEW x \in BOOLEAN, NEW d \in Nat, MirrorTypes(o, x, d),
         [Mirror(o, x, d)!Next]_mirrorVars
  PROVE  MirrorTypes(o, x, d)'
<1> DEFINE State == SyncState(o, x, d)
           max   == IF o \/ x THEN MaxOverlapChanges ELSE MaxMirrorChanges
           Items == Mirror(o, x, d)!Item
<1>a. max \in Nat
  BY MirrorConstants
<1>b. /\ Mirror(o, x, d)!Idle \in State
  BY <1>a DEF SyncState, Mirror!Idle, Mirror!NoToken
<1>c. ASSUME NEW s \in Mirroring(o), NEW q \in State, mirrorSync' = [mirrorSync EXCEPT ![s] = q],
             mirrorRows' \subseteq Mirror(o, x, d)!Rows, mirrorToken' \in 0 .. max \cup {-1}, mirrorDeaths' \in 0 .. d,
             UNCHANGED <<mirrorGoogle, mirrorChanged, mirrorNow, mirrorOldest>>
      PROVE  MirrorTypes(o, x, d)'
  BY <1>c DEF MirrorTypes, Mirror!TypeOK, SyncState, Mirroring, Mirror!NoToken, Mirror!Gone, Mirror!Rows, Mirror!Item
<1>d. ASSUME NEW s \in Mirroring(o) PROVE mirrorSync[s] \in State
  BY DEF MirrorTypes
<1>1. CASE UNCHANGED mirrorVars
  BY <1>1 DEF mirrorVars, MirrorTypes, Mirror!TypeOK, SyncState
<1>2. ASSUME NEW e \in (IF o THEN OverlapEvents ELSE MirrorEvents), Mirror(o, x, d)!Change(e)
      PROVE  MirrorTypes(o, x, d)'
  BY <1>a, <1>2 DEF Mirror!Change, MirrorTypes, Mirror!TypeOK, SyncState, Mirroring
<1>3. CASE Mirror(o, x, d)!Expire
  BY <1>a, <1>3 DEF Mirror!Expire, MirrorTypes, Mirror!TypeOK, SyncState, Mirroring
<1>4. ASSUME NEW s \in Mirroring(o), Mirror(o, x, d)!Start(s) PROVE MirrorTypes(o, x, d)'
  <2> DEFINE q == [Mirror(o, x, d)!Idle EXCEPT !.at = "read"]
  <2>1. q \in State
    BY <1>b DEF SyncState
  <2> QED
    BY <1>4, <1>c, <2>1 DEF Mirror!Start, Mirror!Becomes, MirrorTypes, Mirror!TypeOK, Mirror!NoToken
<1>5. ASSUME NEW s \in Mirroring(o), Mirror(o, x, d)!ReadToken(s) PROVE MirrorTypes(o, x, d)'
  <2> DEFINE q == [Mirror(o, x, d)!Idle EXCEPT !.at = "list", !.from = mirrorToken]
  <2>1. q \in State
    BY <1>b DEF SyncState, MirrorTypes, Mirror!TypeOK, Mirror!NoToken
  <2> QED
    BY <1>5, <1>c, <2>1 DEF Mirror!ReadToken, Mirror!Becomes, MirrorTypes, Mirror!TypeOK, Mirror!NoToken
<1>6. ASSUME NEW s \in Mirroring(o), Mirror(o, x, d)!List(s) PROVE MirrorTypes(o, x, d)'
  <2> DEFINE q == [mirrorSync[s] EXCEPT !.at = "apply", !.list = Mirror(o, x, d)!Listed(mirrorSync[s].from), !.upto = mirrorNow]
  <2>0. Mirror(o, x, d)!Listed(mirrorSync[s].from) \subseteq Items
    BY DEF Mirror!Listed, Mirror!Item, MirrorTypes, Mirror!TypeOK
  <2>1. q \in State
    BY <1>d, <2>0 DEF SyncState, MirrorTypes, Mirror!TypeOK
  <2> QED
    BY <1>6, <1>c, <2>1 DEF Mirror!List, Mirror!Becomes, MirrorTypes, Mirror!TypeOK, Mirror!NoToken
<1>7. ASSUME NEW s \in Mirroring(o), Mirror(o, x, d)!StartOver(s) PROVE MirrorTypes(o, x, d)'
  <2> DEFINE q == [Mirror(o, x, d)!Idle EXCEPT !.at = "read"]
  <2>1. q \in State
    BY <1>b DEF SyncState
  <2> QED
    BY <1>7, <1>c, <2>1 DEF Mirror!StartOver, Mirror!Becomes, MirrorTypes, Mirror!TypeOK, Mirror!NoToken
<1>8. ASSUME NEW s \in Mirroring(o), NEW i \in Items, Mirror(o, x, d)!ApplyDeleted(s, i) PROVE MirrorTypes(o, x, d)'
  <2> DEFINE q == [mirrorSync[s] EXCEPT !.list = @ \ {i}]
  <2>1. q \in State
    BY <1>d DEF SyncState
  <2> QED
    BY <1>8, <1>c, <2>1 DEF Mirror!ApplyDeleted, Mirror!Becomes, MirrorTypes, Mirror!TypeOK, Mirror!NoToken
<1>9. ASSUME NEW s \in Mirroring(o), NEW i \in Items, Mirror(o, x, d)!Find(s, i) PROVE MirrorTypes(o, x, d)'
  <2>1. ASSUME NEW at \in {"create", "update"}, NEW row \in SUBSET mirrorRows
        PROVE  /\ [mirrorSync[s] EXCEPT !.at = at, !.item = {i}, !.row = row] \in State
               /\ [mirrorSync[s] EXCEPT !.at = at, !.item = {i}] \in State
    <3>1. i \in [event: IF o THEN OverlapEvents ELSE MirrorEvents, time: MirrorTimes]
      BY <1>9 DEF Mirror!Find, Mirror!Item
    <3>2. row \subseteq Mirror(o, x, d)!Rows
      BY DEF MirrorTypes, Mirror!TypeOK
    <3>3. [mirrorSync[s] EXCEPT !.at = at, !.item = {i}, !.row = row] \in State
      BY <3>1, <3>2, <1>d DEF SyncState
    <3>4. [mirrorSync[s] EXCEPT !.at = at, !.item = {i}] \in State
      BY <3>1, <1>d DEF SyncState
    <3> QED
      BY <3>3, <3>4
  <2> QED
    BY <1>9, <1>c, <2>1 DEF Mirror!Find, Mirror!RowsOf, Mirror!Becomes, MirrorTypes, Mirror!TypeOK, Mirror!NoToken
<1>e. ASSUME NEW s \in Mirroring(o) PROVE Mirror(o, x, d)!NextItem(s) \in State
  BY <1>d DEF Mirror!NextItem, SyncState
<1>10. ASSUME NEW s \in Mirroring(o), Mirror(o, x, d)!Update(s) PROVE MirrorTypes(o, x, d)'
  <2>1. mirrorRows' \subseteq Mirror(o, x, d)!Rows
    <3>1. PICK i \in mirrorSync[s].item, q \in mirrorRows :
            mirrorRows' = (mirrorRows \ {q}) \cup {[q EXCEPT !.time = i.time]}
      BY <1>10 DEF Mirror!Update
    <3>2. i.time \in MirrorTimes /\ q \in Mirror(o, x, d)!Rows
      BY <1>d DEF SyncState, MirrorTypes, Mirror!TypeOK
    <3>3. [q EXCEPT !.time = i.time] \in Mirror(o, x, d)!Rows
      BY <3>2 DEF Mirror!Rows
    <3> QED
      BY <3>1, <3>3 DEF MirrorTypes, Mirror!TypeOK
  <2> QED
    BY <1>10, <1>c, <1>e, <2>1 DEF Mirror!Update, Mirror!Becomes, MirrorTypes, Mirror!TypeOK, Mirror!NoToken
<1>11. ASSUME NEW s \in Mirroring(o), Mirror(o, x, d)!Create(s) PROVE MirrorTypes(o, x, d)'
  <2>1. mirrorRows' \subseteq Mirror(o, x, d)!Rows
    <3>1. mirrorRows' = mirrorRows \cup {[event |-> i.event, by |-> s, time |-> i.time] : i \in mirrorSync[s].item}
      BY <1>11 DEF Mirror!Create
    <3>2. \A i \in mirrorSync[s].item : [event |-> i.event, by |-> s, time |-> i.time] \in Mirror(o, x, d)!Rows
      BY <1>d DEF SyncState, Mirror!Rows, Mirroring
    <3> QED
      BY <3>1, <3>2 DEF MirrorTypes, Mirror!TypeOK
  <2> QED
    BY <1>11, <1>c, <1>e, <2>1 DEF Mirror!Create, Mirror!Becomes, MirrorTypes, Mirror!TypeOK, Mirror!NoToken
<1>12. ASSUME NEW s \in Mirroring(o), Mirror(o, x, d)!SaveToken(s) \/ Mirror(o, x, d)!UpdateFails(s) \/ Mirror(o, x, d)!Die(s)
       PROVE  MirrorTypes(o, x, d)'
  BY <1>12, <1>b, <1>c, <1>d DEF Mirror!SaveToken, Mirror!UpdateFails, Mirror!Die, Mirror!Becomes, MirrorTypes, Mirror!TypeOK, Mirror!NoToken, SyncState
<1> QED
  BY <1>1, <1>2, <1>3, <1>4, <1>5, <1>6, <1>7, <1>8, <1>9, <1>10, <1>11, <1>12 DEF Mirror!Next, Mirror!Step, Mirroring

(* A row is one sync's of one event: a sync makes one only where it has    *)
(* found none.                                                             *)
RowsDiffer ==
  /\ \A p, q \in mirrorRows : p.event = q.event /\ p.by = q.by => p = q
  /\ \A s \in DOMAIN mirrorSync : mirrorSync[s].at = "create" =>
       /\ \A i, j \in mirrorSync[s].item : i = j
       /\ \A i \in mirrorSync[s].item, r \in mirrorRows : r.event = i.event => r.by # s

LEMMA RowsDifferStep ==
  ASSUME NEW o \in BOOLEAN, NEW x \in BOOLEAN, NEW d \in Nat, MirrorTypes(o, x, d), RowsDiffer,
         [Mirror(o, x, d)!Next]_mirrorVars
  PROVE  RowsDiffer'
<1>0. /\ mirrorSync \in [Mirroring(o) -> SyncState(o, x, d)]
      /\ mirrorRows \subseteq Mirror(o, x, d)!Rows
  BY DEF MirrorTypes, Mirror!TypeOK
<1>1. CASE UNCHANGED mirrorVars
  BY <1>1 DEF mirrorVars, RowsDiffer
<1>2. ASSUME UNCHANGED <<mirrorRows, mirrorSync>> PROVE RowsDiffer'
  BY <1>2 DEF RowsDiffer
(* A sync that is about to make no row, and no row is made.                *)
<1>3. ASSUME NEW s \in Mirroring(o), DOMAIN mirrorSync' = Mirroring(o),
             \A v \in Mirroring(o) \ {s} : mirrorSync'[v] = mirrorSync[v],
             mirrorSync'[s].at # "create", mirrorRows' \subseteq mirrorRows
      PROVE  RowsDiffer'
  BY <1>0, <1>3 DEF RowsDiffer
<1>4. ASSUME NEW s \in Mirroring(o), NEW i \in Mirror(o, x, d)!Item, Mirror(o, x, d)!Find(s, i) PROVE RowsDiffer'
  <2>1. CASE /\ \A r \in mirrorRows : r.event # i.event
             /\ mirrorSync' = [mirrorSync EXCEPT ![s] = [mirrorSync[s] EXCEPT !.at = "create", !.item = {i}]]
             /\ UNCHANGED mirrorRows
    BY <1>0, <2>1 DEF RowsDiffer, SyncState
  <2>2. CASE \E r \in mirrorRows : /\ mirrorSync' = [mirrorSync EXCEPT ![s] = [mirrorSync[s] EXCEPT !.at = "update", !.item = {i}, !.row = {r}]]
                                   /\ UNCHANGED mirrorRows
    BY <1>0, <1>3, <2>2 DEF SyncState
  <2> QED
    BY <1>4, <2>1, <2>2 DEF Mirror!Find, Mirror!RowsOf, Mirror!Becomes
<1>5. ASSUME NEW s \in Mirroring(o), Mirror(o, x, d)!Update(s) PROVE RowsDiffer'
  <2>1. PICK i \in mirrorSync[s].item, q \in mirrorRows :
          mirrorRows' = (mirrorRows \ {q}) \cup {[q EXCEPT !.time = i.time]}
    BY <1>5 DEF Mirror!Update
  <2> DEFINE new == [q EXCEPT !.time = i.time]
  <2>2. mirrorRows' = (mirrorRows \ {q}) \cup {new} /\ new.event = q.event /\ new.by = q.by
    BY <1>0, <2>1 DEF Mirror!Rows
  <2>3. mirrorSync' = [mirrorSync EXCEPT ![s] = Mirror(o, x, d)!NextItem(s)] /\ Mirror(o, x, d)!NextItem(s).at = "apply"
    BY <1>0, <1>5 DEF Mirror!Update, Mirror!Becomes, Mirror!NextItem, SyncState
  <2> HIDE DEF new
  <2>4. \A p, r \in mirrorRows' : p.event = r.event /\ p.by = r.by => p = r
    BY <2>2 DEF RowsDiffer
  <2>5. \A r \in mirrorRows' : \E p \in mirrorRows : p.event = r.event /\ p.by = r.by
    BY <2>2
  <2> QED
    BY <1>0, <2>3, <2>4, <2>5 DEF RowsDiffer
<1>6. ASSUME NEW s \in Mirroring(o), Mirror(o, x, d)!Create(s) PROVE RowsDiffer'
  <2> DEFINE New(i) == [event |-> i.event, by |-> s, time |-> i.time]
  <2>1. mirrorRows' = mirrorRows \cup {New(i) : i \in mirrorSync[s].item} /\ mirrorSync[s].at = "create"
    BY <1>6 DEF Mirror!Create
  <2>2. mirrorSync' = [mirrorSync EXCEPT ![s] = Mirror(o, x, d)!NextItem(s)] /\ Mirror(o, x, d)!NextItem(s).at = "apply"
    BY <1>0, <1>6 DEF Mirror!Create, Mirror!Becomes, Mirror!NextItem, SyncState
  <2>3. \A i : New(i).event = i.event /\ New(i).by = s
    OBVIOUS
  <2> HIDE DEF New
  <2> QED
    BY <1>0, <2>1, <2>2, <2>3 DEF RowsDiffer
<1>7. ASSUME NEW s \in Mirroring(o),
             \/ Mirror(o, x, d)!Start(s) \/ Mirror(o, x, d)!ReadToken(s) \/ Mirror(o, x, d)!List(s)
             \/ Mirror(o, x, d)!StartOver(s) \/ Mirror(o, x, d)!UpdateFails(s) \/ Mirror(o, x, d)!SaveToken(s)
             \/ Mirror(o, x, d)!Die(s)
      PROVE  RowsDiffer'
  <2>1. mirrorSync[s] \in SyncState(o, x, d) /\ UNCHANGED mirrorRows
    BY <1>0, <1>7
       DEF Mirror!Start, Mirror!ReadToken, Mirror!List, Mirror!StartOver, Mirror!UpdateFails, Mirror!SaveToken, Mirror!Die
  <2>2. \E q : mirrorSync' = [mirrorSync EXCEPT ![s] = q] /\ q.at # "create"
    BY <1>7, <2>1
       DEF Mirror!Start, Mirror!ReadToken, Mirror!List, Mirror!StartOver, Mirror!UpdateFails, Mirror!SaveToken,
           Mirror!Die, Mirror!Becomes, Mirror!Idle, SyncState
  <2> QED
    BY <1>0, <1>3, <2>1, <2>2
<1>8. ASSUME NEW s \in Mirroring(o), NEW i \in Mirror(o, x, d)!Item, Mirror(o, x, d)!ApplyDeleted(s, i) PROVE RowsDiffer'
  BY <1>0, <1>3, <1>8 DEF Mirror!ApplyDeleted, Mirror!Becomes, SyncState
<1>9. ASSUME NEW e, Mirror(o, x, d)!Change(e) PROVE RowsDiffer'
  BY <1>2, <1>9 DEF Mirror!Change
<1>10. CASE Mirror(o, x, d)!Expire
  BY <1>2, <1>10 DEF Mirror!Expire
<1> QED
  BY <1>1, <1>4, <1>5, <1>6, <1>7, <1>8, <1>9, <1>10 DEF Mirror!Next, Mirror!Step, Mirroring

(* One sync at a time.  Where tokens are refused (x), only what exists     *)
(* concerns the copy.  What has changed since the listing concerns the     *)
(* next sync; the rest is listed still or copied already.                  *)
Concerns(x, e) == ~x \/ mirrorGoogle[e] # -1

Copied(e) ==
  /\ \A r \in mirrorRows : r.event = e => r.time = mirrorGoogle[e]
  /\ mirrorGoogle[e] # -1 => \E r \in mirrorRows : r.event = e

CopyInv(x, S) ==
  /\ ~x => mirrorOldest = 0
  /\ mirrorToken <= mirrorNow /\ \A e \in MirrorEvents : mirrorChanged[e] <= mirrorNow
  /\ ~x /\ mirrorToken = -1 /\ S.at \in {"idle", "read", "list"} => mirrorRows = {}
  /\ S.at \in {"list", "apply", "create", "update"} => S.from = mirrorToken
  /\ S.at \in {"apply", "create", "update"} =>
       /\ S.upto <= mirrorNow
       /\ \A i, j \in S.list : i.event = j.event => i = j
       /\ \A i \in S.list : mirrorChanged[i.event] > S.from
       /\ \A e \in MirrorEvents : mirrorChanged[e] <= S.upto /\ Concerns(x, e) =>
            \/ \E i \in S.list : i.event = e /\ i.time = mirrorGoogle[e]
            \/ Copied(e) /\ \A i \in S.list : i.event # e
  /\ S.at \in {"create", "update"} =>
       \E i \in S.list : S.item = {i} /\ (S.at = "create" => \A r \in mirrorRows : r.event # i.event)
  /\ S.at = "update" =>
       \E r \in mirrorRows : S.row = {r} /\ \A i \in S.item : r.event = i.event
  /\ mirrorToken # -1 => \A e \in MirrorEvents : mirrorChanged[e] <= mirrorToken /\ Concerns(x, e) => Copied(e)

LEMMA CopyStep ==
  ASSUME NEW x \in BOOLEAN, NEW d \in Nat, x \/ d = 0,
         MirrorTypes(FALSE, x, d), MirrorTypes(FALSE, x, d)', RowsDiffer, CopyInv(x, mirrorSync[y1]),
         [Mirror(FALSE, x, d)!Next]_mirrorVars
  PROVE  CopyInv(x, mirrorSync[y1])'
<1> DEFINE S == mirrorSync[y1]
<1>a. mirrorSync \in [{y1} -> SyncState(FALSE, x, d)] /\ S \in SyncState(FALSE, x, d)
  BY DEF MirrorTypes, Mirroring
<1>b. /\ mirrorRows \subseteq [event: MirrorEvents, by: {y1}, time: MirrorTimes]
      /\ mirrorGoogle \in [MirrorEvents -> MirrorTimes \cup {-1}] /\ MirrorTimes \subseteq Nat
  BY MirrorConstants DEF MirrorTypes, Mirror!TypeOK, Mirror!Rows, Mirror!Gone
<1>c. ASSUME NEW n, n \in 0 .. (IF x THEN MaxOverlapChanges ELSE MaxMirrorChanges) PROVE n \in Nat
  BY <1>c, MirrorConstants
<1>d. /\ mirrorChanged \in [MirrorEvents -> Nat] /\ mirrorNow \in Nat /\ mirrorOldest \in Nat
      /\ mirrorToken \in Nat \cup {-1}
  BY <1>c DEF MirrorTypes, Mirror!TypeOK, Mirror!NoToken
<1>e. S.upto \in Nat /\ S.from \in Nat \cup {-1}
  BY <1>a, <1>c DEF SyncState
<1>0. /\ mirrorSync \in [{y1} -> SyncState(FALSE, x, d)] /\ S \in SyncState(FALSE, x, d)
      /\ mirrorRows \subseteq [event: MirrorEvents, by: {y1}, time: MirrorTimes]
      /\ mirrorGoogle \in [MirrorEvents -> MirrorTimes \cup {-1}] /\ mirrorChanged \in [MirrorEvents -> Nat]
      /\ mirrorNow \in Nat /\ mirrorOldest \in Nat /\ mirrorToken \in Nat \cup {-1} /\ S.upto \in Nat
      /\ S.from \in Nat \cup {-1} /\ MirrorTimes \subseteq Nat
  BY <1>a, <1>b, <1>d, <1>e
<1>1. CASE UNCHANGED mirrorVars
  BY <1>1 DEF mirrorVars, CopyInv, Copied, Concerns
<1>2. ASSUME NEW e \in MirrorEvents, Mirror(FALSE, x, d)!Change(e) PROVE CopyInv(x, S)'
  BY <1>0, <1>2 DEF Mirror!Change, CopyInv, Copied, Concerns
<1>3. CASE Mirror(FALSE, x, d)!Expire
  BY <1>0, <1>3 DEF Mirror!Expire, CopyInv, Copied, Concerns
<1>4. CASE Mirror(FALSE, x, d)!Start(y1)
  <2>1. S'.at = "read" /\ S.at = "idle"
    BY <1>0, <1>4 DEF Mirror!Start, Mirror!Becomes, Mirror!Idle
  <2> QED
    BY <1>0, <1>4, <2>1 DEF Mirror!Start, CopyInv, Copied, Concerns
<1>5. CASE Mirror(FALSE, x, d)!ReadToken(y1)
  <2>1. S'.at = "list" /\ S'.from = mirrorToken /\ S.at = "read"
    BY <1>0, <1>5 DEF Mirror!ReadToken, Mirror!Becomes, Mirror!Idle
  <2> QED
    BY <1>0, <1>5, <2>1 DEF Mirror!ReadToken, CopyInv, Copied, Concerns
<1>7. CASE Mirror(FALSE, x, d)!StartOver(y1)
  <2>1. S'.at = "read" /\ S.at = "list" /\ S.from # -1 /\ S.from < mirrorOldest
    BY <1>0, <1>7 DEF Mirror!StartOver, Mirror!Becomes, Mirror!Idle, Mirror!Refused, Mirror!NoToken
  <2> QED
    BY <1>0, <1>7, <2>1 DEF Mirror!StartOver, CopyInv, Copied, Concerns, Mirror!NoToken
<1>12. CASE Mirror(FALSE, x, d)!SaveToken(y1)
  <2>1. S'.at = "idle" /\ S.at = "apply" /\ S.list = {} /\ mirrorToken' = S.upto
    BY <1>0, <1>12 DEF Mirror!SaveToken, Mirror!Becomes, Mirror!Idle
  <2> QED
    BY <1>0, <1>12, <2>1 DEF Mirror!SaveToken, CopyInv, Copied, Concerns
<1>13. CASE Mirror(FALSE, x, d)!Die(y1)
  <2>1. S'.at = "idle" /\ x
    BY <1>0, <1>13 DEF Mirror!Die, Mirror!Becomes, Mirror!Idle, MirrorTypes, Mirror!TypeOK
  <2> QED
    BY <1>0, <1>13, <2>1 DEF Mirror!Die, CopyInv, Copied, Concerns
<1>14. CASE Mirror(FALSE, x, d)!UpdateFails(y1)
  BY <1>0, <1>14 DEF Mirror!UpdateFails, CopyInv
<1>6. CASE Mirror(FALSE, x, d)!List(y1)
  <2>1. /\ S.at = "list" /\ S'.at = "apply" /\ S'.list = Mirror(FALSE, x, d)!Listed(S.from) /\ S'.upto = mirrorNow
        /\ S'.from = S.from /\ UNCHANGED <<mirrorGoogle, mirrorChanged, mirrorNow, mirrorOldest, mirrorToken, mirrorRows>>
    BY <1>0, <1>6 DEF Mirror!List, Mirror!Becomes, SyncState
  <2>2. ASSUME NEW e \in MirrorEvents, IF S.from = -1 THEN mirrorGoogle[e] # -1 ELSE mirrorChanged[e] > S.from
        PROVE  \E i \in S'.list : i.event = e /\ i.time = mirrorGoogle[e]
    <3>1. [event |-> e, time |-> mirrorGoogle[e]] \in S'.list
      BY <2>1, <2>2 DEF Mirror!Listed, Mirror!NoToken, Mirror!Gone
    <3> QED
      BY <3>1
  <2>3. ASSUME NEW i \in S'.list
        PROVE  /\ i = [event |-> i.event, time |-> mirrorGoogle[i.event]] /\ i.event \in MirrorEvents
               /\ IF S.from = -1 THEN mirrorGoogle[i.event] # -1 ELSE mirrorChanged[i.event] > S.from
    BY <2>1, <2>3 DEF Mirror!Listed, Mirror!NoToken, Mirror!Gone
  <2>4. ASSUME NEW e \in MirrorEvents, Concerns(x, e)
        PROVE  \/ \E i \in S'.list : i.event = e /\ i.time = mirrorGoogle[e]
               \/ Copied(e) /\ \A i \in S'.list : i.event # e
    <3>1. CASE IF S.from = -1 THEN mirrorGoogle[e] # -1 ELSE mirrorChanged[e] > S.from
      BY <2>2, <3>1
    <3>2. CASE ~IF S.from = -1 THEN mirrorGoogle[e] # -1 ELSE mirrorChanged[e] > S.from
      <4>1. \A i \in S'.list : i.event # e
        BY <2>3, <3>2
      <4>2. Copied(e)
        BY <1>0, <2>1, <2>4, <3>2 DEF CopyInv, Copied, Concerns
      <4> QED
        BY <4>1, <4>2
    <3> QED
      BY <3>1, <3>2
  <2>5. \A i, j \in S'.list : i.event = j.event => i = j
    BY <2>3
  <2>6. \A i \in S'.list : mirrorChanged[i.event] > S.from
    BY <1>0, <2>3
  <2> QED
    <3>1. \A e \in MirrorEvents : ~x \/ mirrorGoogle[e] # -1 =>
             \/ \E i \in S'.list : i.event = e /\ i.time = mirrorGoogle[e]
             \/ /\ \A r \in mirrorRows : r.event = e => r.time = mirrorGoogle[e]
                /\ mirrorGoogle[e] # -1 => \E r \in mirrorRows : r.event = e
                /\ \A i \in S'.list : i.event # e
      BY <2>4 DEF Copied, Concerns
    <3>2. /\ (~x => mirrorOldest' = 0)
          /\ mirrorToken' <= mirrorNow' /\ \A e \in MirrorEvents : mirrorChanged'[e] <= mirrorNow'
          /\ S'.at = "apply" /\ S'.from = mirrorToken' /\ S'.upto <= mirrorNow'
      BY <1>0, <2>1 DEF CopyInv
    <3>3. /\ \A i, j \in S'.list : i.event = j.event => i = j
          /\ \A i \in S'.list : mirrorChanged'[i.event] > S'.from
      BY <2>1, <2>5, <2>6
    <3>4. \A e \in MirrorEvents : mirrorChanged'[e] <= S'.upto /\ Concerns(x, e)' =>
            \/ \E i \in S'.list : i.event = e /\ i.time = mirrorGoogle'[e]
            \/ Copied(e)' /\ \A i \in S'.list : i.event # e
      BY <2>1, <3>1 DEF Copied, Concerns
    <3>5. mirrorToken' # -1 =>
            \A e \in MirrorEvents : mirrorChanged'[e] <= mirrorToken' /\ Concerns(x, e)' => Copied(e)'
      BY <2>1 DEF CopyInv, Copied, Concerns
    <3> QED
      BY <3>2, <3>3, <3>4, <3>5 DEF CopyInv
(* What the sync does for one listed event concerns no other.              *)
<1>8. ASSUME NEW i \in S.list, S.at \in {"apply", "create", "update"}, S'.at = "apply",
             S'.list = S.list \ {i}, S'.from = S.from, S'.upto = S.upto,
             UNCHANGED <<mirrorGoogle, mirrorChanged, mirrorNow, mirrorOldest, mirrorToken>>,
             \A e \in MirrorEvents \ {i.event} : Copied(e) => Copied(e)',
             i.time = mirrorGoogle[i.event] => Copied(i.event)'
      PROVE  CopyInv(x, S)'
  <2>1. ASSUME NEW e \in MirrorEvents, mirrorChanged[e] <= S.upto, Concerns(x, e)
        PROVE  \/ \E j \in S'.list : j.event = e /\ j.time = mirrorGoogle[e]
               \/ Copied(e)' /\ \A j \in S'.list : j.event # e
    <3>1. CASE i.event = e
      BY <1>8, <2>1, <3>1 DEF CopyInv
    <3>2. CASE i.event # e
      BY <1>8, <2>1, <3>2 DEF CopyInv
    <3> QED
      BY <3>1, <3>2
  <2>2. ASSUME NEW e \in MirrorEvents, mirrorToken # -1, mirrorChanged[e] <= mirrorToken, Concerns(x, e) PROVE Copied(e)'
    BY <1>0, <1>8, <2>2 DEF CopyInv
  <2> QED
    BY <1>0, <1>8, <2>1, <2>2 DEF CopyInv, Concerns
<1>9. ASSUME NEW i \in Mirror(FALSE, x, d)!Item, Mirror(FALSE, x, d)!ApplyDeleted(y1, i) PROVE CopyInv(x, S)'
  <2>1. /\ S.at = "apply" /\ S'.at = "apply" /\ i \in S.list /\ i.time = -1
        /\ S'.list = S.list \ {i} /\ S'.from = S.from /\ S'.upto = S.upto
        /\ UNCHANGED <<mirrorGoogle, mirrorChanged, mirrorNow, mirrorOldest, mirrorToken>>
        /\ mirrorRows' = {r \in mirrorRows : r.event # i.event}
    BY <1>0, <1>9 DEF Mirror!ApplyDeleted, Mirror!Becomes, Mirror!RowsOf, Mirror!Gone, SyncState
  <2> QED
    BY <1>8, <2>1 DEF Copied
<1>10. ASSUME NEW i \in Mirror(FALSE, x, d)!Item, Mirror(FALSE, x, d)!Find(y1, i) PROVE CopyInv(x, S)'
  <2>1. /\ S.at = "apply" /\ i \in S.list /\ i.time # -1
        /\ S'.list = S.list /\ S'.from = S.from /\ S'.upto = S.upto /\ S'.item = {i}
        /\ UNCHANGED <<mirrorGoogle, mirrorChanged, mirrorNow, mirrorOldest, mirrorToken, mirrorRows>>
        /\ \/ S'.at = "create" /\ \A r \in mirrorRows : r.event # i.event
           \/ S'.at = "update" /\ \E r \in mirrorRows : r.event = i.event /\ S'.row = {r}
    <3>1. CASE /\ \A r \in mirrorRows : r.event # i.event
               /\ S' = [S EXCEPT !.at = "create", !.item = {i}]
      BY <1>0, <1>10, <3>1 DEF Mirror!Find, Mirror!Gone, SyncState
    <3>2. CASE \E r \in mirrorRows : r.event = i.event /\ S' = [S EXCEPT !.at = "update", !.item = {i}, !.row = {r}]
      BY <1>0, <1>10, <3>2 DEF Mirror!Find, Mirror!Gone, SyncState
    <3> QED
      BY <1>0, <1>10, <3>1, <3>2 DEF Mirror!Find, Mirror!Becomes, Mirror!RowsOf
  <2> QED
    BY <1>0, <2>1 DEF CopyInv, Copied, Concerns
<1>11. ASSUME Mirror(FALSE, x, d)!Update(y1) \/ Mirror(FALSE, x, d)!Create(y1) PROVE CopyInv(x, S)'
  <2>1. /\ S.at \in {"create", "update"} /\ S'.at = "apply" /\ S'.from = S.from /\ S'.upto = S.upto
        /\ S'.list = S.list \ S.item
        /\ UNCHANGED <<mirrorGoogle, mirrorChanged, mirrorNow, mirrorOldest, mirrorToken>>
    <3>1. S' = Mirror(FALSE, x, d)!NextItem(y1)
      BY <1>0, <1>11 DEF Mirror!Update, Mirror!Create, Mirror!Becomes
    <3> QED
      BY <1>0, <1>11, <3>1 DEF Mirror!Update, Mirror!Create, Mirror!NextItem, SyncState
  <2>2. PICK i \in S.list : S.item = {i} /\ (S.at = "create" => \A r \in mirrorRows : r.event # i.event)
    BY <2>1 DEF CopyInv
  <2>3. i \in [event: MirrorEvents, time: MirrorTimes]
    BY <1>0, <2>2 DEF SyncState
  <2>4. CASE S.at = "create"
    <3> DEFINE new == [event |-> i.event, by |-> y1, time |-> i.time]
    <3>1. mirrorRows' = mirrorRows \cup {new} /\ new.event = i.event /\ new.time = i.time
      BY <1>11, <2>2, <2>4 DEF Mirror!Update, Mirror!Create
    <3> HIDE DEF new
    <3> QED
      BY <1>8, <2>1, <2>2, <2>4, <3>1 DEF Copied
  <2>5. CASE S.at = "update"
    <3>1. PICK r \in mirrorRows : S.row = {r} /\ r.event = i.event
      BY <2>2, <2>5 DEF CopyInv
    <3>2. PICK q \in mirrorRows : q.event = r.event /\ q.by = r.by /\ mirrorRows' = (mirrorRows \ {q}) \cup {[q EXCEPT !.time = i.time]}
      BY <1>11, <2>2, <2>5, <3>1 DEF Mirror!Update, Mirror!Create
    <3> DEFINE new == [r EXCEPT !.time = i.time]
    <3>3. q = r /\ mirrorRows' = (mirrorRows \ {r}) \cup {new}
      BY <3>1, <3>2 DEF RowsDiffer
    <3>4. new.event = i.event /\ new.time = i.time
      BY <1>0, <3>1
    <3>5. \A p \in mirrorRows : p.event = i.event => p = r
      BY <1>0, <3>1 DEF RowsDiffer
    <3> HIDE DEF new
    <3> QED
      BY <1>8, <2>1, <2>2, <2>5, <3>1, <3>3, <3>4, <3>5 DEF Copied
  <2> QED
    BY <2>1, <2>4, <2>5
<1> QED
  BY <1>1, <1>2, <1>3, <1>4, <1>5, <1>6, <1>7, <1>9, <1>10, <1>11, <1>12, <1>13, <1>14 DEF Mirror!Next, Mirror!Step

(* A step of the application is one of the copy, or none of it.            *)
LEMMA MirrorTurns ==
  ASSUME [Next]_vars
  PROVE  /\ under' = under
         /\ under = "mirror" => [Mirror(FALSE, FALSE, 0)!Next]_mirrorVars
         /\ under = "mirror, tokens expire" => [Mirror(FALSE, TRUE, MaxMirrorDeaths)!Next]_mirrorVars
         /\ under = "mirror, two syncs" => [Mirror(TRUE, FALSE, 1)!Next]_mirrorVars
BY DEF Next, Turn, vars, NotDay, NotPush, NotLimit, NotWizard, NotPicker

MirrorInv ==
  /\ under = "mirror" =>
       MirrorTypes(FALSE, FALSE, 0) /\ RowsDiffer /\ CopyInv(FALSE, mirrorSync[y1])
  /\ under = "mirror, tokens expire" =>
       MirrorTypes(FALSE, TRUE, MaxMirrorDeaths) /\ RowsDiffer /\ CopyInv(TRUE, mirrorSync[y1])
  /\ under = "mirror, two syncs" => MirrorTypes(TRUE, FALSE, 1) /\ RowsDiffer

LEMMA MirrorInit ==
  ASSUME NEW o \in BOOLEAN, NEW x \in BOOLEAN, NEW d \in Nat, NEW e \in Nat, Mirror(o, FALSE, e)!Init
  PROVE  /\ MirrorTypes(o, x, d) /\ RowsDiffer
         /\ ~o => CopyInv(x, mirrorSync[y1])
<1> USE MirrorConstants
    DEF Mirror!Init, Mirror!Gone, Mirror!NoToken, Mirror!Idle, Mirroring
<1>1. MirrorTypes(o, x, d)
  <2>1. Mirror(o, x, d)!Idle \in SyncState(o, x, d)
    BY DEF SyncState
  <2> QED
    BY <2>1 DEF MirrorTypes, Mirror!TypeOK, SyncState
<1>2. RowsDiffer
  BY DEF RowsDiffer
<1>3. ~o => CopyInv(x, mirrorSync[y1])
  BY DEF CopyInv, Copied
<1> QED
  BY <1>1, <1>2, <1>3

LEMMA MirrorStep == ASSUME MirrorInv, [Next]_vars PROVE MirrorInv'
<1>1. CASE under = "mirror"
  <2>1. MirrorTypes(FALSE, FALSE, 0)'
    BY <1>1, MirrorTypeStep, MirrorTurns DEF MirrorInv
  <2>2. RowsDiffer'
    BY <1>1, RowsDifferStep, MirrorTurns DEF MirrorInv
  <2>3. CopyInv(FALSE, mirrorSync[y1])'
    BY <1>1, <2>1, CopyStep, MirrorTurns DEF MirrorInv
  <2> QED
    BY <1>1, <2>1, <2>2, <2>3, MirrorTurns DEF MirrorInv
<1>2. CASE under = "mirror, tokens expire"
  <2>1. MirrorTypes(FALSE, TRUE, MaxMirrorDeaths)'
    BY <1>2, MirrorConstants, MirrorTypeStep, MirrorTurns DEF MirrorInv
  <2>2. RowsDiffer'
    BY <1>2, MirrorConstants, RowsDifferStep, MirrorTurns DEF MirrorInv
  <2>3. CopyInv(TRUE, mirrorSync[y1])'
    BY <1>2, <2>1, MirrorConstants, CopyStep, MirrorTurns DEF MirrorInv
  <2> QED
    BY <1>2, <2>1, <2>2, <2>3, MirrorTurns DEF MirrorInv
<1>3. CASE under = "mirror, two syncs"
  BY <1>3, MirrorTypeStep, RowsDifferStep, MirrorTurns DEF MirrorInv
<1> QED
  BY <1>1, <1>2, <1>3, MirrorTurns DEF MirrorInv

LEMMA MirrorFinite ==
  ASSUME NEW o, NEW x, NEW d, NEW S
  PROVE  /\ Mirror(o, x, d)!IsFiniteSet(S) <=> IsFiniteSet(S)
         /\ Mirror(o, x, d)!Cardinality(S) = Cardinality(S)
<1>1. Mirror(o, x, d)!IsFiniteSet(S) <=> IsFiniteSet(S)
  BY DEF Mirror!IsFiniteSet, IsFiniteSet
<1>2. Mirror(o, x, d)!Cardinality(S) = Cardinality(S)
  BY DEF Mirror!Cardinality, Cardinality
<1> QED
  BY <1>1, <1>2

(* What is copied is one row, with the event's time.                       *)
LEMMA CopiedIsMirrored ==
  ASSUME NEW x \in BOOLEAN, NEW d \in Nat, MirrorTypes(FALSE, x, d), RowsDiffer, NEW e \in MirrorEvents, Copied(e)
  PROVE  Mirror(FALSE, x, d)!Mirrored(e)
<1>1. mirrorRows \subseteq [event: MirrorEvents, by: {y1}, time: MirrorTimes] /\ -1 \notin MirrorTimes
  BY MirrorConstants DEF MirrorTypes, Mirror!TypeOK, Mirror!Rows
<1>2. CASE mirrorGoogle[e] = -1
  BY <1>1, <1>2 DEF Copied, Mirror!Mirrored, Mirror!RowsOf, Mirror!Gone
<1>3. CASE mirrorGoogle[e] # -1
  <2>1. PICK r \in mirrorRows : r.event = e
    BY <1>3 DEF Copied
  <2>2. Mirror(FALSE, x, d)!RowsOf(e) = {r}
    BY <1>1, <2>1 DEF RowsDiffer, Mirror!RowsOf
  <2>3. Cardinality({r}) = 1
    BY FS_Singleton
  <2>4. Mirror(FALSE, x, d)!Cardinality(Mirror(FALSE, x, d)!RowsOf(e)) = 1
    BY <2>2, <2>3, MirrorFinite
  <2> QED
    BY <1>3, <2>1, <2>2, <2>4 DEF Copied, Mirror!Mirrored, Mirror!Gone
<1> QED
  BY <1>2, <1>3

LEMMA RowsAreBounded ==
  ASSUME MirrorTypes(TRUE, FALSE, 1), RowsDiffer PROVE Mirror(TRUE, FALSE, 1)!RowsBounded
<1>1. IsFiniteSet(OverlapSyncs)
  <2>1. Mirror(TRUE, FALSE, MaxMirrorDeaths)!CalendarMirrorAssumption
    BY ScheduleAssumption
  <2> QED
    BY <2>1, MirrorFinite DEF Mirror!CalendarMirrorAssumption
<1>2. ASSUME NEW e \in OverlapEvents
      PROVE  Cardinality(Mirror(TRUE, FALSE, 1)!RowsOf(e)) <= Cardinality(OverlapSyncs)
  <2> DEFINE R == {r \in mirrorRows : r.event = e}
             by == [r \in R |-> r.by]
  <2>1. by \in Injection(R, OverlapSyncs)
    BY DEF MirrorTypes, Mirror!TypeOK, Mirror!Rows, RowsDiffer, Injection, IsInjective
  <2> QED
    BY <1>1, <2>1, FS_Injection DEF Mirror!RowsOf
<1> QED
  BY <1>2, MirrorFinite DEF Mirror!RowsBounded

(* What changed at Google before the stored token was given is in the rows *)
(* once and with its time, for any events and however they change and the  *)
(* sync is cut short; and overlapping syncs, however many, make no more    *)
(* rows of an event than there are syncs.                                  *)
THEOREM CalendarsStayRead == Spec => []CalendarsAreRead
<1>1. Init => MirrorInv
  BY MirrorInit, MirrorConstants DEF Init, MirrorInv
<1>2. MirrorInv /\ [Next]_vars => MirrorInv'
  BY MirrorStep
<1>3. MirrorInv => CalendarsAreRead
  <2> SUFFICES ASSUME MirrorInv PROVE CalendarsAreRead
    OBVIOUS
  <2>1. CASE under = "mirror"
    BY <2>1, CopiedIsMirrored DEF MirrorInv, CopyInv, Concerns, MirrorTypes, CalendarsAreRead, Mirror!TokenMeansMirrored, Mirror!NoToken
  <2>2. CASE under = "mirror, tokens expire"
    BY <2>2, CopiedIsMirrored, MirrorConstants
       DEF MirrorInv, CopyInv, Concerns, MirrorTypes, CalendarsAreRead, Mirror!ExistingAreMirrored, Mirror!NoToken, Mirror!Gone
  <2>3. CASE under = "mirror, two syncs"
    BY <2>3, RowsAreBounded DEF MirrorInv, MirrorTypes, CalendarsAreRead
  <2> QED
    BY <2>1, <2>2, <2>3 DEF CalendarsAreRead
<1> QED
  BY <1>1, <1>2, <1>3, PTL DEF Spec
-----------------------------------------------------------------------------
(* The limit on syncs by hand.  Induction is over a set of numbers, so that  *)
(* it is a statement without operators.                                    *)
LEMMA NumberByNumber ==
  ASSUME NEW P, P \subseteq Nat, 0 \in P, \A n \in P : n + 1 \in P
  PROVE  P = Nat
<1> SUFFICES ASSUME P # Nat PROVE FALSE
  OBVIOUS
<1>1. Nat \ P \subseteq Nat /\ Nat \ P # {}
  OBVIOUS
<1>2. PICK n \in Nat \ P : \A m \in Nat \ P : <<m, n>> \notin OpToRel(<, Nat)
  BY <1>1, WFMin, NatLessThanWellFounded, Zenon
<1>3. \A m \in Nat \ P : ~(m < n)
  BY <1>2, Zenon DEF OpToRel
<1>4. n # 0 /\ n - 1 \in Nat
  OBVIOUS
<1>5. n - 1 \in P
  BY <1>3, <1>4
<1> QED
  BY <1>4, <1>5

LEMMA Product == \A a, b \in Nat : a * b \in Nat
OBVIOUS

(* Factorials.                                                             *)
Fac(f, n) == f \in [0 .. n -> Nat] /\ f[0] = 1 /\ \A i \in 1 .. n : f[i] = i * f[i - 1]

LEMMA FacExists == \A n \in Nat : \E f : Fac(f, n)
<1> DEFINE P == {n \in Nat : \E f : Fac(f, n)}
<1>1. 0 \in P
  <2>1. Fac([i \in 0 .. 0 |-> 1], 0)
    BY DEF Fac
  <2> QED
    BY <2>1
<1>2. ASSUME NEW n \in P PROVE n + 1 \in P
  <2>1. PICK f : Fac(f, n)
    OBVIOUS
  <2> DEFINE last == (n + 1) * f[n]
             g == [i \in 0 .. n + 1 |-> IF i <= n THEN f[i] ELSE last]
  <2>2. last \in Nat /\ f \in [0 .. n -> Nat]
    BY <2>1, Product DEF Fac
  <2>3. \A i \in 1 .. n : g[i] = i * g[i - 1]
    <3> HIDE DEF last
    <3>1. ASSUME NEW i \in 1 .. n PROVE g[i] = f[i] /\ g[i - 1] = f[i - 1]
      OBVIOUS
    <3> HIDE DEF g
    <3> QED
      BY <2>1, <3>1 DEF Fac
  <2>4. g[n + 1] = (n + 1) * g[n] /\ g[0] = 1
    <3>1. g[n + 1] = last /\ g[n] = f[n] /\ g[0] = f[0]
      OBVIOUS
    <3> HIDE DEF g
    <3> QED
      BY <2>1, <3>1 DEF Fac
  <2>5. g \in [0 .. n + 1 -> Nat]
    <3> HIDE DEF last
    <3> QED
      BY <2>2
  <2> HIDE DEF g
  <2>6. Fac(g, n + 1)
    <3>1. ASSUME NEW i \in 1 .. n + 1 PROVE g[i] = i * g[i - 1]
      <4>1. CASE i \in 1 .. n
        BY <2>3, <4>1
      <4>2. CASE i = n + 1
        BY <2>4, <4>2
      <4> QED
        BY <4>1, <4>2
    <3> QED
      BY <2>4, <2>5, <3>1 DEF Fac
  <2> QED
    BY <2>6
<1> HIDE DEF P
<1>3. P = Nat
  <2>1. P \subseteq Nat
    BY DEF P
  <2> QED
    BY <1>1, <1>2, <2>1, NumberByNumber
<1> QED
  BY <1>3 DEF P

LEMMA FacUnique ==
  ASSUME NEW m \in Nat, NEW n \in Nat, m <= n, NEW f, Fac(f, m), NEW g, Fac(g, n)
  PROVE  f[m] = g[m]
<1> DEFINE P == {i \in Nat : i <= m => f[i] = g[i]}
<1>1. 0 \in P
  BY DEF Fac
<1>2. ASSUME NEW i \in P PROVE i + 1 \in P
  <2>1. ASSUME i + 1 <= m PROVE f[i + 1] = g[i + 1]
    <3>1. i + 1 \in 1 .. m /\ i + 1 \in 1 .. n /\ i + 1 - 1 = i /\ f[i] = g[i]
      BY <2>1
    <3>2. f[i + 1] = (i + 1) * f[i] /\ g[i + 1] = (i + 1) * g[i]
      BY <3>1 DEF Fac
    <3> QED
      BY <3>1, <3>2
  <2> QED
    BY <2>1
<1> HIDE DEF P
<1>3. P = Nat
  <2>1. P \subseteq Nat
    BY DEF P
  <2> QED
    BY <1>1, <1>2, <2>1, NumberByNumber
<1> QED
  BY <1>3 DEF P

Factorial(n) == Limit!factorial[n]

LEMMA FactorialIs ==
  /\ Factorial(0) = 1
  /\ \A n \in Nat : Factorial(n) \in Nat \ {0} /\ Factorial(n + 1) = (n + 1) * Factorial(n)
<1> DEFINE body(h) == [n \in Nat |-> IF n = 0 THEN 1 ELSE n * h[n - 1]]
           fac(n) == CHOOSE f : Fac(f, n)
           h == [n \in Nat |-> fac(n)[n]]
<1>1. \A n \in Nat : Fac(fac(n), n)
  BY FacExists
<1> HIDE DEF fac
<1>2. h[0] = 1 /\ h \in [Nat -> Nat]
  BY <1>1 DEF Fac
<1>3. ASSUME NEW n \in Nat PROVE h[n + 1] = (n + 1) * h[n]
  <2>1. fac(n + 1)[n + 1] = (n + 1) * fac(n + 1)[n]
    <3>1. Fac(fac(n + 1), n + 1) /\ n + 1 \in 1 .. n + 1 /\ n + 1 - 1 = n
      BY <1>1
    <3> QED
      BY <3>1 DEF Fac
  <2>2. fac(n + 1)[n] = fac(n)[n]
    BY <1>1, FacUnique
  <2> QED
    BY <2>1, <2>2
<1> HIDE DEF h
<1>4. h = body(h)
  <2>1. ASSUME NEW n \in Nat PROVE h[n] = body(h)[n]
    <3>1. CASE n = 0
      BY <1>2, <3>1
    <3>2. CASE n # 0
      <4>1. n - 1 \in Nat /\ n - 1 + 1 = n
        BY <3>2
      <4>2. h[n - 1 + 1] = (n - 1 + 1) * h[n - 1]
        BY <1>3, <4>1
      <4> QED
        BY <3>2, <4>1, <4>2
    <3> QED
      BY <3>1, <3>2
  <2> QED
    BY <1>2, <2>1
<1> DEFINE g == Limit!factorial
<1>5. g = body(g)
  <2>1. g = CHOOSE k : k = body(k)
    BY Zenon DEF Limit!factorial
  <2> HIDE DEF g
  <2> QED
    BY <1>4, <2>1, Zenon
<1> HIDE DEF g
<1>6. g[0] = 1 /\ \A n \in Nat : g[n + 1] = (n + 1) * g[n]
  <2>1. \A n \in Nat : g[n] = IF n = 0 THEN 1 ELSE n * g[n - 1]
    BY <1>5
  <2> QED
    BY <2>1
<1> DEFINE P == {n \in Nat : g[n] \in Nat \ {0}}
<1>7. 0 \in P
  BY <1>6
<1>8. ASSUME NEW n \in P PROVE n + 1 \in P
  <2>1. g[n] \in Nat \ {0} /\ n \in Nat /\ g[n + 1] = (n + 1) * g[n]
    BY <1>6
  <2>2. \A a, b \in Nat \ {0} : a * b \in Nat \ {0}
    OBVIOUS
  <2>3. g[n + 1] \in Nat \ {0}
    BY <2>1, <2>2
  <2> QED
    BY <2>1, <2>3
<1> HIDE DEF P
<1>9. P = Nat
  <2>1. P \subseteq Nat
    BY DEF P
  <2> QED
    BY <1>7, <1>8, <2>1, NumberByNumber
<1> QED
  BY <1>6, <1>9 DEF P, Factorial, g

LEMMA Multiple == \A c \in Nat, d \in Nat \ {0} : (c * d) \div d = c
OBVIOUS

(* Falling and level sequences of counts: how often a choice of b among     *)
(* a + b is made.                                                          *)
Mono(a, b) == {f \in [1 .. a -> 0 .. b] : \A i, j \in 1 .. a : i <= j => f[i] <= f[j]}
Counted(a, b) == IsFiniteSet(Mono(a, b)) /\ Cardinality(Mono(a, b)) * (Factorial(a) * Factorial(b)) = Factorial(a + b)

LEMMA MonoEnds ==
  ASSUME NEW a \in Nat, NEW b \in Nat, a = 0 \/ b = 0
  PROVE  Counted(a, b)
<1> DEFINE f == [i \in 1 .. a |-> 0]
<1>1. \A g \in Mono(a, b) : g = f
  BY DEF Mono
<1>2. f \in Mono(a, b)
  BY DEF Mono
<1>3. Mono(a, b) = {f}
  BY <1>1, <1>2
<1>4. IsFiniteSet(Mono(a, b)) /\ Cardinality(Mono(a, b)) = 1
  BY <1>3, FS_Singleton
<1>5. Factorial(a) * Factorial(b) = Factorial(a + b)
  <2>1. CASE a = 0
    BY <2>1, FactorialIs
  <2>2. CASE b = 0
    BY <2>2, FactorialIs
  <2> QED
    BY <2>1, <2>2
<1> QED
  BY <1>4, <1>5, FactorialIs DEF Counted

LEMMA MonoLess ==
  ASSUME NEW a \in Nat \ {0}, NEW b \in Nat \ {0}
  PROVE  {f \in Mono(a, b) : f[a] # b} = Mono(a, b - 1)
<1>1. ASSUME NEW f \in Mono(a, b), f[a] # b PROVE f \in Mono(a, b - 1)
  <2>1. f \in [1 .. a -> 0 .. b] /\ \A i \in 1 .. a : f[i] <= f[a]
    BY DEF Mono
  <2>2. \A i \in 1 .. a : f[i] \in 0 .. b - 1
    BY <1>1, <2>1
  <2> QED
    BY <2>1, <2>2 DEF Mono
<1>2. ASSUME NEW f \in Mono(a, b - 1) PROVE f \in Mono(a, b) /\ f[a] # b
  BY DEF Mono
<1> QED
  BY <1>1, <1>2

LEMMA MonoFull ==
  ASSUME NEW a \in Nat \ {0}, NEW b \in Nat \ {0}, IsFiniteSet(Mono(a - 1, b))
  PROVE  LET S == {f \in Mono(a, b) : f[a] = b} IN IsFiniteSet(S) /\ Cardinality(S) = Cardinality(Mono(a - 1, b))
<1> DEFINE S == {f \in Mono(a, b) : f[a] = b}
           T == Mono(a - 1, b)
           more(f) == [i \in 1 .. a |-> IF i = a THEN b ELSE f[i]]
           F == [f \in T |-> more(f)]
<1>1. ASSUME NEW f \in T PROVE more(f) \in S
  <2>1. f \in [1 .. a - 1 -> 0 .. b] /\ \A i, j \in 1 .. a - 1 : i <= j => f[i] <= f[j]
    BY DEF Mono
  <2>2. more(f) \in [1 .. a -> 0 .. b] /\ more(f)[a] = b
    BY <2>1
  <2>3. ASSUME NEW i \in 1 .. a, NEW j \in 1 .. a, i <= j PROVE more(f)[i] <= more(f)[j]
    <3>1. CASE j = a
      BY <2>2, <3>1
    <3>2. CASE j # a
      BY <2>1, <2>3, <3>2
    <3> QED
      BY <3>1, <3>2
  <2> HIDE DEF more
  <2> QED
    BY <2>2, <2>3 DEF Mono
<1>2. ASSUME NEW f \in T, NEW g \in T, more(f) = more(g) PROVE f = g
  <2>1. f \in [1 .. a - 1 -> 0 .. b] /\ g \in [1 .. a - 1 -> 0 .. b]
    BY DEF Mono
  <2>2. ASSUME NEW i \in 1 .. a - 1 PROVE f[i] = g[i]
    <3>1. more(f)[i] = f[i] /\ more(g)[i] = g[i]
      OBVIOUS
    <3> QED
      BY <1>2, <3>1
  <2> QED
    BY <2>1, <2>2
<1>3. ASSUME NEW f \in S PROVE \E g \in T : more(g) = f
  <2> DEFINE g == [i \in 1 .. a - 1 |-> f[i]]
  <2>1. f \in [1 .. a -> 0 .. b] /\ (\A i, j \in 1 .. a : i <= j => f[i] <= f[j]) /\ f[a] = b
    BY DEF Mono
  <2>2. g \in T
    BY <2>1 DEF Mono
  <2>3. more(g) = f
    BY <2>1
  <2> QED
    BY <2>2, <2>3
<1> HIDE DEF S, T, more
<1>4. F \in Bijection(T, S)
  BY <1>1, <1>2, <1>3 DEF Bijection, Injection, Surjection, IsInjective
<1>5. ExistsBijection(T, S)
  BY <1>4 DEF ExistsBijection
<1>6. IsFiniteSet(S) /\ Cardinality(S) = Cardinality(T)
  BY <1>5, FS_Bijection DEF T
<1> QED
  BY <1>6 DEF S, T

LEMMA Sums ==
  ASSUME NEW a \in Nat, NEW b \in Nat, NEW c \in Nat, NEW e \in Nat, NEW x \in Nat, NEW y \in Nat, NEW n \in Nat,
         c * (x * (b * y)) = n, e * ((a * x) * y) = n
  PROVE  (c + e) * ((a * x) * (b * y)) = (a + b) * n
<1>1. (c + e) * ((a * x) * (b * y)) = a * (c * (x * (b * y))) + b * (e * ((a * x) * y))
  OBVIOUS
<1>2. a * n + b * n = (a + b) * n
  OBVIOUS
<1> QED
  BY <1>1, <1>2

LEMMA MonoStep ==
  ASSUME NEW a \in Nat \ {0}, NEW b \in Nat \ {0}, Counted(a - 1, b), Counted(a, b - 1)
  PROVE  Counted(a, b)
<1> DEFINE S == {f \in Mono(a, b) : f[a] = b}
           T == {f \in Mono(a, b) : f[a] # b}
           c == Cardinality(Mono(a - 1, b))
           e == Cardinality(Mono(a, b - 1))
<1>1. IsFiniteSet(S) /\ Cardinality(S) = c
  BY MonoFull DEF Counted
<1>2. IsFiniteSet(T) /\ Cardinality(T) = e
  BY MonoLess DEF Counted
<1>3. Mono(a, b) = S \cup T /\ S \cap T = {}
  OBVIOUS
<1> HIDE DEF S, T
<1>4. IsFiniteSet(Mono(a, b)) /\ Cardinality(Mono(a, b)) = Cardinality(S) + Cardinality(T) - Cardinality({})
  BY <1>1, <1>2, <1>3, FS_Union
<1>5. c \in Nat /\ e \in Nat
  BY <1>1, <1>2, FS_CardinalityType
<1>6. IsFiniteSet(Mono(a, b)) /\ Cardinality(Mono(a, b)) = c + e
  BY <1>1, <1>2, <1>4, <1>5, FS_EmptySet
<1> DEFINE x == Factorial(a - 1)  y == Factorial(b - 1)  n == Factorial(a + b - 1)
<1>7. a - 1 \in Nat /\ a - 1 + 1 = a /\ b - 1 \in Nat /\ b - 1 + 1 = b /\ a + b - 1 \in Nat /\ a + b - 1 + 1 = a + b
      /\ a - 1 + b = a + b - 1 /\ a + (b - 1) = a + b - 1
  OBVIOUS
<1>8. Factorial(a) = a * x /\ Factorial(b) = b * y /\ Factorial(a + b) = (a + b) * n
      /\ x \in Nat /\ y \in Nat /\ n \in Nat
  <2>1. Factorial(a - 1 + 1) = (a - 1 + 1) * x /\ Factorial(b - 1 + 1) = (b - 1 + 1) * y
        /\ Factorial(a + b - 1 + 1) = (a + b - 1 + 1) * n
    BY <1>7, FactorialIs
  <2>2. x \in Nat /\ y \in Nat /\ n \in Nat
    BY <1>7, FactorialIs
  <2> QED
    BY <1>7, <2>1, <2>2
<1>9. c * (x * (b * y)) = n /\ e * ((a * x) * y) = n
  BY <1>7, <1>8 DEF Counted
<1> HIDE DEF c, e, x, y, n
<1>10. (c + e) * ((a * x) * (b * y)) = (a + b) * n
  BY <1>5, <1>8, <1>9, Sums
<1> QED
  BY <1>6, <1>8, <1>10 DEF Counted

LEMMA MonoCounted == \A a, b \in Nat : Counted(a, b)
<1> DEFINE P == {n \in Nat : \A a, b \in Nat : a + b = n => Counted(a, b)}
<1>1. 0 \in P
  <2>1. ASSUME NEW a \in Nat, NEW b \in Nat, a + b = 0 PROVE Counted(a, b)
    BY <2>1, MonoEnds
  <2> QED
    BY <2>1
<1>2. ASSUME NEW n \in P PROVE n + 1 \in P
  <2>1. ASSUME NEW a \in Nat, NEW b \in Nat, a + b = n + 1 PROVE Counted(a, b)
    <3>1. CASE a = 0 \/ b = 0
      BY <3>1, MonoEnds
    <3>2. CASE a # 0 /\ b # 0
      <4>1. a - 1 \in Nat /\ b - 1 \in Nat /\ (a - 1) + b = n /\ a + (b - 1) = n
        BY <2>1, <3>2
      <4>2. Counted(a - 1, b) /\ Counted(a, b - 1)
        BY <4>1
      <4> QED
        BY <3>2, <4>2, MonoStep
    <3> QED
      BY <3>1, <3>2
  <2> QED
    BY <2>1
<1> HIDE DEF P
<1>3. P = Nat
  <2>1. P \subseteq Nat
    BY DEF P
  <2> QED
    BY <1>1, <1>2, <2>1, NumberByNumber
<1>4. ASSUME NEW a \in Nat, NEW b \in Nat PROVE Counted(a, b)
  <2>1. a + b \in P
    BY <1>3
  <2> QED
    BY <2>1 DEF P
<1> QED
  BY <1>4

LEMMA ChooseCounts ==
  ASSUME NEW a \in Nat, NEW b \in Nat
  PROVE  IsFiniteSet(Mono(a, b)) /\ Limit!choose(a + b, b) = Cardinality(Mono(a, b))
<1> DEFINE c == Cardinality(Mono(a, b))  d == Factorial(b) * Factorial(a)
<1>1. IsFiniteSet(Mono(a, b)) /\ c * (Factorial(a) * Factorial(b)) = Factorial(a + b)
  BY MonoCounted DEF Counted
<1>2. c \in Nat
  BY <1>1, FS_CardinalityType
<1>3. Factorial(a) \in Nat \ {0} /\ Factorial(b) \in Nat \ {0}
  BY FactorialIs
<1>4. d \in Nat \ {0} /\ d = Factorial(a) * Factorial(b)
  <2>1. \A i, j \in Nat \ {0} : i * j \in Nat \ {0} /\ i * j = j * i
    OBVIOUS
  <2> QED
    BY <1>3, <2>1
<1>5. Limit!choose(a + b, b) = Factorial(a + b) \div d
  <2>1. a + b - b = a
    OBVIOUS
  <2> QED
    BY <2>1 DEF Limit!choose, Factorial
<1> HIDE DEF c, d
<1>6. (c * d) \div d = c
  BY <1>2, <1>4, Multiple
<1>7. c * d = Factorial(a + b)
  BY <1>1, <1>4
<1> QED
  BY <1>1, <1>5, <1>6, <1>7 DEF c

-----------------------------------------------------------------------------
(* A request stands at the count it will write back; one that has not read, *)
(* or will be refused, at the counter itself.  How many stand below each   *)
(* count is a falling sequence, and every acceptance makes it a later one. *)
R == SyncRequests
Stands(k, reads, ats, r) == IF ats[r] = "idle" \/ reads[r] >= SyncLimit THEN k ELSE reads[r]
Behind(k, reads, ats, u) == {r \in R : Stands(k, reads, ats, r) < u}
Counts(k, reads, ats) == [u \in 1 .. SyncLimit |-> Cardinality(Behind(k, reads, ats, u))]
Later(f, g) == \E s \in 1 .. SyncLimit : g[s] < f[s] /\ \A u \in 1 .. SyncLimit : u < s => g[u] = f[u]

LimitTypes ==
  /\ limitKey \in [value: 0 .. SyncLimit, expires: BOOLEAN]
  /\ limitRead \in [R -> 0 .. SyncLimit] /\ limitAt \in [R -> {"idle", "decide"}]
  /\ limitAccepted \in 0 .. MaxAccepted
Before(f) ==
  \E H \in SUBSET Mono(SyncLimit, Cardinality(R)) : Cardinality(H) = limitAccepted /\ \A h \in H : Later(h, f)
LimitInv == LimitTypes /\ Before(Counts(limitKey.value, limitRead, limitAt))

LEMMA LimitConstants ==
  IsFiniteSet(R) /\ R # {} /\ Cardinality(R) \in Nat \ {0} /\ SyncLimit \in Nat \ {0} /\ MaxAccepted \in Nat \ {0}
<1>1. Limit!ManualSyncAssumption
  BY ScheduleAssumption
<1>2. IsFiniteSet(R)
  BY <1>1 DEF Limit!ManualSyncAssumption, Limit!IsFiniteSet, IsFiniteSet, R
<1>3. Cardinality(R) \in Nat \ {0}
  BY <1>1, <1>2, FS_CardinalityType, FS_EmptySet DEF Limit!ManualSyncAssumption, R
<1> QED
  BY <1>1, <1>2, <1>3 DEF Limit!ManualSyncAssumption, R

LEMMA CountsAreMono ==
  ASSUME NEW k \in 0 .. SyncLimit, NEW reads \in [R -> 0 .. SyncLimit], NEW ats
  PROVE  Counts(k, reads, ats) \in Mono(SyncLimit, Cardinality(R))
<1> DEFINE B(u) == Behind(k, reads, ats, u)
           f == Counts(k, reads, ats)
<1>1. ASSUME NEW u PROVE IsFiniteSet(B(u)) /\ Cardinality(B(u)) \in 0 .. Cardinality(R)
  <2>1. B(u) \in SUBSET R
    BY DEF Behind
  <2>2. IsFiniteSet(B(u)) /\ Cardinality(B(u)) <= Cardinality(R)
    BY <2>1, LimitConstants, FS_Subset
  <2>3. Cardinality(B(u)) \in Nat
    BY <2>2, FS_CardinalityType
  <2> QED
    BY <2>2, <2>3, LimitConstants
<1>2. ASSUME NEW u \in 1 .. SyncLimit, NEW v \in 1 .. SyncLimit, u <= v PROVE Cardinality(B(u)) <= Cardinality(B(v))
  <2>1. \A r \in R : Stands(k, reads, ats, r) \in Nat
    BY LimitConstants DEF Stands
  <2>2. B(u) \in SUBSET B(v)
    BY <1>2, <2>1, LimitConstants DEF Behind
  <2> HIDE DEF B
  <2> QED
    BY <1>1, <2>2, FS_Subset
<1>3. f = [u \in 1 .. SyncLimit |-> Cardinality(B(u))]
  BY DEF Counts
<1> HIDE DEF B
<1> QED
  BY <1>1, <1>2, <1>3 DEF Mono

LEMMA LaterStill ==
  ASSUME NEW n \in Nat, NEW f \in Mono(SyncLimit, n), NEW g \in Mono(SyncLimit, n), NEW h \in Mono(SyncLimit, n), Later(f, g), Later(g, h)
  PROVE  Later(f, h)
<1> USE LimitConstants
<1>1. /\ f \in [1 .. SyncLimit -> 0 .. n] /\ g \in [1 .. SyncLimit -> 0 .. n] /\ h \in [1 .. SyncLimit -> 0 .. n]
  BY DEF Mono
<1>2. PICK s \in 1 .. SyncLimit : g[s] < f[s] /\ \A u \in 1 .. SyncLimit : u < s => g[u] = f[u]
  BY DEF Later
<1>3. PICK t \in 1 .. SyncLimit : h[t] < g[t] /\ \A u \in 1 .. SyncLimit : u < t => h[u] = g[u]
  BY DEF Later
<1>4. CASE s <= t
  <2>1. h[s] < f[s]
    <3>1. f[s] \in Nat /\ g[s] \in Nat /\ h[s] \in Nat
      BY <1>1
    <3>2. CASE s = t
      BY <1>2, <1>3, <3>1, <3>2
    <3>3. CASE s < t
      BY <1>2, <1>3, <3>1, <3>3
    <3> QED
      BY <1>4, <3>2, <3>3
  <2>2. \A u \in 1 .. SyncLimit : u < s => h[u] = f[u]
    BY <1>2, <1>3, <1>4
  <2> QED
    BY <2>1, <2>2 DEF Later
<1>5. CASE t < s
  <2>1. h[t] < f[t]
    BY <1>1, <1>2, <1>3, <1>5
  <2>2. \A u \in 1 .. SyncLimit : u < t => h[u] = f[u]
    BY <1>2, <1>3, <1>5
  <2> QED
    BY <2>1, <2>2 DEF Later
<1> QED
  BY <1>4, <1>5

LEMMA NeverLater == ASSUME NEW n \in Nat, NEW f \in Mono(SyncLimit, n) PROVE ~Later(f, f)
BY DEF Later, Mono

LEMMA LimitInit == Limit!Init => LimitInv
<1> SUFFICES ASSUME Limit!Init PROVE LimitInv
  OBVIOUS
<1>1. LimitTypes
  BY LimitConstants DEF Limit!Init, Limit!Missing, LimitTypes, R
<1>2. limitAccepted = 0
  BY DEF Limit!Init
<1>3. Before(Counts(limitKey.value, limitRead, limitAt))
  BY <1>2, FS_EmptySet DEF Before
<1> QED
  BY <1>1, <1>3 DEF LimitInv

(* An acceptance leaves fewer behind the first count that it changes.      *)
LEMMA AcceptIsLater ==
  ASSUME LimitTypes, LimitTypes', NEW r \in R, Limit!Accept(r)
  PROVE  Later(Counts(limitKey.value, limitRead, limitAt), Counts(limitKey'.value, limitRead', limitAt'))
<1> DEFINE k == limitKey.value  v == limitRead[r]
           B(u) == Behind(limitKey.value, limitRead, limitAt, u)
           C(u) == Behind(limitKey'.value, limitRead', limitAt', u)
           I == {q \in R : limitAt[q] = "idle" \/ limitRead[q] >= SyncLimit}
           s == IF I = {} \/ v <= k THEN v ELSE k
<1>1. /\ limitAt[r] = "decide" /\ v < SyncLimit /\ limitKey'.value = v + 1 /\ limitRead' = limitRead
      /\ limitAt' = [limitAt EXCEPT ![r] = "idle"]
  BY DEF Limit!Accept, Limit!Written
<1>2. k \in 0 .. SyncLimit /\ v \in 0 .. SyncLimit - 1 /\ limitAt \in [R -> {"idle", "decide"}] /\ limitRead \in [R -> 0 .. SyncLimit]
  BY <1>1, LimitConstants DEF LimitTypes
<1>3. s \in 0 .. SyncLimit - 1 /\ s <= v
  BY <1>2, LimitConstants
<1>4. \A q \in R : /\ Stands(limitKey.value, limitRead, limitAt, q) = IF q \in I THEN k ELSE limitRead[q]
                   /\ Stands(limitKey'.value, limitRead', limitAt', q) = IF q \in I \/ q = r THEN v + 1 ELSE limitRead[q]
  BY <1>1, <1>2, LimitConstants DEF Stands
<1>5. r \notin I
  BY <1>1, <1>2, LimitConstants
<1>6. \A q \in R : limitRead[q] \in Nat
  BY <1>2
<1> HIDE DEF I
<1>7. \A u \in 1 .. SyncLimit, q \in R : (q \in B(u) <=> (IF q \in I THEN k ELSE limitRead[q]) < u)
                            /\ (q \in C(u) <=> (IF q \in I \/ q = r THEN v + 1 ELSE limitRead[q]) < u)
  BY <1>4 DEF Behind
<1>8. \A u \in 1 .. SyncLimit : B(u) \in SUBSET R /\ C(u) \in SUBSET R
  BY DEF Behind
<1>9. s = IF I = {} \/ v <= k THEN v ELSE k
  BY DEF I
<1>n. I # {} => s <= k
  BY <1>2, <1>9
<1> HIDE DEF B, C, s, k
<1>10. \A u \in 1 .. SyncLimit : u < s + 1 => B(u) = C(u)
  <2>1. ASSUME NEW u \in 1 .. SyncLimit, u <= s, NEW q \in R PROVE q \in B(u) <=> q \in C(u)
    <3>1. CASE q \in I
      BY <1>2, <1>3, <1>7, <1>n, <2>1, <3>1
    <3>2. CASE q = r
      BY <1>2, <1>3, <1>5, <1>7, <2>1, <3>2
    <3>3. CASE q \notin I /\ q # r
      BY <1>7, <3>3
    <3> QED
      BY <3>1, <3>2, <3>3
  <2>2. ASSUME NEW u \in 1 .. SyncLimit, u < s + 1 PROVE B(u) = C(u)
    <3>1. u <= s
      BY <1>3, <2>2
    <3> QED
      BY <1>8, <2>1, <3>1
  <2> QED
    BY <2>2
<1>11. s + 1 \in 1 .. SyncLimit
  BY <1>3, LimitConstants
<1>12. C(s + 1) \subseteq B(s + 1) /\ C(s + 1) # B(s + 1)
  <2>1. ASSUME NEW q \in C(s + 1) PROVE q \in B(s + 1)
    <3>1. q \in R /\ (IF q \in I \/ q = r THEN v + 1 ELSE limitRead[q]) < s + 1
      BY <1>7, <1>8, <1>11, <2>1
    <3>2. q \notin I /\ q # r
      BY <1>2, <1>3, <3>1
    <3> QED
      BY <1>7, <1>11, <3>1, <3>2
  <2>2. CASE I # {} /\ ~(v <= k)
    <3>1. PICK q \in I : q \in R
      BY <2>2 DEF I
    <3>2. s = k
      BY <1>9, <2>2
    <3>3. q \in B(s + 1)
      BY <1>2, <1>7, <1>11, <3>1, <3>2
    <3>4. q \notin C(s + 1)
      BY <1>2, <1>3, <1>7, <1>11, <3>1
    <3> QED
      BY <2>1, <3>3, <3>4
  <2>3. CASE I = {} \/ v <= k
    <3>1. s = v
      BY <1>9, <2>3
    <3>2. r \in B(s + 1)
      BY <1>2, <1>5, <1>7, <1>11, <3>1
    <3>3. r \notin C(s + 1)
      BY <1>2, <1>3, <1>7, <1>11
    <3> QED
      BY <2>1, <3>2, <3>3
  <2> QED
    BY <2>2, <2>3
<1>13. Cardinality(C(s + 1)) < Cardinality(B(s + 1))
  <2>1. IsFiniteSet(B(s + 1))
    BY <1>8, <1>11, LimitConstants, FS_Subset
  <2>2. C(s + 1) \in SUBSET B(s + 1)
    BY <1>12
  <2>3. IsFiniteSet(C(s + 1)) /\ Cardinality(C(s + 1)) <= Cardinality(B(s + 1)) /\ Cardinality(C(s + 1)) # Cardinality(B(s + 1))
    BY <1>12, <2>1, <2>2, FS_Subset
  <2>4. Cardinality(C(s + 1)) \in Nat /\ Cardinality(B(s + 1)) \in Nat
    BY <2>1, <2>3, FS_CardinalityType
  <2> QED
    BY <2>3, <2>4
<1>14. /\ Counts(limitKey.value, limitRead, limitAt) = [u \in 1 .. SyncLimit |-> Cardinality(B(u))]
       /\ Counts(limitKey'.value, limitRead', limitAt') = [u \in 1 .. SyncLimit |-> Cardinality(C(u))]
  BY DEF Counts, B, C
<1>15. \A u \in 1 .. SyncLimit : u < s + 1 => Cardinality(C(u)) = Cardinality(B(u))
  BY <1>10
<1> QED
  BY <1>11, <1>13, <1>14, <1>15 DEF Later

LEMMA LimitStep == ASSUME LimitInv, [Limit!Next]_limitVars PROVE LimitInv'
<1> DEFINE f == Counts(limitKey.value, limitRead, limitAt)
           n == Cardinality(R)
<1>t. LimitTypes /\ Before(f)
  BY DEF LimitInv
<1>1. CASE UNCHANGED limitVars
  BY <1>1, <1>t DEF limitVars, LimitInv, LimitTypes, Before, Counts, Behind, Stands
<1>2. CASE Limit!HourPasses
  <2>1. LimitTypes' /\ limitAccepted' = 0
    BY <1>2, <1>t, LimitConstants DEF Limit!HourPasses, Limit!Missing, LimitTypes
  <2>2. Before(f)'
    BY <2>1, FS_EmptySet DEF Before
  <2> QED
    BY <2>1, <2>2 DEF LimitInv
<1>3. ASSUME NEW r \in R, Limit!Ask(r) \/ Limit!Refuse(r) PROVE LimitInv'
  <2>1. LimitTypes' /\ UNCHANGED <<limitKey, limitAccepted>>
    BY <1>3, <1>t DEF Limit!Ask, Limit!Refuse, LimitTypes
  <2>2. ASSUME NEW q \in R
        PROVE  Stands(limitKey.value, limitRead', limitAt', q) = Stands(limitKey.value, limitRead, limitAt, q)
    <3>1. limitKey.value \in 0 .. SyncLimit /\ limitRead[q] \in 0 .. SyncLimit
      BY <1>t DEF LimitTypes
    <3>2. CASE q # r
      BY <1>3, <1>t, <3>2 DEF Limit!Ask, Limit!Refuse, LimitTypes, Stands
    <3>3. CASE q = r /\ Limit!Ask(r)
      <4>1. limitAt[r] = "idle" /\ limitRead'[r] = limitKey.value
        BY <1>t, <3>3 DEF Limit!Ask, LimitTypes
      <4> QED
        BY <3>1, <3>3, <4>1 DEF Stands
    <3>4. CASE q = r /\ Limit!Refuse(r)
      <4>1. limitRead[r] >= SyncLimit /\ limitRead' = limitRead
        BY <3>4 DEF Limit!Refuse
      <4> QED
        BY <3>4, <4>1 DEF Stands
    <3> QED
      BY <1>3, <3>2, <3>3, <3>4
  <2>3. \A u : Behind(limitKey.value, limitRead', limitAt', u) = Behind(limitKey.value, limitRead, limitAt, u)
    BY <2>2 DEF Behind
  <2>4. f' = f
    BY <2>1, <2>3 DEF Counts
  <2> QED
    BY <1>t, <2>1, <2>4 DEF LimitInv, Before
<1>4. ASSUME NEW r \in R, Limit!Accept(r) PROVE LimitInv'
  <2>1. LimitTypes' /\ limitAccepted' = limitAccepted + 1 /\ limitAccepted \in Nat
    <3>1. limitRead[r] + 1 \in 0 .. SyncLimit
      BY <1>4, <1>t, LimitConstants DEF Limit!Accept, LimitTypes
    <3> QED
      BY <1>4, <1>t, <3>1, LimitConstants DEF Limit!Accept, Limit!Written, LimitTypes
  <2>2. Later(f, f')
    BY <1>4, <1>t, <2>1, AcceptIsLater
  <2>3. f \in Mono(SyncLimit, n) /\ f' \in Mono(SyncLimit, n)
    BY <1>t, <2>1, CountsAreMono DEF LimitTypes
  <2>4. PICK H \in SUBSET Mono(SyncLimit, n) : Cardinality(H) = limitAccepted /\ \A h \in H : Later(h, f)
    BY <1>t DEF Before
  <2> HIDE DEF f
  <2>5. f \notin H
    BY <2>3, <2>4, NeverLater, LimitConstants
  <2>6. IsFiniteSet(H)
    BY <2>4, ChooseCounts, LimitConstants, FS_Subset
  <2>7. Cardinality(H \cup {f}) = limitAccepted + 1
    BY <2>4, <2>5, <2>6, FS_AddElement
  <2>8. \A h \in H \cup {f} : Later(h, f')
    BY <2>2, <2>3, <2>4, LaterStill, LimitConstants
  <2>9. Before(f)'
    BY <2>1, <2>3, <2>7, <2>8 DEF Before
  <2> QED
    BY <2>1, <2>9 DEF LimitInv, f
<1> QED
  BY <1>1, <1>2, <1>3, <1>4 DEF Limit!Next, Limit!Request, R

LEMMA LimitHolds == ASSUME LimitInv PROVE Limit!TypeOK /\ Limit!AcceptedBounded
<1> DEFINE f == Counts(limitKey.value, limitRead, limitAt)
           n == Cardinality(R)
<1>1. LimitTypes /\ Before(f)
  BY DEF LimitInv
<1>2. Limit!TypeOK
  BY <1>1 DEF LimitTypes, Limit!TypeOK, R
<1>3. f \in Mono(SyncLimit, n)
  BY <1>1, CountsAreMono DEF LimitTypes
<1>4. PICK H \in SUBSET Mono(SyncLimit, n) : Cardinality(H) = limitAccepted /\ \A h \in H : Later(h, f)
  BY <1>1 DEF Before
<1> HIDE DEF f
<1>5. f \notin H
  BY <1>3, <1>4, NeverLater, LimitConstants
<1>6. IsFiniteSet(Mono(SyncLimit, n)) /\ Limit!choose(SyncLimit + n, n) = Cardinality(Mono(SyncLimit, n))
  BY ChooseCounts, LimitConstants
<1>7. IsFiniteSet(H) /\ Cardinality(H \cup {f}) = limitAccepted + 1
  BY <1>4, <1>5, <1>6, FS_AddElement, FS_Subset
<1>8. limitAccepted + 1 <= Cardinality(Mono(SyncLimit, n))
  <2>1. H \cup {f} \in SUBSET Mono(SyncLimit, n)
    BY <1>3
  <2> QED
    BY <1>6, <1>7, <2>1, FS_Subset
<1>9. limitAccepted < Limit!choose(SyncLimit + n, n)
  <2>1. limitAccepted \in Nat /\ Cardinality(Mono(SyncLimit, n)) \in Nat
    BY <1>1, <1>6, FS_CardinalityType DEF LimitTypes
  <2> QED
    BY <1>6, <1>8, <2>1
<1>10. Limit!Cardinality(SyncRequests) = n
  BY DEF Limit!Cardinality, Cardinality, R
<1> QED
  BY <1>2, <1>9, <1>10 DEF Limit!AcceptedBounded

-----------------------------------------------------------------------------
(* A booking's events at Google.  What the jobs, the handler and the two   *)
(* sets look like, with one calendar or several.                           *)
Calendars(two) == IF two THEN MovedCalendars ELSE {1}
TimesOf(two)   == IF two THEN MovedTimes ELSE PushTimes
JobsOf(two)    == IF two THEN MaxMovedJobs ELSE MaxPushJobs
IdsOf(two, f)  == 1 .. JobsOf(two) + f + 1
Kinds          == {"CONFIRMED", "RESCHEDULED", "CANCELLED"}
JobSet(two)    == [kind: Kinds, time: TimesOf(two)]
Places         == {"idle", "connection", "find", "insert", "record", "link", "patch", "update", "delete", "forget"}
EventSet(two, f) == [id: IdsOf(two, f), conn: Calendars(two), time: TimesOf(two)]
RowSet(two, f) == [id: IdsOf(two, f), conn: Calendars(two), time: TimesOf(two), linked: BOOLEAN]

PushTypes(two, f) ==
  /\ pushActive \subseteq Calendars(two)
  /\ pushBooking \in [status: {"PENDING", "CONFIRMED", "CANCELLED"}, time: TimesOf(two)]
  /\ pushJobs \in Seq(JobSet(two))
  /\ pushHand \in [at: Places, conn: Calendars(two) \cup {0}, id: IdsOf(two, f) \cup {0}]
  /\ pushGoogle \subseteq EventSet(two, f)
  /\ pushRows \subseteq RowSet(two, f)
  /\ pushNext \in IdsOf(two, f) /\ pushFaults \in 0 .. f
  /\ pushHand.at # "idle" => pushJobs # <<>>
  /\ pushHand.at \in {"record", "link", "patch", "update", "delete", "forget"} => pushHand.id # 0
  /\ pushHand.at \notin {"idle", "connection"} => pushHand.conn # 0

LEMMA PushConstants ==
  ASSUME NEW two \in BOOLEAN
  PROVE  /\ IsFiniteSet(Calendars(two)) /\ Calendars(two) \subseteq Nat \ {0}
         /\ TimesOf(two) \subseteq Nat /\ 0 \in TimesOf(two)
         /\ JobsOf(two) \in Nat /\ MaxPushFaults \in Nat
<1>1. Push(two, MaxPushFaults)!CalendarPushAssumption
  BY ScheduleAssumption
<1>2. \A S : Push(two, MaxPushFaults)!IsFiniteSet(S) <=> IsFiniteSet(S)
  BY DEF Push!IsFiniteSet, IsFiniteSet
<1> QED
  BY <1>1, <1>2 DEF Push!CalendarPushAssumption, Calendars, TimesOf, JobsOf

LEMMA IdsAreNumbers == ASSUME NEW two \in BOOLEAN, NEW f \in Nat PROVE IdsOf(two, f) \cup {0} \subseteq Nat
BY PushConstants DEF IdsOf

LEMMA PushFinite ==
  ASSUME NEW two, NEW f, NEW S
  PROVE  Push(two, f)!Cardinality(S) = Cardinality(S)
BY DEF Push!Cardinality, Cardinality

LEMMA PushTypeOK ==
  ASSUME NEW two \in BOOLEAN, NEW f \in Nat, PushTypes(two, f) PROVE Push(two, f)!TypeOK
<1>1. \A n \in DOMAIN pushJobs : pushJobs[n] \in JobSet(two)
  BY LenProperties, ElementOfSeq DEF PushTypes
<1> QED
  BY <1>1 DEF PushTypes, Push!TypeOK, Push!Ids, Push!Points, Places, Calendars, TimesOf, JobsOf, IdsOf, JobSet, Kinds, EventSet, RowSet

LEMMA PushInit ==
  ASSUME NEW two \in BOOLEAN, NEW f \in Nat, NEW e \in Nat, Push(two, e)!Init
  PROVE  PushTypes(two, f) /\ pushHand.at = "idle" /\ pushGoogle = {} /\ pushRows = {}
<1>1. <<>> \in Seq(JobSet(two))
  BY EmptySeq
<1> QED
  BY <1>1, PushConstants DEF PushTypes, Push!Init, Push!Idle, Places, Calendars, TimesOf, JobsOf, IdsOf

(* The jobs that one change of the booking adds, and the job that is done. *)
LEMMA JobsGrow ==
  ASSUME NEW two \in BOOLEAN, NEW f \in Nat, PushTypes(two, f), NEW kind \in Kinds, NEW time \in TimesOf(two),
         Push(two, f)!Push(kind, time)
  PROVE  /\ pushJobs' \in Seq(JobSet(two)) /\ Len(pushJobs) \in Nat
         /\ pushJobs # <<>> => pushJobs' # <<>> /\ pushJobs'[1] = pushJobs[1]
         /\ pushActive = {1} => /\ Len(pushJobs') = Len(pushJobs) + 1
                                /\ \A k \in 1 .. Len(pushJobs) : pushJobs'[k] = pushJobs[k]
                                /\ pushJobs'[Len(pushJobs) + 1] = [kind |-> kind, time |-> time]
<1> DEFINE n == Len(pushJobs)  m == Cardinality(pushActive)  j == [kind |-> kind, time |-> time]
<1>1. n \in Nat /\ (n = 0 <=> pushJobs = <<>>) /\ \A k \in 1 .. n : pushJobs[k] \in JobSet(two)
  BY LenProperties, EmptySeq, ElementOfSeq DEF PushTypes
<1>2. m \in Nat
  BY PushConstants, FS_Subset, FS_CardinalityType DEF PushTypes
<1>3. pushJobs' = [k \in 1 .. n + m |-> IF k <= n THEN pushJobs[k] ELSE j]
  BY PushFinite DEF Push!Push
<1>4. j \in JobSet(two)
  BY DEF JobSet
<1>5. pushActive = {1} => m = 1
  BY FS_Singleton
<1> HIDE DEF n, m, j
<1>6. n + m \in Nat /\ \A k \in 1 .. n + m : (IF k <= n THEN pushJobs[k] ELSE j) \in JobSet(two)
  BY <1>1, <1>2, <1>4
<1>7. pushJobs' \in Seq(JobSet(two)) /\ Len(pushJobs') = n + m
  <2>1. pushJobs' \in [1 .. n + m -> JobSet(two)]
    BY <1>3, <1>6
  <2>2. pushJobs' \in Seq(JobSet(two))
    BY <1>6, <2>1, SeqDef
  <2>3. DOMAIN pushJobs' = 1 .. n + m /\ DOMAIN pushJobs' = 1 .. Len(pushJobs') /\ Len(pushJobs') \in Nat
    BY <2>1, <2>2, LenProperties
  <2> QED
    BY <1>6, <2>2, <2>3
<1>8. pushJobs # <<>> => pushJobs' # <<>> /\ pushJobs'[1] = pushJobs[1]
  <2> SUFFICES ASSUME pushJobs # <<>> PROVE pushJobs' # <<>> /\ pushJobs'[1] = pushJobs[1]
    OBVIOUS
  <2>1. n # 0 /\ n + m # 0
    BY <1>1, <1>2
  <2>2. pushJobs' # <<>>
    BY <1>7, <2>1, EmptySeq
  <2> QED
    BY <1>1, <1>2, <1>3, <2>1, <2>2
<1>9. pushActive = {1} => /\ Len(pushJobs') = n + 1
                          /\ \A k \in 1 .. n : pushJobs'[k] = pushJobs[k]
                          /\ pushJobs'[n + 1] = j
  BY <1>1, <1>3, <1>5, <1>7
<1> QED
  BY <1>1, <1>7, <1>8, <1>9 DEF n, j

LEMMA JobDone ==
  ASSUME NEW two \in BOOLEAN, NEW f \in Nat, PushTypes(two, f), pushJobs # <<>>, Push(two, f)!Done
  PROVE  /\ pushJobs' \in Seq(JobSet(two)) /\ Len(pushJobs) \in Nat \ {0} /\ Len(pushJobs') = Len(pushJobs) - 1
         /\ \A k \in 1 .. Len(pushJobs) - 1 : pushJobs'[k] = pushJobs[k + 1]
         /\ pushHand' = [at |-> "idle", conn |-> 0, id |-> 0]
<1>1. Len(pushJobs) \in Nat \ {0} /\ \A k \in 1 .. Len(pushJobs) : pushJobs[k] \in JobSet(two)
  BY EmptySeq, ElementOfSeq DEF PushTypes
<1>2. pushJobs' = SubSeq(pushJobs, 2, Len(pushJobs))
  BY DEF Push!Done
<1>3. \A i \in 2 .. Len(pushJobs) : pushJobs[i] \in JobSet(two)
  BY <1>1
<1>4. /\ SubSeq(pushJobs, 2, Len(pushJobs)) \in Seq(JobSet(two))
      /\ Len(SubSeq(pushJobs, 2, Len(pushJobs))) = IF 2 <= Len(pushJobs) THEN Len(pushJobs) - 2 + 1 ELSE 0
      /\ \A i \in 1 .. Len(pushJobs) - 2 + 1 : SubSeq(pushJobs, 2, Len(pushJobs))[i] = pushJobs[2 + i - 1]
  <2>1. Len(pushJobs) \in Int /\ 2 \in Int
    BY <1>1
  <2> QED
    BY <1>3, <2>1, SubSeqProperties
<1>5. \A k \in 1 .. Len(pushJobs) - 1 : k \in 1 .. Len(pushJobs) - 2 + 1 /\ 2 + k - 1 = k + 1
  BY <1>1
<1>6. Len(pushJobs') = Len(pushJobs) - 1
  <2>1. \A n \in Nat \ {0} : (IF 2 <= n THEN n - 2 + 1 ELSE 0) = n - 1
    OBVIOUS
  <2>2. Len(pushJobs') = IF 2 <= Len(pushJobs) THEN Len(pushJobs) - 2 + 1 ELSE 0
    BY <1>2, <1>4
  <2> QED
    BY <1>1, <2>1, <2>2
<1>7. pushHand' = [at |-> "idle", conn |-> 0, id |-> 0]
  BY DEF Push!Done, Push!Idle
<1>8. pushJobs' \in Seq(JobSet(two)) /\ \A k \in 1 .. Len(pushJobs) - 1 : pushJobs'[k] = pushJobs[k + 1]
  BY <1>2, <1>4, <1>5
<1> QED
  BY <1>1, <1>6, <1>7, <1>8

LEMMA PrimaryIsActive ==
  ASSUME NEW two \in BOOLEAN, NEW f \in Nat, PushTypes(two, f), pushActive # {} PROVE Push(two, f)!Primary \in pushActive
<1>1. pushActive \subseteq Nat
  BY PushConstants DEF PushTypes
<1>2. PICK x \in pushActive : \A y \in Nat : y \in pushActive => x <= y
  <2>1. PICK x \in pushActive : \A y \in pushActive : <<y, x>> \notin OpToRel(<, Nat)
    BY <1>1, WFMin, NatLessThanWellFounded, Zenon
  <2>2. ASSUME NEW y \in pushActive PROVE ~(y < x)
    BY <1>1, <2>1, Zenon DEF OpToRel
  <2> QED
    BY <1>1, <2>2
<1>3. \E c \in pushActive : \A d \in pushActive : c <= d
  BY <1>1, <1>2
<1> QED
  BY <1>3 DEF Push!Primary

LEMMA JobIsTyped ==
  ASSUME NEW two \in BOOLEAN, NEW f \in Nat, PushTypes(two, f), pushJobs # <<>>
  PROVE  pushJobs[1] \in JobSet(two) /\ pushJobs[1].kind \in Kinds /\ pushJobs[1].time \in TimesOf(two)
<1>1. pushJobs[1] \in JobSet(two)
  <2>1. Len(pushJobs) \in Nat \ {0}
    BY EmptySeq DEF PushTypes
  <2> QED
    BY <2>1, ElementOfSeq DEF PushTypes
<1> QED
  BY <1>1 DEF JobSet

LEMMA PushTypeStep ==
  ASSUME NEW two \in BOOLEAN, NEW f \in Nat, PushTypes(two, f), [Push(two, f)!Next]_pushVars PROVE PushTypes(two, f)'
<1> DEFINE C == Calendars(two)  I == IdsOf(two, f)
<1> USE DEF PushTypes
<1>1. CASE UNCHANGED pushVars
  BY <1>1 DEF pushVars
<1>2. CASE Push(two, f)!Confirm
  <2>1. "CONFIRMED" \in Kinds /\ pushBooking.time \in TimesOf(two) /\ Push(two, f)!Push("CONFIRMED", pushBooking.time)
    BY <1>2 DEF Push!Confirm, Kinds
  <2>2. pushJobs' \in Seq(JobSet(two)) /\ (pushJobs # <<>> => pushJobs' # <<>>)
    BY <2>1, JobsGrow
  <2> QED
    BY <1>2, <2>2 DEF Push!Confirm
<1>3. CASE Push(two, f)!Reschedule
  <2>1. PICK t \in TimesOf(two) : pushBooking' = [pushBooking EXCEPT !.time = t] /\ Push(two, f)!Push("RESCHEDULED", t)
    BY <1>3 DEF Push!Reschedule, TimesOf
  <2>2. pushJobs' \in Seq(JobSet(two)) /\ (pushJobs # <<>> => pushJobs' # <<>>)
    BY <2>1, JobsGrow DEF Kinds
  <2> QED
    BY <1>3, <2>1, <2>2 DEF Push!Reschedule
<1>4. CASE Push(two, f)!Cancel
  <2>1. "CANCELLED" \in Kinds /\ pushBooking.time \in TimesOf(two) /\ Push(two, f)!Push("CANCELLED", pushBooking.time)
    BY <1>4 DEF Push!Cancel, Kinds
  <2>2. pushJobs' \in Seq(JobSet(two)) /\ (pushJobs # <<>> => pushJobs' # <<>>)
    BY <2>1, JobsGrow
  <2> QED
    BY <1>4, <2>2 DEF Push!Cancel
<1>5. CASE Push(two, f)!ClientCancels
  BY <1>5 DEF Push!ClientCancels
<1>6. CASE Push(two, f)!ClientMoves
  BY <1>6 DEF Push!ClientMoves, TimesOf
<1>7. ASSUME NEW c, Push(two, f)!Disconnect(c) PROVE PushTypes(two, f)'
  BY <1>7 DEF Push!Disconnect
<1>8. CASE Push(two, f)!Take
  BY <1>8 DEF Push!Take, Push!Goto, Places
<1>9. CASE Push(two, f)!Connection
  <2>1. CASE pushActive = {}
    <3>1. Push(two, f)!Done /\ UNCHANGED <<pushActive, pushBooking, pushGoogle, pushRows, pushNext, pushFaults>> /\ pushJobs # <<>>
      BY <1>9, <2>1 DEF Push!Connection
    <3> QED
      BY <3>1, JobDone DEF Places
  <2>2. CASE pushActive # {}
    <3>1. Push(two, f)!Primary \in C /\ 0 \notin C
      BY <2>2, PrimaryIsActive, PushConstants
    <3>2. pushHand.id \in I \cup {0} /\ pushHand.at = "connection" /\ pushJobs # <<>> /\ UNCHANGED pushJobs
      BY <1>9, <2>2 DEF Push!Connection
    <3>3. PICK p \in {"insert", "find"} : pushHand' = [at |-> p, conn |-> Push(two, f)!Primary, id |-> pushHand.id]
      BY <1>9, <2>2 DEF Push!Connection
    <3> QED
      BY <1>9, <3>1, <3>2, <3>3 DEF Push!Connection, Places
  <2> QED
    BY <2>1, <2>2
<1>10. CASE Push(two, f)!Find
  <2>1. pushJobs # <<>> /\ UNCHANGED <<pushActive, pushBooking, pushGoogle, pushRows, pushNext, pushFaults>>
    BY <1>10 DEF Push!Find
  <2>2. CASE Push(two, f)!Done
    BY <2>1, <2>2, JobDone DEF Places
  <2>3. CASE Push(two, f)!Goto("insert") /\ UNCHANGED pushJobs
    BY <1>10, <2>1, <2>3 DEF Push!Goto, Push!Find, Places
  <2>4. ASSUME NEW r \in pushRows, NEW p \in {"delete", "patch"},
               pushHand' = [pushHand EXCEPT !.id = r.id, !.at = p], UNCHANGED pushJobs
        PROVE  PushTypes(two, f)'
    <3>1. r.id \in I /\ 0 \notin I
      BY DEF RowSet, IdsOf
    <3> HIDE DEF I
    <3> QED
      BY <1>10, <2>1, <2>4, <3>1 DEF Places, Push!Find, I
  <2> QED
    BY <1>10, <2>2, <2>3, <2>4 DEF Push!Find, Push!Linked
<1>11. CASE Push(two, f)!Insert
  <2>1. pushJobs # <<>> /\ pushHand.conn \in C /\ pushHand.conn # 0
    BY <1>11 DEF Push!Insert
  <2>2. [id |-> pushNext, conn |-> pushHand.conn, time |-> pushJobs[1].time] \in EventSet(two, f)
    BY <2>1, JobIsTyped DEF EventSet
  <2>3. pushGoogle' \subseteq EventSet(two, f)
    BY <1>11, <2>2 DEF Push!Insert, Push!Job
  <2>4. pushNext' \in I /\ 0 \notin I
    BY <1>11, PushConstants DEF Push!Insert, IdsOf, JobsOf
  <2>5. pushHand' = [at |-> "record", conn |-> pushHand.conn, id |-> pushNext]
    BY <1>11 DEF Push!Insert
  <2> QED
    BY <1>11, <2>1, <2>3, <2>4, <2>5 DEF Push!Insert, Places
<1>12. CASE Push(two, f)!Record
  <2>1. pushJobs # <<>> /\ pushHand.conn \in C /\ pushHand.id \in I /\ pushHand.at = "record"
    BY <1>12, PushConstants DEF Push!Record
  <2>2. [id |-> pushHand.id, conn |-> pushHand.conn, time |-> pushJobs[1].time, linked |-> FALSE] \in RowSet(two, f)
    BY <2>1, JobIsTyped DEF RowSet
  <2>3. pushRows' \subseteq RowSet(two, f)
    BY <1>12, <2>2 DEF Push!Record, Push!Row, Push!Job
  <2> QED
    BY <1>12, <2>1, <2>3 DEF Push!Record, Push!Goto, Places
<1>13. CASE Push(two, f)!Link
  <2>1. pushRows' \subseteq RowSet(two, f)
    BY <1>13 DEF Push!Link, RowSet
  <2>2. Push(two, f)!Done /\ pushJobs # <<>>
    BY <1>13 DEF Push!Link
  <2> QED
    BY <1>13, <2>1, <2>2, JobDone DEF Push!Link, Places
<1>14. CASE Push(two, f)!Patch
  <2>1. pushJobs # <<>>
    BY <1>14 DEF Push!Patch
  <2>2. pushGoogle' \subseteq EventSet(two, f)
    BY <1>14, <2>1, JobIsTyped DEF Push!Patch, Push!Job, EventSet
  <2> QED
    BY <1>14, <2>1, <2>2 DEF Push!Patch, Push!Goto, Places
<1>15. CASE Push(two, f)!Update
  <2>1. Push(two, f)!Done /\ pushJobs # <<>>
    BY <1>15 DEF Push!Update
  <2>2. pushRows' \subseteq RowSet(two, f)
    BY <1>15, <2>1, JobIsTyped DEF Push!Update, Push!Job, RowSet
  <2> QED
    BY <1>15, <2>1, <2>2, JobDone DEF Push!Update, Places
<1>16. CASE Push(two, f)!Delete
  BY <1>16 DEF Push!Delete, Push!Goto, Places
<1>17. CASE Push(two, f)!Forget
  <2>1. Push(two, f)!Done /\ pushJobs # <<>>
    BY <1>17 DEF Push!Forget
  <2> QED
    BY <1>17, <2>1, JobDone DEF Push!Forget, Places
<1>18. CASE Push(two, f)!Fault
  BY <1>18 DEF Push!Fault, Push!Idle, Places
<1>19. CASE Push(two, f)!ConnectionGone
  BY <1>19 DEF Push!ConnectionGone, Push!Idle, Places
<1> QED
  BY <1>1, <1>2, <1>3, <1>4, <1>5, <1>6, <1>7, <1>8, <1>9, <1>10, <1>11, <1>12, <1>13, <1>14, <1>15, <1>16, <1>17, <1>18, <1>19
     DEF Push!Next, Push!Handler

(* With one calendar.  The jobs of a booking: a confirmation comes first,  *)
(* a cancellation last, and the last job has the booking's time.           *)
Final == pushJobs[Len(pushJobs)]

PushQueue ==
  /\ pushActive = {1}
  /\ pushBooking.status = "PENDING" => pushJobs = <<>>
  /\ \A k \in 1 .. Len(pushJobs) :
       /\ pushJobs[k].kind = "CONFIRMED" => k = 1
       /\ pushJobs[k].kind = "CANCELLED" => k = Len(pushJobs) /\ pushBooking.status = "CANCELLED"
  /\ pushJobs # <<>> =>
       /\ pushBooking.status = "CONFIRMED" => Final.time = pushBooking.time
       /\ pushBooking.status = "CANCELLED" => Final.kind = "CANCELLED"

(* What the handler does suits the kind of its job.                        *)
PushPlace ==
  /\ pushHand.at = "find" => pushJobs[1].kind # "CONFIRMED"
  /\ pushHand.at \in {"insert", "record", "link"} => pushJobs[1].kind # "CANCELLED"
  /\ pushHand.at \in {"patch", "update"} => pushJobs[1].kind = "RESCHEDULED"
  /\ pushHand.at \in {"delete", "forget"} => pushJobs[1].kind = "CANCELLED"

LEMMA QueueGrows ==
  ASSUME NEW f \in Nat, PushTypes(FALSE, f), PushQueue, pushActive' = pushActive,
         NEW kind \in Kinds, NEW time \in TimesOf(FALSE), Push(FALSE, f)!Push(kind, time),
         pushBooking.status # "CANCELLED", pushBooking'.status \in {"CONFIRMED", "CANCELLED"},
         kind = "CONFIRMED" => pushJobs = <<>>,
         kind = "CANCELLED" <=> pushBooking'.status = "CANCELLED",
         pushBooking'.status = "CONFIRMED" => pushBooking'.time = time
  PROVE  PushQueue'
<1> DEFINE n == Len(pushJobs)
<1>1. /\ n \in Nat /\ Len(pushJobs') = n + 1
      /\ \A k \in 1 .. n : pushJobs'[k] = pushJobs[k]
      /\ pushJobs'[n + 1] = [kind |-> kind, time |-> time]
  BY JobsGrow DEF PushQueue
<1>2. n = 0 <=> pushJobs = <<>>
  BY EmptySeq DEF PushTypes
<1>3. \A k \in 1 .. n : (pushJobs[k].kind = "CONFIRMED" => k = 1) /\ pushJobs[k].kind # "CANCELLED"
  BY DEF PushQueue
<1> HIDE DEF n
<1>4. ASSUME NEW k \in 1 .. n + 1
      PROVE  /\ pushJobs'[k].kind = "CONFIRMED" => k = 1
             /\ pushJobs'[k].kind = "CANCELLED" => k = n + 1 /\ pushBooking'.status = "CANCELLED"
  <2>1. CASE k = n + 1
    <3>1. pushJobs'[k].kind = kind
      BY <1>1, <2>1
    <3>2. kind = "CONFIRMED" => n = 0
      BY <1>2
    <3> QED
      BY <1>1, <2>1, <3>1, <3>2
  <2>2. CASE k \in 1 .. n
    BY <1>1, <1>3, <2>2
  <2> QED
    BY <1>1, <2>1, <2>2
<1>5. Final' = [kind |-> kind, time |-> time]
  BY <1>1 DEF Final
<1>6. pushActive' = {1} /\ pushBooking'.status # "PENDING"
  BY DEF PushQueue
<1> QED
  BY <1>1, <1>4, <1>5, <1>6 DEF PushQueue

LEMMA QueueShrinks ==
  ASSUME NEW f \in Nat, PushTypes(FALSE, f), PushQueue, UNCHANGED <<pushActive, pushBooking>>, pushJobs # <<>>, Push(FALSE, f)!Done
  PROVE  /\ PushQueue'
         /\ pushJobs' # <<>> => pushJobs'[1].kind # "CONFIRMED" /\ pushJobs[1].kind # "CANCELLED"
         /\ pushJobs' = <<>> => pushJobs[1] = Final
<1> DEFINE n == Len(pushJobs)
<1>1. /\ pushJobs' \in Seq(JobSet(FALSE)) /\ n \in Nat \ {0} /\ Len(pushJobs') = n - 1
      /\ \A k \in 1 .. n - 1 : pushJobs'[k] = pushJobs[k + 1]
  BY JobDone
<1>2. n - 1 = 0 <=> pushJobs' = <<>>
  BY <1>1, EmptySeq
<1>3. \A k \in 1 .. n : (pushJobs[k].kind = "CONFIRMED" => k = 1)
                        /\ (pushJobs[k].kind = "CANCELLED" => k = n /\ pushBooking.status = "CANCELLED")
  BY DEF PushQueue
<1>4. pushJobs' # <<>> => Final' = Final
  <2> HIDE DEF n
  <2> SUFFICES ASSUME pushJobs' # <<>> PROVE pushJobs'[n - 1] = pushJobs[n]
    BY <1>1 DEF Final, n
  <2>1. n - 1 \in 1 .. n - 1 /\ n - 1 + 1 = n
    BY <1>1, <1>2
  <2> QED
    BY <1>1, <2>1
<1>5. pushJobs' = <<>> => pushJobs[1] = Final
  <2>1. pushJobs' = <<>> => Len(pushJobs) = 1
    <3> HIDE DEF n
    <3> QED
      BY <1>1, <1>2 DEF n
  <2> QED
    BY <2>1 DEF Final
<1>6. pushJobs # <<>> => /\ pushBooking.status = "CONFIRMED" => Final.time = pushBooking.time
                         /\ pushBooking.status = "CANCELLED" => Final.kind = "CANCELLED"
  BY DEF PushQueue
<1>7. pushActive' = {1} /\ pushBooking'.status # "PENDING"
  BY DEF PushQueue
<1> HIDE DEF n
<1>8. ASSUME NEW k \in 1 .. n - 1
      PROVE  /\ pushJobs'[k].kind # "CONFIRMED"
             /\ pushJobs'[k].kind = "CANCELLED" => k = n - 1 /\ pushBooking'.status = "CANCELLED"
  <2>1. k + 1 \in 1 .. n /\ k + 1 # 1 /\ pushJobs'[k] = pushJobs[k + 1]
    BY <1>1
  <2>2. pushJobs[k + 1].kind # "CONFIRMED"
    BY <1>3, <2>1
  <2>3. pushJobs[k + 1].kind = "CANCELLED" => k + 1 = n /\ pushBooking.status = "CANCELLED"
    BY <1>3, <2>1
  <2> QED
    BY <1>1, <2>1, <2>2, <2>3
<1>9. pushJobs' # <<>> => pushJobs'[1].kind # "CONFIRMED" /\ pushJobs[1].kind # "CANCELLED"
  <2> SUFFICES ASSUME pushJobs' # <<>> PROVE pushJobs'[1].kind # "CONFIRMED" /\ pushJobs[1].kind # "CANCELLED"
    OBVIOUS
  <2>1. 1 \in 1 .. n - 1 /\ 1 \in 1 .. n /\ 1 # n
    BY <1>1, <1>2
  <2> QED
    BY <1>3, <1>8, <2>1
<1>10. PushQueue'
  <2>1. \A k \in 1 .. Len(pushJobs') :
          /\ pushJobs'[k].kind = "CONFIRMED" => k = 1
          /\ pushJobs'[k].kind = "CANCELLED" => k = Len(pushJobs') /\ pushBooking'.status = "CANCELLED"
    BY <1>1, <1>8
  <2> QED
    BY <1>4, <1>6, <1>7, <2>1 DEF PushQueue
<1> QED
  BY <1>5, <1>9, <1>10

LEMMA QueueStep ==
  ASSUME NEW f \in Nat, PushTypes(FALSE, f), PushQueue, [Push(FALSE, f)!Next]_pushVars PROVE PushQueue'
<1>0. CASE UNCHANGED <<pushActive, pushBooking, pushJobs>>
  BY <1>0 DEF PushQueue, Final
<1>1. CASE Push(FALSE, f)!Confirm
  <2>1. /\ Push(FALSE, f)!Push("CONFIRMED", pushBooking.time) /\ pushActive' = pushActive
        /\ pushBooking.status = "PENDING" /\ pushBooking'.status = "CONFIRMED" /\ pushBooking'.time = pushBooking.time
        /\ pushBooking.time \in TimesOf(FALSE) /\ pushJobs = <<>>
    BY <1>1 DEF Push!Confirm, PushTypes, PushQueue
  <2> QED
    BY <2>1, QueueGrows DEF Kinds
<1>2. CASE Push(FALSE, f)!Reschedule
  <2>1. pushBooking.status = "CONFIRMED" /\ pushActive' = pushActive
    BY <1>2 DEF Push!Reschedule
  <2>2. PICK t \in TimesOf(FALSE) : pushBooking' = [pushBooking EXCEPT !.time = t] /\ Push(FALSE, f)!Push("RESCHEDULED", t)
    BY <1>2 DEF Push!Reschedule, TimesOf
  <2>3. pushBooking'.status = "CONFIRMED" /\ pushBooking'.time = t
    BY <2>1, <2>2 DEF PushTypes
  <2> QED
    BY <2>1, <2>2, <2>3, QueueGrows DEF Kinds
<1>3. CASE Push(FALSE, f)!Cancel
  <2>1. /\ Push(FALSE, f)!Push("CANCELLED", pushBooking.time) /\ pushActive' = pushActive
        /\ pushBooking.status # "CANCELLED" /\ pushBooking'.status = "CANCELLED" /\ pushBooking.time \in TimesOf(FALSE)
    BY <1>3 DEF Push!Cancel, PushTypes
  <2> QED
    BY <2>1, QueueGrows DEF Kinds
<1>4. CASE Push(FALSE, f)!Done /\ UNCHANGED <<pushActive, pushBooking>> /\ pushHand.at # "idle"
  <2>1. pushJobs # <<>>
    BY <1>4 DEF PushTypes
  <2> QED
    BY <1>4, <2>1, QueueShrinks
<1>5. ~Push(FALSE, f)!ClientCancels /\ ~Push(FALSE, f)!ClientMoves /\ \A c : ~Push(FALSE, f)!Disconnect(c)
  BY DEF Push!ClientCancels, Push!ClientMoves, Push!Disconnect
<1>6. CASE Push(FALSE, f)!Connection \/ Push(FALSE, f)!Find
  BY <1>0, <1>4, <1>6 DEF Push!Connection, Push!Find
<1>7. CASE Push(FALSE, f)!Link \/ Push(FALSE, f)!Update \/ Push(FALSE, f)!Forget
  BY <1>4, <1>7 DEF Push!Link, Push!Update, Push!Forget
<1>8. CASE Push(FALSE, f)!Take \/ Push(FALSE, f)!Insert \/ Push(FALSE, f)!Record \/ Push(FALSE, f)!Patch \/ Push(FALSE, f)!Delete
  BY <1>0, <1>8 DEF Push!Take, Push!Insert, Push!Record, Push!Patch, Push!Delete
<1>9. CASE Push(FALSE, f)!Fault \/ Push(FALSE, f)!ConnectionGone \/ UNCHANGED pushVars
  BY <1>0, <1>9 DEF Push!Fault, Push!ConnectionGone, pushVars
<1> QED
  BY <1>1, <1>2, <1>3, <1>5, <1>6, <1>7, <1>8, <1>9 DEF Push!Next, Push!Handler

LEMMA PlaceStep ==
  ASSUME NEW f \in Nat, PushTypes(FALSE, f), PushPlace, [Push(FALSE, f)!Next]_pushVars PROVE PushPlace'
<1>0. CASE UNCHANGED <<pushHand, pushJobs>>
  BY <1>0 DEF PushPlace
<1>1. CASE pushHand'.at \in {"idle", "connection"}
  BY <1>1 DEF PushPlace
<1>2. CASE UNCHANGED pushHand /\ (pushJobs # <<>> => pushJobs'[1] = pushJobs[1])
  BY <1>2 DEF PushPlace, PushTypes
<1>3. ASSUME NEW kind \in Kinds, NEW time \in TimesOf(FALSE), Push(FALSE, f)!Push(kind, time), UNCHANGED pushHand PROVE PushPlace'
  BY <1>2, <1>3, JobsGrow
<1>4. CASE Push(FALSE, f)!Confirm \/ Push(FALSE, f)!Reschedule \/ Push(FALSE, f)!Cancel
  <2>1. pushBooking.time \in TimesOf(FALSE)
    BY DEF PushTypes
  <2> QED
    BY <1>3, <1>4, <2>1 DEF Push!Confirm, Push!Reschedule, Push!Cancel, Kinds, TimesOf
<1>5. CASE Push(FALSE, f)!Done
  BY <1>1, <1>5 DEF Push!Done, Push!Idle
<1>6. CASE Push(FALSE, f)!Connection
  <2>1. CASE pushActive # {}
    <3>1. UNCHANGED pushJobs /\ pushHand'.at = IF pushJobs[1].kind = "CONFIRMED" THEN "insert" ELSE "find"
      BY <1>6, <2>1 DEF Push!Connection, Push!Job, PushTypes
    <3> QED
      BY <3>1 DEF PushPlace
  <2> QED
    BY <1>5, <1>6, <2>1 DEF Push!Connection
<1>7. CASE Push(FALSE, f)!Find
  <2>1. CASE UNCHANGED pushJobs /\ pushHand'.at = IF pushJobs[1].kind = "CANCELLED" THEN "delete" ELSE "patch"
    <3>1. pushJobs[1].kind \in Kinds /\ pushJobs[1].kind # "CONFIRMED"
      BY <1>7, JobIsTyped DEF Push!Find, PushTypes, PushPlace
    <3> QED
      BY <2>1, <3>1 DEF PushPlace, Kinds
  <2>2. CASE UNCHANGED pushJobs /\ pushHand'.at = "insert" /\ pushJobs[1].kind # "CANCELLED"
    BY <2>2 DEF PushPlace
  <2> QED
    BY <1>5, <1>7, <2>1, <2>2 DEF Push!Find, Push!Job, Push!Goto, PushTypes
<1>8. CASE Push(FALSE, f)!Link \/ Push(FALSE, f)!Update \/ Push(FALSE, f)!Forget
  BY <1>5, <1>8 DEF Push!Link, Push!Update, Push!Forget
<1>9. CASE Push(FALSE, f)!Take
  BY <1>1, <1>9 DEF Push!Take, Push!Goto, PushTypes
<1>10. CASE Push(FALSE, f)!Insert \/ Push(FALSE, f)!Record \/ Push(FALSE, f)!Patch \/ Push(FALSE, f)!Delete
  <2>1. UNCHANGED pushJobs /\ \/ pushHand.at = "insert" /\ pushHand'.at = "record"
                              \/ pushHand.at = "record" /\ pushHand'.at = "link"
                              \/ pushHand.at = "patch" /\ pushHand'.at = "update"
                              \/ pushHand.at = "delete" /\ pushHand'.at = "forget"
    BY <1>10 DEF Push!Insert, Push!Record, Push!Patch, Push!Delete, Push!Goto, PushTypes
  <2> QED
    BY <2>1 DEF PushPlace
<1>11. CASE Push(FALSE, f)!Fault \/ Push(FALSE, f)!ConnectionGone
  BY <1>1, <1>11 DEF Push!Fault, Push!ConnectionGone, Push!Idle
<1>12. ~Push(FALSE, f)!ClientCancels /\ ~Push(FALSE, f)!ClientMoves /\ \A c : ~Push(FALSE, f)!Disconnect(c)
  BY DEF Push!ClientCancels, Push!ClientMoves, Push!Disconnect
<1>13. CASE UNCHANGED pushVars
  BY <1>0, <1>13 DEF pushVars
<1> QED
  BY <1>4, <1>6, <1>7, <1>8, <1>9, <1>10, <1>11, <1>12, <1>13 DEF Push!Next, Push!Handler

-----------------------------------------------------------------------------
(* With one calendar, of whose steps none fails, what Google has and the   *)
(* rows say is one event or none, at every place of the handler.           *)
Event(i, t)         == [id |-> i, conn |-> 1, time |-> t]
RowOf(i, t, linked) == [id |-> i, conn |-> 1, time |-> t, linked |-> linked]
Nothing             == pushRows = {} /\ pushGoogle = {}
Shown(i, r, e)      == pushRows = {RowOf(i, r, TRUE)} /\ pushGoogle = {Event(i, e)}
Something           == \E i \in Nat, t \in PushTimes : Shown(i, t, t)

Between ==
  /\ pushJobs = <<>> =>
       IF pushBooking.status = "CONFIRMED" THEN \E i \in Nat : Shown(i, pushBooking.time, pushBooking.time) ELSE Nothing
  /\ pushJobs # <<>> =>
       /\ pushJobs[1].kind = "CONFIRMED" => Nothing
       /\ pushJobs[1].kind = "RESCHEDULED" => Something
       /\ pushJobs[1].kind = "CANCELLED" => Nothing \/ Something

Single ==
  /\ pushHand.at \notin {"idle", "connection"} => pushHand.conn = 1
  /\ pushHand.at \in {"idle", "connection", "find"} => Between
  /\ pushHand.at = "insert" => pushJobs[1].kind = "CONFIRMED" /\ Nothing
  /\ pushHand.at = "record" => pushRows = {} /\ pushGoogle = {Event(pushHand.id, pushJobs[1].time)}
  /\ pushHand.at = "link" =>
       pushRows = {RowOf(pushHand.id, pushJobs[1].time, FALSE)} /\ pushGoogle = {Event(pushHand.id, pushJobs[1].time)}
  /\ pushHand.at \in {"patch", "delete"} => \E t \in PushTimes : Shown(pushHand.id, t, t)
  /\ pushHand.at = "update" => \E t \in PushTimes : Shown(pushHand.id, t, pushJobs[1].time)
  /\ pushHand.at = "forget" => pushGoogle = {} /\ \E t \in PushTimes : pushRows = {RowOf(pushHand.id, t, TRUE)}

SingleInv == PushTypes(FALSE, 0) /\ PushQueue /\ PushPlace /\ Single

(* The booking changes: the first job, if there was one, is the same.      *)
LEMMA BetweenGrows ==
  ASSUME SingleInv, NEW kind \in Kinds, NEW time \in TimesOf(FALSE), Push(FALSE, 0)!Push(kind, time),
         UNCHANGED <<pushHand, pushGoogle, pushRows>>,
         kind = "CONFIRMED" => pushBooking.status # "CONFIRMED",
         kind = "RESCHEDULED" => pushBooking.status = "CONFIRMED"
  PROVE  Single'
<1> USE DEF SingleInv
<1>1. /\ Len(pushJobs) \in Nat /\ Len(pushJobs') = Len(pushJobs) + 1
      /\ pushJobs' \in Seq(JobSet(FALSE))
      /\ pushJobs # <<>> => pushJobs' # <<>> /\ pushJobs'[1] = pushJobs[1]
      /\ pushJobs'[Len(pushJobs) + 1] = [kind |-> kind, time |-> time]
  BY JobsGrow DEF PushQueue
<1>2. pushJobs' # <<>>
  BY <1>1, EmptySeq
<1>3. CASE pushJobs # <<>>
  <2>1. pushJobs'[1] = pushJobs[1]
    BY <1>1, <1>3
  <2>2. Between => Between'
    BY <1>2, <1>3, <2>1 DEF Between, Something, Nothing, Shown
  <2> QED
    BY <2>1, <2>2 DEF Single, Nothing, Shown
<1>4. CASE pushJobs = <<>>
  <2>1. Len(pushJobs) = 0
    BY <1>4, EmptySeq
  <2>2. pushJobs'[1].kind = kind
    BY <1>1, <2>1
  <2>3. pushHand.at = "idle" /\ Between
    BY <1>4 DEF PushTypes, Single
  <2>4. pushBooking.time \in PushTimes
    BY DEF PushTypes, TimesOf
  <2>5. IF pushBooking.status = "CONFIRMED" THEN Something ELSE Nothing
    BY <1>4, <2>3, <2>4 DEF Between, Something
  <2>6. Between'
    <3>1. (Something => Something') /\ (Nothing => Nothing')
      BY DEF Something, Nothing, Shown
    <3> QED
      BY <1>2, <2>2, <2>5, <3>1 DEF Between
  <2> QED
    BY <2>3, <2>6 DEF Single
<1> QED
  BY <1>3, <1>4

(* A job is done: what it leaves is what the next one expects.             *)
LEMMA BetweenShrinks ==
  ASSUME SingleInv, pushJobs # <<>>, Push(FALSE, 0)!Done, UNCHANGED <<pushActive, pushBooking>>,
         IF pushJobs[1].kind = "CANCELLED" THEN Nothing'
         ELSE \E i \in Nat : pushRows' = {RowOf(i, pushJobs[1].time, TRUE)} /\ pushGoogle' = {Event(i, pushJobs[1].time)}
  PROVE  Single'
<1> USE DEF SingleInv
<1>1. /\ pushJobs' # <<>> => pushJobs'[1].kind # "CONFIRMED" /\ pushJobs[1].kind # "CANCELLED"
      /\ pushJobs' = <<>> => pushJobs[1] = Final
  BY QueueShrinks
<1>2. pushHand'.at = "idle"
  BY DEF Push!Done, Push!Idle
<1>3. pushJobs[1].time \in PushTimes
  BY JobIsTyped DEF TimesOf
<1>4. CASE pushJobs' # <<>>
  <2>1. Something'
    BY <1>1, <1>3, <1>4 DEF Something, Shown
  <2> QED
    BY <1>1, <1>2, <1>4, <2>1 DEF Single, Between
<1>5. CASE pushJobs' = <<>>
  <2>1. pushJobs[1] = Final /\ pushBooking.status \in {"CONFIRMED", "CANCELLED"}
    BY <1>1, <1>5 DEF PushTypes, PushQueue
  <2>2. CASE pushBooking.status = "CONFIRMED"
    <3>1. pushJobs[1].time = pushBooking.time
      BY <2>1, <2>2 DEF PushQueue
    <3>2. pushJobs[1].kind # "CANCELLED"
      <4>1. 1 \in 1 .. Len(pushJobs)
        BY EmptySeq DEF PushTypes
      <4> QED
        BY <2>2, <4>1 DEF PushQueue
    <3>3. \E i \in Nat : Shown(i, pushBooking.time, pushBooking.time)'
      BY <3>1, <3>2 DEF Shown
    <3> QED
      BY <1>2, <1>5, <2>2, <3>3 DEF Single, Between
  <2>3. CASE pushBooking.status = "CANCELLED"
    <3>1. pushJobs[1].kind = "CANCELLED"
      BY <2>1, <2>3 DEF PushQueue
    <3>2. Nothing'
      BY <3>1
    <3> QED
      BY <1>2, <1>5, <2>3, <3>2 DEF Single, Between
  <2> QED
    BY <2>1, <2>2, <2>3
<1> QED
  BY <1>4, <1>5

LinkIn(S, i)    == {IF r.id = i THEN [r EXCEPT !.linked = TRUE] ELSE r : r \in S}
MoveIn(S, i, t) == {IF r.id = i THEN [r EXCEPT !.time = t] ELSE r : r \in S}

LEMMA RowIsLinked ==
  ASSUME NEW i, NEW t, NEW l PROVE LinkIn({RowOf(i, t, l)}, i) = {RowOf(i, t, TRUE)}
<1>1. \A k : [RowOf(i, t, l) EXCEPT !.linked = k] = RowOf(i, t, k)
  BY DEF RowOf
<1>2. RowOf(i, t, l).id = i
  BY DEF RowOf
<1> QED
  BY <1>1, <1>2, Zenon DEF LinkIn

LEMMA RowMoves ==
  ASSUME NEW i, NEW t, NEW l, NEW u PROVE MoveIn({RowOf(i, t, l)}, i, u) = {RowOf(i, u, l)}
<1>1. \A k : [RowOf(i, t, l) EXCEPT !.time = k] = RowOf(i, k, l)
  BY DEF RowOf
<1>2. RowOf(i, t, l).id = i
  BY DEF RowOf
<1> QED
  BY <1>1, <1>2, Zenon DEF MoveIn

Yes == TRUE

LEMMA LinkedRowMoves ==
  ASSUME NEW i, NEW t, NEW u PROVE MoveIn({RowOf(i, t, TRUE)}, i, u) = {RowOf(i, u, TRUE)}
<1>1. MoveIn({RowOf(i, t, Yes)}, i, u) = {RowOf(i, u, Yes)}
  BY RowMoves, Zenon
<1> QED
  BY <1>1 DEF Yes

LEMMA SingleStep ==
  ASSUME SingleInv, [Push(FALSE, 0)!Next]_pushVars PROVE Single'
<1> USE DEF SingleInv
<1>t. /\ pushHand \in [at: Places, conn: {1} \cup {0}, id: IdsOf(FALSE, 0) \cup {0}] /\ pushFaults \in 0 .. 0
      /\ pushActive = {1} /\ pushBooking.time \in TimesOf(FALSE)
      /\ pushHand.at # "idle" => pushJobs # <<>>
      /\ pushHand.id \in Nat
  <2>1. IdsOf(FALSE, 0) \cup {0} \subseteq Nat
    BY IdsAreNumbers
  <2>2. pushHand \in [at: Places, conn: {1} \cup {0}, id: IdsOf(FALSE, 0) \cup {0}]
    BY DEF PushTypes, Calendars
  <2>3. pushHand.id \in IdsOf(FALSE, 0) \cup {0}
    BY <2>2
  <2>4. pushHand.id \in Nat
    BY <2>1, <2>3, Zenon
  <2> QED
    BY <2>2, <2>4 DEF PushTypes, PushQueue
<1>1. CASE UNCHANGED pushVars
  BY <1>1 DEF pushVars, Single, Between, Nothing, Something, Shown
<1>2. CASE Push(FALSE, 0)!Confirm \/ Push(FALSE, 0)!Reschedule \/ Push(FALSE, 0)!Cancel
  BY <1>2, <1>t, BetweenGrows DEF Push!Confirm, Push!Reschedule, Push!Cancel, Kinds, TimesOf
<1>3. ~Push(FALSE, 0)!ClientCancels /\ ~Push(FALSE, 0)!ClientMoves /\ ~(\E c : Push(FALSE, 0)!Disconnect(c))
  BY DEF Push!ClientCancels, Push!ClientMoves, Push!Disconnect
<1>4. ~Push(FALSE, 0)!Fault /\ ~Push(FALSE, 0)!ConnectionGone
  <2>1. ~(pushFaults < 0)
    BY <1>t
  <2>2. pushHand.at \in {"insert", "record", "patch", "delete"} => pushHand.conn \in pushActive
    BY <1>t DEF Single
  <2> QED
    BY <2>1, <2>2 DEF Push!Fault, Push!ConnectionGone
<1>5. CASE Push(FALSE, 0)!Take
  BY <1>5, <1>t DEF Push!Take, Push!Goto, Single, Between, Nothing, Something, Shown
<1>6. CASE Push(FALSE, 0)!Connection
  <2>1. pushHand.at = "connection" /\ pushJobs # <<>> /\ UNCHANGED <<pushBooking, pushJobs, pushGoogle, pushRows>>
    BY <1>6, <1>t DEF Push!Connection
  <2>2. /\ pushHand'.conn = 1
        /\ pushHand'.at = IF pushJobs[1].kind = "CONFIRMED" THEN "insert" ELSE "find"
    <3>1. Push(FALSE, 0)!Primary = 1
      BY <1>t, PrimaryIsActive
    <3> QED
      BY <1>6, <1>t, <3>1 DEF Push!Connection, Push!Job
  <2>3. Between /\ Between'
    BY <2>1 DEF Single, Between, Nothing, Something, Shown
  <2>4. CASE pushJobs[1].kind = "CONFIRMED"
    BY <2>1, <2>2, <2>3, <2>4 DEF Single, Between, Nothing
  <2>5. CASE pushJobs[1].kind # "CONFIRMED"
    BY <2>1, <2>2, <2>3, <2>5 DEF Single
  <2> QED
    BY <2>4, <2>5
<1>7. CASE Push(FALSE, 0)!Find
  <2>1. /\ pushHand.at = "find" /\ pushHand.conn = 1 /\ pushJobs # <<>> /\ Between
        /\ UNCHANGED <<pushActive, pushBooking, pushGoogle, pushRows>>
    BY <1>7, <1>t DEF Push!Find, Single
  <2>2. pushJobs[1].kind \in {"RESCHEDULED", "CANCELLED"}
    BY <2>1, JobIsTyped DEF PushPlace, Kinds
  <2>3. CASE Nothing
    <3>1. pushJobs[1].kind = "CANCELLED"
      BY <2>1, <2>2, <2>3 DEF Between, Something, Nothing, Shown
    <3>2. Push(FALSE, 0)!Done
      BY <1>7, <2>3, <3>1 DEF Push!Find, Push!Linked, Push!Job, Nothing
    <3>3. Nothing'
      BY <2>1, <2>3 DEF Nothing
    <3> QED
      BY <2>1, <3>1, <3>2, <3>3, BetweenShrinks
  <2>4. CASE Something
    <3>1. PICK i \in Nat, t \in PushTimes : Shown(i, t, t)
      BY <2>4 DEF Something
    <3>2. Push(FALSE, 0)!Linked = {RowOf(i, t, TRUE)} /\ RowOf(i, t, TRUE).id = i
      BY <2>1, <3>1 DEF Push!Linked, Shown, RowOf
    <3>3. PICK p \in {"patch", "delete"} : pushHand' = [pushHand EXCEPT !.id = i, !.at = p] /\ UNCHANGED pushJobs
      <4>1. \E r \in Push(FALSE, 0)!Linked :
              /\ pushHand' = [pushHand EXCEPT !.id = r.id, !.at = IF pushJobs[1].kind = "CANCELLED" THEN "delete" ELSE "patch"]
              /\ UNCHANGED pushJobs
        BY <1>7, <3>2 DEF Push!Find, Push!Job
      <4> QED
        BY <3>2, <4>1
    <3>5. pushHand'.at \in {"patch", "delete"} /\ pushHand'.id = i /\ pushHand'.conn = 1
      BY <1>t, <2>1, <3>3
    <3>4. Shown(i, t, t)'
      BY <2>1, <3>1 DEF Shown
    <3> QED
      BY <3>4, <3>5 DEF Single
  <2> QED
    BY <2>1, <2>2, <2>3, <2>4 DEF Between
<1>8. CASE Push(FALSE, 0)!Insert
  <2>1. /\ pushHand.conn = 1 /\ Nothing /\ UNCHANGED <<pushJobs, pushRows>>
        /\ pushGoogle' = {Event(pushNext, pushJobs[1].time)}
    BY <1>8, <1>t DEF Push!Insert, Push!Job, Single, Nothing, Event
  <2>2. pushHand'.at = "record" /\ pushHand'.id = pushNext /\ pushHand'.conn = 1
    BY <1>8, <1>t, <2>1 DEF Push!Insert
  <2> QED
    BY <2>1, <2>2 DEF Single, Nothing
<1>9. CASE Push(FALSE, 0)!Record
  <2>1. /\ pushHand.conn = 1 /\ UNCHANGED <<pushJobs, pushGoogle>>
        /\ pushRows' = {RowOf(pushHand.id, pushJobs[1].time, FALSE)}
        /\ pushGoogle = {Event(pushHand.id, pushJobs[1].time)}
    BY <1>9, <1>t DEF Push!Record, Push!Row, Push!Job, Single, RowOf
  <2>2. pushHand'.at = "link" /\ pushHand'.id = pushHand.id /\ pushHand'.conn = 1
    BY <1>9, <1>t, <2>1 DEF Push!Record, Push!Goto
  <2> QED
    BY <2>1, <2>2 DEF Single
<1>10. CASE Push(FALSE, 0)!Link
  <2>1. /\ pushJobs # <<>> /\ Push(FALSE, 0)!Done /\ UNCHANGED <<pushActive, pushBooking, pushGoogle>>
        /\ pushRows = {RowOf(pushHand.id, pushJobs[1].time, FALSE)}
        /\ pushGoogle = {Event(pushHand.id, pushJobs[1].time)} /\ pushJobs[1].kind # "CANCELLED"
    BY <1>10, <1>t DEF Push!Link, Single, PushPlace
  <2>2. pushRows' = {RowOf(pushHand.id, pushJobs[1].time, TRUE)}
    <3>1. pushRows' = LinkIn({RowOf(pushHand.id, pushJobs[1].time, FALSE)}, pushHand.id)
      BY <1>10, <2>1 DEF Push!Link, LinkIn
    <3> QED
      BY <3>1, RowIsLinked, Zenon
  <2>3. pushHand.id \in Nat
    BY <1>t
  <2> QED
    BY <2>1, <2>2, <2>3, BetweenShrinks
<1>11. CASE Push(FALSE, 0)!Patch
  <2>1. PICK t \in PushTimes : Shown(pushHand.id, t, t)
    BY <1>11 DEF Push!Patch, Single
  <2>2. pushGoogle' = {Event(pushHand.id, pushJobs[1].time)}
    <3> DEFINE e == Event(pushHand.id, t)
    <3>1. [e EXCEPT !.time = pushJobs[1].time] = Event(pushHand.id, pushJobs[1].time) /\ e.id = pushHand.id
      BY DEF Event
    <3>2. pushGoogle' = {IF q.id = pushHand.id THEN [q EXCEPT !.time = pushJobs[1].time] ELSE q : q \in {e}}
      BY <1>11, <2>1 DEF Push!Patch, Push!Job, Shown
    <3> HIDE DEF e
    <3> QED
      BY <3>1, <3>2
  <2>3. pushHand'.at = "update" /\ pushHand'.id = pushHand.id /\ pushHand'.conn = 1 /\ UNCHANGED <<pushJobs, pushRows>>
    BY <1>11, <1>t DEF Push!Patch, Push!Goto
  <2>4. Shown(pushHand.id, t, pushJobs[1].time)'
    BY <2>1, <2>2, <2>3 DEF Shown
  <2> QED
    BY <2>3, <2>4 DEF Single
<1>12. CASE Push(FALSE, 0)!Update
  <2>1. PICK t \in PushTimes : Shown(pushHand.id, t, pushJobs[1].time)
    BY <1>12 DEF Push!Update, Single
  <2>2. pushRows' = {RowOf(pushHand.id, pushJobs[1].time, TRUE)}
    <3>1. pushRows' = MoveIn({RowOf(pushHand.id, t, TRUE)}, pushHand.id, pushJobs[1].time)
      BY <1>12, <2>1 DEF Push!Update, Push!Job, Shown, MoveIn
    <3> QED
      BY <3>1, LinkedRowMoves, Zenon
  <2>3. /\ pushJobs # <<>> /\ Push(FALSE, 0)!Done /\ UNCHANGED <<pushActive, pushBooking, pushGoogle>>
        /\ pushJobs[1].kind # "CANCELLED" /\ pushHand.id \in Nat
    BY <1>12, <1>t DEF Push!Update, PushPlace
  <2>4. pushGoogle' = {Event(pushHand.id, pushJobs[1].time)}
    BY <2>1, <2>3 DEF Shown
  <2> QED
    BY <2>2, <2>3, <2>4, BetweenShrinks
<1>13. CASE Push(FALSE, 0)!Delete
  <2>1. PICK t \in PushTimes : Shown(pushHand.id, t, t)
    BY <1>13 DEF Push!Delete, Single
  <2>2. pushGoogle' = {} /\ pushRows' = {RowOf(pushHand.id, t, TRUE)}
    BY <1>13, <2>1 DEF Push!Delete, Shown, Event
  <2>3. pushHand'.at = "forget" /\ pushHand'.id = pushHand.id /\ pushHand'.conn = 1
    BY <1>13, <1>t DEF Push!Delete, Push!Goto
  <2> QED
    BY <2>2, <2>3 DEF Single
<1>14. CASE Push(FALSE, 0)!Forget
  <2>1. PICK t \in PushTimes : pushRows = {RowOf(pushHand.id, t, TRUE)} /\ pushGoogle = {}
    BY <1>14 DEF Push!Forget, Single
  <2>2. Nothing'
    BY <1>14, <2>1 DEF Push!Forget, Nothing, RowOf
  <2>3. /\ pushJobs # <<>> /\ Push(FALSE, 0)!Done /\ UNCHANGED <<pushActive, pushBooking>>
        /\ pushJobs[1].kind = "CANCELLED"
    BY <1>14, <1>t DEF Push!Forget, PushPlace
  <2> QED
    BY <2>2, <2>3, BetweenShrinks
<1> QED
  BY <1>1, <1>2, <1>3, <1>4, <1>5, <1>6, <1>7, <1>8, <1>9, <1>10, <1>11, <1>12, <1>13, <1>14 DEF Push!Next, Push!Handler

LEMMA SingleMirrors == ASSUME SingleInv PROVE Push(FALSE, 0)!MirrorsBooking
<1> USE DEF SingleInv
<1> SUFFICES ASSUME pushJobs = <<>> PROVE Push(FALSE, 0)!MirrorsBooking
  BY DEF Push!MirrorsBooking, Push!Quiet
<1>1. Between
  BY DEF PushTypes, Single
<1>2. CASE pushBooking.status = "CONFIRMED"
  <2>1. PICK i \in Nat : Shown(i, pushBooking.time, pushBooking.time)
    BY <1>1, <1>2 DEF Between
  <2>2. pushGoogle = {Event(i, pushBooking.time)} /\ pushRows = {RowOf(i, pushBooking.time, TRUE)}
    BY <2>1 DEF Shown
  <2>3. pushGoogle = {[id |-> r.id, conn |-> r.conn, time |-> r.time] : r \in pushRows}
    BY <2>2 DEF Event, RowOf
  <2>4. {e.time : e \in pushGoogle} = {pushBooking.time}
    BY <2>2 DEF Event
  <2>5. Cardinality(pushGoogle) = 1 /\ Push(FALSE, 0)!Cardinality(pushGoogle) = Cardinality(pushGoogle)
    BY <2>2, FS_Singleton, PushFinite
  <2>6. Push(FALSE, 0)!Cardinality(pushGoogle) <= 1
    <3>1. \A c : c = 1 => c <= 1
      OBVIOUS
    <3> QED
      BY <2>5, <3>1, Zenon
  <2> QED
    BY <1>2, <2>3, <2>4, <2>6, Zenon DEF Push!MirrorsBooking
<1>3. CASE pushBooking.status # "CONFIRMED"
  <2>1. Nothing
    BY <1>1, <1>3 DEF Between
  <2>2. Cardinality(pushGoogle) = 0 /\ Push(FALSE, 0)!Cardinality(pushGoogle) = Cardinality(pushGoogle)
    BY <2>1, FS_EmptySet, PushFinite DEF Nothing
  <2>3. Push(FALSE, 0)!Cardinality(pushGoogle) <= 1
    <3>1. \A c : c = 0 => c <= 1
      OBVIOUS
    <3> QED
      BY <2>2, <3>1, Zenon
  <2>4. pushGoogle = {[id |-> r.id, conn |-> r.conn, time |-> r.time] : r \in pushRows} /\ {e.time : e \in pushGoogle} = {}
    BY <2>1 DEF Nothing
  <2> QED
    BY <1>3, <2>3, <2>4, Zenon DEF Push!MirrorsBooking
<1> QED
  BY <1>2, <1>3

-----------------------------------------------------------------------------
(* With one calendar, of whose steps any may fail, unless the booking is   *)
(* cancelled and its last job is all that is left: a linked row has its    *)
(* event, and there is one once the booking's first job is done.           *)
Ending == pushBooking.status = "CANCELLED" /\ (pushJobs # <<>> => pushJobs[1].kind = "CANCELLED")

EventAtTime == \E e \in pushGoogle : e.id = pushHand.id /\ e.time = pushJobs[1].time
RowAtTime   == \E r \in pushRows : r.id = pushHand.id /\ r.time = pushJobs[1].time
Kept(t)     == \E r \in pushRows, e \in pushGoogle : r.linked = TRUE /\ r.id = e.id /\ r.time = t /\ e.time = t

Present ==
  /\ \A r \in pushRows : r.linked = TRUE => \E e \in pushGoogle : e.id = r.id
  /\ pushJobs = <<>> /\ pushBooking.status = "CONFIRMED" => Kept(pushBooking.time)
  /\ pushJobs # <<>> /\ pushJobs[1].kind = "RESCHEDULED" => \E r \in pushRows : r.linked = TRUE
  /\ pushHand.at \in {"record", "link", "update"} => EventAtTime
  /\ pushHand.at = "link" => RowAtTime
  /\ pushHand.at \in {"patch", "update"} => \E r \in pushRows : r.linked = TRUE /\ r.id = pushHand.id

PresentInv(f) == PushTypes(FALSE, f) /\ PushQueue /\ PushPlace /\ (Ending \/ Present)

LEMMA OnlyCalendar ==
  ASSUME NEW f \in Nat, PushTypes(FALSE, f), PushQueue
  PROVE  /\ pushHand.at \notin {"idle", "connection"} => pushHand.conn = 1
         /\ \A r \in pushRows : r.conn = 1 /\ r.linked \in BOOLEAN
         /\ pushActive # {}
         /\ pushJobs # <<>> /\ pushJobs[1].kind = "CANCELLED" =>
              pushBooking.status = "CANCELLED" /\ Len(pushJobs) = 1
<1>1. pushJobs # <<>> => 1 \in 1 .. Len(pushJobs)
  BY EmptySeq DEF PushTypes
<1>2. pushActive # {}
  BY DEF PushQueue
<1>3. \A r \in pushRows : r.conn = 1 /\ r.linked \in BOOLEAN
  BY DEF PushTypes, RowSet, Calendars
<1>4. pushJobs # <<>> /\ pushJobs[1].kind = "CANCELLED" => pushBooking.status = "CANCELLED" /\ Len(pushJobs) = 1
  BY <1>1 DEF PushQueue
<1>5. pushHand.at \notin {"idle", "connection"} => pushHand.conn = 1
  BY DEF PushTypes, Calendars
<1> QED
  BY <1>2, <1>3, <1>4, <1>5

LEMMA EndingStays ==
  ASSUME NEW f \in Nat, PushTypes(FALSE, f), PushQueue, Ending, [Push(FALSE, f)!Next]_pushVars PROVE Ending'
<1>0. CASE UNCHANGED <<pushBooking, pushJobs>>
  BY <1>0 DEF Ending
<1>1. CASE Push(FALSE, f)!Done /\ UNCHANGED pushBooking /\ pushHand.at # "idle"
  <2>1. pushJobs # <<>> /\ Len(pushJobs) = 1
    BY <1>1, OnlyCalendar DEF PushTypes, Ending
  <2>2. pushJobs' \in Seq(JobSet(FALSE)) /\ Len(pushJobs') = Len(pushJobs) - 1
    BY <1>1, <2>1, JobDone
  <2>3. Len(pushJobs') = 0
    BY <2>1, <2>2
  <2>4. pushJobs' = <<>>
    BY <2>2, <2>3, EmptySeq
  <2> QED
    BY <1>1, <2>4 DEF Ending
<1>2. ~Push(FALSE, f)!Confirm /\ ~Push(FALSE, f)!Reschedule /\ ~Push(FALSE, f)!Cancel
  BY DEF Push!Confirm, Push!Reschedule, Push!Cancel, Ending
<1>3. ~Push(FALSE, f)!ClientCancels /\ ~Push(FALSE, f)!ClientMoves /\ ~(\E c : Push(FALSE, f)!Disconnect(c))
  BY DEF Push!ClientCancels, Push!ClientMoves, Push!Disconnect
<1>4. CASE Push(FALSE, f)!Connection \/ Push(FALSE, f)!Find
  BY <1>0, <1>1, <1>4 DEF Push!Connection, Push!Find
<1>5. CASE Push(FALSE, f)!Link \/ Push(FALSE, f)!Update \/ Push(FALSE, f)!Forget
  BY <1>1, <1>5 DEF Push!Link, Push!Update, Push!Forget
<1>6. CASE Push(FALSE, f)!Take \/ Push(FALSE, f)!Insert \/ Push(FALSE, f)!Record \/ Push(FALSE, f)!Patch \/ Push(FALSE, f)!Delete
  BY <1>0, <1>6 DEF Push!Take, Push!Insert, Push!Record, Push!Patch, Push!Delete
<1>7. CASE Push(FALSE, f)!Fault \/ Push(FALSE, f)!ConnectionGone \/ UNCHANGED pushVars
  BY <1>0, <1>7 DEF Push!Fault, Push!ConnectionGone, pushVars
<1> QED
  BY <1>2, <1>3, <1>4, <1>5, <1>6, <1>7 DEF Push!Next, Push!Handler

LEMMA PresentGrows ==
  ASSUME NEW f \in Nat, PushTypes(FALSE, f), PushQueue, Present, NEW kind \in Kinds, NEW time \in TimesOf(FALSE),
         Push(FALSE, f)!Push(kind, time), UNCHANGED <<pushHand, pushGoogle, pushRows>>,
         kind = "RESCHEDULED" => pushBooking.status = "CONFIRMED"
  PROVE  Present'
<1>1. /\ Len(pushJobs) \in Nat /\ Len(pushJobs') = Len(pushJobs) + 1
      /\ pushJobs' \in Seq(JobSet(FALSE))
      /\ pushJobs # <<>> => pushJobs' # <<>> /\ pushJobs'[1] = pushJobs[1]
      /\ pushJobs'[Len(pushJobs) + 1] = [kind |-> kind, time |-> time]
  BY JobsGrow DEF PushQueue
<1>2. pushJobs' # <<>>
  BY <1>1, EmptySeq
<1>3. CASE pushJobs # <<>>
  <2>1. pushJobs'[1] = pushJobs[1]
    BY <1>1, <1>3
  <2> QED
    BY <1>2, <1>3, <2>1 DEF Present, EventAtTime, RowAtTime
<1>4. CASE pushJobs = <<>>
  <2>1. Len(pushJobs) = 0
    BY <1>4, EmptySeq
  <2>2. pushJobs'[1].kind = kind
    BY <1>1, <2>1
  <2>3. pushHand.at = "idle"
    BY <1>4 DEF PushTypes
  <2>4. kind = "RESCHEDULED" => \E r \in pushRows : r.linked = TRUE
    BY <1>4 DEF Present, Kept
  <2> QED
    BY <1>2, <2>2, <2>3, <2>4 DEF Present
<1> QED
  BY <1>3, <1>4

LEMMA PresentShrinks ==
  ASSUME NEW f \in Nat, PushTypes(FALSE, f), PushQueue, UNCHANGED <<pushActive, pushBooking>>,
         pushJobs # <<>>, Push(FALSE, f)!Done,
         \E r \in pushRows', e \in pushGoogle' :
           r.linked = TRUE /\ r.id = e.id /\ r.time = pushJobs[1].time /\ e.time = pushJobs[1].time,
         (\A r \in pushRows : r.linked = TRUE => \E e \in pushGoogle : e.id = r.id)'
  PROVE  Present'
<1>1. pushHand'.at = "idle"
  BY DEF Push!Done, Push!Idle
<1>2. pushJobs' = <<>> => pushJobs[1] = Final
  BY QueueShrinks
<1> QED
  BY <1>1, <1>2 DEF Present, Kept, PushQueue

LEMMA PresentStep ==
  ASSUME NEW f \in Nat, PushTypes(FALSE, f), PushQueue, PushPlace, Present, ~Ending, [Push(FALSE, f)!Next]_pushVars
  PROVE  Present'
<1>t. /\ pushHand \in [at: Places, conn: {1} \cup {0}, id: IdsOf(FALSE, f) \cup {0}]
      /\ pushHand.at # "idle" => pushJobs # <<>>
      /\ pushBooking.time \in TimesOf(FALSE)
  <2>1. pushHand \in [at: Places, conn: {1} \cup {0}, id: IdsOf(FALSE, f) \cup {0}]
    BY DEF PushTypes, Calendars
  <2> QED
    BY <2>1 DEF PushTypes
<1>k. pushJobs # <<>> => pushJobs[1].kind # "CANCELLED"
  BY OnlyCalendar DEF Ending
<1>1. CASE UNCHANGED pushVars
  BY <1>1 DEF pushVars, Present, Kept, EventAtTime, RowAtTime
<1>2. CASE Push(FALSE, f)!Confirm \/ Push(FALSE, f)!Reschedule \/ Push(FALSE, f)!Cancel
  BY <1>2, <1>t, PresentGrows DEF Push!Confirm, Push!Reschedule, Push!Cancel, Kinds, TimesOf
<1>3. ~Push(FALSE, f)!ClientCancels /\ ~Push(FALSE, f)!ClientMoves /\ ~(\E c : Push(FALSE, f)!Disconnect(c))
  BY DEF Push!ClientCancels, Push!ClientMoves, Push!Disconnect
<1>4. CASE Push(FALSE, f)!Fault \/ Push(FALSE, f)!ConnectionGone
  BY <1>4 DEF Push!Fault, Push!ConnectionGone, Push!Idle, Present, Kept
<1>5. CASE Push(FALSE, f)!Take
  BY <1>5, <1>t DEF Push!Take, Push!Goto, Present, Kept
<1>6. CASE Push(FALSE, f)!Connection
  <2>1. pushHand'.at \in {"insert", "find"} /\ UNCHANGED <<pushBooking, pushJobs, pushGoogle, pushRows>> /\ pushJobs # <<>>
    BY <1>6, <1>t, OnlyCalendar DEF Push!Connection
  <2> QED
    BY <2>1 DEF Present
<1>7. CASE Push(FALSE, f)!Find
  <2>1. pushHand.at = "find" /\ pushHand.conn = 1 /\ pushJobs # <<>> /\ UNCHANGED <<pushBooking, pushGoogle, pushRows>>
    BY <1>7, <1>t, OnlyCalendar DEF Push!Find
  <2>2. UNCHANGED pushJobs
    BY <1>7, <1>k, <2>1 DEF Push!Find, Push!Job
  <2>3. CASE Push(FALSE, f)!Linked = {}
    <3>1. pushHand'.at = "insert"
      BY <1>7, <1>k, <1>t, <2>1, <2>3 DEF Push!Find, Push!Job, Push!Goto
    <3> QED
      BY <2>1, <2>2, <3>1 DEF Present
  <2>4. CASE Push(FALSE, f)!Linked # {}
    <3>1. PICK r \in Push(FALSE, f)!Linked : pushHand' = [pushHand EXCEPT !.id = r.id, !.at = "patch"]
      BY <1>7, <1>k, <2>1, <2>4 DEF Push!Find, Push!Job
    <3>2. r \in pushRows /\ r.linked = TRUE /\ pushHand'.id = r.id /\ pushHand'.at = "patch"
      BY <1>t, <3>1, OnlyCalendar DEF Push!Linked
    <3> QED
      BY <2>1, <2>2, <3>2 DEF Present
  <2> QED
    BY <2>3, <2>4
<1>8. CASE Push(FALSE, f)!Insert
  <2>1. /\ UNCHANGED <<pushBooking, pushJobs, pushRows>> /\ pushJobs # <<>>
        /\ pushGoogle' = pushGoogle \cup {[id |-> pushNext, conn |-> pushHand.conn, time |-> pushJobs[1].time]}
        /\ pushHand'.at = "record" /\ pushHand'.id = pushNext
    BY <1>8, <1>t DEF Push!Insert, Push!Job
  <2>2. EventAtTime'
    <3> DEFINE e == [id |-> pushNext, conn |-> pushHand.conn, time |-> pushJobs[1].time]
    <3>1. e.id = pushNext /\ e.time = pushJobs[1].time /\ e \in pushGoogle'
      BY <2>1
    <3> HIDE DEF e
    <3> QED
      BY <2>1, <3>1 DEF EventAtTime
  <2> QED
    BY <2>1, <2>2 DEF Present
<1>9. CASE Push(FALSE, f)!Record
  <2> DEFINE row == [id |-> pushHand.id, conn |-> pushHand.conn, time |-> pushJobs[1].time, linked |-> FALSE]
  <2>1. /\ UNCHANGED <<pushBooking, pushJobs, pushGoogle>> /\ pushJobs # <<>>
        /\ pushRows' = pushRows \cup {row}
        /\ pushHand'.at = "link" /\ pushHand'.id = pushHand.id /\ pushHand.at = "record"
    BY <1>9, <1>t DEF Push!Record, Push!Row, Push!Job, Push!Goto
  <2>2. row.linked = FALSE /\ row.id = pushHand.id /\ row.time = pushJobs[1].time
    OBVIOUS
  <2> HIDE DEF row
  <2>3. EventAtTime' /\ RowAtTime'
    BY <2>1, <2>2 DEF Present, EventAtTime, RowAtTime
  <2> QED
    BY <2>1, <2>2, <2>3 DEF Present
<1>10. CASE Push(FALSE, f)!Link
  <2>1. pushHand.at = "link" /\ pushJobs # <<>> /\ Push(FALSE, f)!Done /\ UNCHANGED <<pushActive, pushBooking, pushGoogle>>
    BY <1>10, <1>t DEF Push!Link
  <2>2. PICK e \in pushGoogle : e.id = pushHand.id /\ e.time = pushJobs[1].time
    BY <2>1 DEF Present, EventAtTime
  <2>3. PICK r \in pushRows : r.id = pushHand.id /\ r.time = pushJobs[1].time
    BY <2>1 DEF Present, RowAtTime
  <2>4. \A q \in pushRows : /\ [q EXCEPT !.linked = TRUE].id = q.id
                            /\ [q EXCEPT !.linked = TRUE].time = q.time
                            /\ [q EXCEPT !.linked = TRUE].linked = TRUE
    BY DEF PushTypes, RowSet
  <2>5. \A q \in pushRows : q.linked = TRUE => \E d \in pushGoogle : d.id = q.id
    BY DEF Present
  <2>6. pushRows' = {IF q.id = pushHand.id THEN [q EXCEPT !.linked = TRUE] ELSE q : q \in pushRows}
    BY <1>10 DEF Push!Link
  <2>7. \A q \in pushRows' : q.linked = TRUE => \E d \in pushGoogle : d.id = q.id
    <3> SUFFICES ASSUME NEW q \in pushRows', q.linked = TRUE PROVE \E d \in pushGoogle : d.id = q.id
      OBVIOUS
    <3>1. PICK p \in pushRows : q = IF p.id = pushHand.id THEN [p EXCEPT !.linked = TRUE] ELSE p
      BY <2>6
    <3>2. CASE p.id = pushHand.id
      <4>1. q.id = pushHand.id
        BY <2>4, <3>1, <3>2
      <4> QED
        BY <2>2, <4>1
    <3>3. CASE p.id # pushHand.id
      BY <2>5, <3>1, <3>3
    <3> QED
      BY <3>2, <3>3
  <2>8. [r EXCEPT !.linked = TRUE] \in pushRows'
    BY <2>3, <2>6
  <2> DEFINE q == [r EXCEPT !.linked = TRUE]
  <2>9. q \in pushRows' /\ q.linked = TRUE /\ q.id = e.id /\ q.time = pushJobs[1].time /\ e \in pushGoogle'
    BY <2>1, <2>2, <2>3, <2>4, <2>8
  <2> HIDE DEF q
  <2> QED
    BY <2>1, <2>2, <2>7, <2>9, PresentShrinks
<1>11. CASE Push(FALSE, f)!Patch
  <2>1. /\ UNCHANGED <<pushBooking, pushJobs, pushRows>> /\ pushJobs # <<>>
        /\ pushGoogle' = {IF e.id = pushHand.id THEN [e EXCEPT !.time = pushJobs[1].time] ELSE e : e \in pushGoogle}
        /\ pushHand'.at = "update" /\ pushHand'.id = pushHand.id /\ pushHand.at = "patch"
    BY <1>11, <1>t DEF Push!Patch, Push!Job, Push!Goto
  <2>2. \A e \in pushGoogle : /\ [e EXCEPT !.time = pushJobs[1].time].id = e.id
                              /\ [e EXCEPT !.time = pushJobs[1].time].time = pushJobs[1].time
    BY DEF PushTypes, EventSet
  <2>3. \A e \in pushGoogle : \E d \in pushGoogle' : d.id = e.id /\ (e.id = pushHand.id => d.time = pushJobs[1].time)
    BY <2>1, <2>2
  <2>4. PICK e \in pushGoogle : e.id = pushHand.id
    BY <2>1 DEF Present
  <2>5. EventAtTime'
    BY <2>1, <2>3, <2>4 DEF EventAtTime
  <2>6. \A r \in pushRows : r.linked = TRUE => \E d \in pushGoogle' : d.id = r.id
    BY <2>3 DEF Present
  <2> QED
    BY <2>1, <2>5, <2>6 DEF Present
<1>12. CASE Push(FALSE, f)!Update
  <2>1. pushHand.at = "update" /\ pushJobs # <<>> /\ Push(FALSE, f)!Done /\ UNCHANGED <<pushActive, pushBooking, pushGoogle>>
    BY <1>12, <1>t DEF Push!Update
  <2>2. PICK e \in pushGoogle : e.id = pushHand.id /\ e.time = pushJobs[1].time
    BY <2>1 DEF Present, EventAtTime
  <2>3. PICK r \in pushRows : r.id = pushHand.id /\ r.linked = TRUE
    BY <2>1 DEF Present
  <2>4. \A q \in pushRows : /\ [q EXCEPT !.time = pushJobs[1].time].id = q.id
                            /\ [q EXCEPT !.time = pushJobs[1].time].time = pushJobs[1].time
                            /\ [q EXCEPT !.time = pushJobs[1].time].linked = q.linked
    BY DEF PushTypes, RowSet
  <2>5. \A q \in pushRows : q.linked = TRUE => \E d \in pushGoogle : d.id = q.id
    BY DEF Present
  <2>6. pushRows' = {IF q.id = pushHand.id THEN [q EXCEPT !.time = pushJobs[1].time] ELSE q : q \in pushRows}
    BY <1>12 DEF Push!Update, Push!Job
  <2>7. \A q \in pushRows' : q.linked = TRUE => \E d \in pushGoogle : d.id = q.id
    <3> SUFFICES ASSUME NEW q \in pushRows', q.linked = TRUE PROVE \E d \in pushGoogle : d.id = q.id
      OBVIOUS
    <3>1. PICK p \in pushRows : q = IF p.id = pushHand.id THEN [p EXCEPT !.time = pushJobs[1].time] ELSE p
      BY <2>6
    <3>2. CASE p.id = pushHand.id
      <4>1. q.id = pushHand.id
        BY <2>4, <3>1, <3>2
      <4> QED
        BY <2>2, <4>1
    <3>3. CASE p.id # pushHand.id
      BY <2>5, <3>1, <3>3
    <3> QED
      BY <3>2, <3>3
  <2>8. [r EXCEPT !.time = pushJobs[1].time] \in pushRows'
    BY <2>3, <2>6
  <2> DEFINE q == [r EXCEPT !.time = pushJobs[1].time]
  <2>9. q \in pushRows' /\ q.linked = TRUE /\ q.id = e.id /\ q.time = pushJobs[1].time /\ e \in pushGoogle'
    BY <2>1, <2>2, <2>3, <2>4, <2>8
  <2> HIDE DEF q
  <2> QED
    BY <2>1, <2>2, <2>7, <2>9, PresentShrinks
<1>13. ~Push(FALSE, f)!Delete /\ ~Push(FALSE, f)!Forget
  BY <1>k, <1>t DEF Push!Delete, Push!Forget, PushPlace
<1> QED
  BY <1>1, <1>2, <1>3, <1>4, <1>5, <1>6, <1>7, <1>8, <1>9, <1>10, <1>11, <1>12, <1>13 DEF Push!Next, Push!Handler

LEMMA PresentIsThere == ASSUME NEW f \in Nat, PresentInv(f) PROVE Push(FALSE, f)!NothingIsMissing
<1> SUFFICES ASSUME pushJobs = <<>>, pushBooking.status = "CONFIRMED" PROVE Push(FALSE, f)!NothingIsMissing
  BY DEF Push!NothingIsMissing, Push!Quiet
<1>1. PICK r \in pushRows, e \in pushGoogle :
        r.linked = TRUE /\ r.id = e.id /\ r.time = pushBooking.time /\ e.time = pushBooking.time
  BY DEF PresentInv, Present, Kept, Ending
<1>2. r.linked /\ r.id = e.id /\ {r.time, e.time} = {pushBooking.time}
  BY <1>1
<1> QED
  BY <1>2 DEF Push!NothingIsMissing

-----------------------------------------------------------------------------
(* With several calendars, that the owner disconnects, an event has its    *)
(* row.  Ids are never given twice, so the row about to be written, or     *)
(* just deleted with its event, is of no other event.                      *)
RowFor(e) == \E r \in pushRows : r.id = e.id /\ r.conn = e.conn

RowsKept ==
  /\ \A e \in pushGoogle : e.id < pushNext
  /\ pushHand.at = "record" => /\ pushHand.id < pushNext
                               /\ \A e \in pushGoogle : e.id = pushHand.id => e.conn = pushHand.conn
  /\ pushHand.at = "forget" => \A e \in pushGoogle : e.id # pushHand.id
  /\ \A e \in pushGoogle : e.conn \in pushActive => RowFor(e) \/ (pushHand.at = "record" /\ pushHand.id = e.id)

LEMMA RowsKeptStep ==
  ASSUME NEW two \in BOOLEAN, PushTypes(two, 0), RowsKept, [Push(two, 0)!Next]_pushVars PROVE RowsKept'
<1>t. /\ pushHand \in [at: Places, conn: Calendars(two) \cup {0}, id: IdsOf(two, 0) \cup {0}]
      /\ pushNext \in Nat /\ pushFaults \in 0 .. 0
      /\ \A e \in pushGoogle : e.id \in Nat
  BY IdsAreNumbers DEF PushTypes, EventSet
<1>0. CASE UNCHANGED <<pushActive, pushGoogle, pushRows, pushNext>> /\ pushHand.at # "record" /\ pushHand'.at \notin {"record", "forget"}
  BY <1>0 DEF RowsKept, RowFor
<1>1. CASE UNCHANGED <<pushActive, pushHand, pushGoogle, pushRows, pushNext>>
  BY <1>1 DEF RowsKept, RowFor
<1>2. CASE \/ Push(two, 0)!Confirm \/ Push(two, 0)!Reschedule \/ Push(two, 0)!Cancel
           \/ Push(two, 0)!ClientCancels \/ Push(two, 0)!ClientMoves \/ UNCHANGED pushVars
  BY <1>1, <1>2 DEF Push!Confirm, Push!Reschedule, Push!Cancel, Push!ClientCancels, Push!ClientMoves, pushVars
<1>3. ASSUME NEW c, Push(two, 0)!Disconnect(c) PROVE RowsKept'
  <2>1. /\ pushActive' = pushActive \ {c} /\ pushRows' = {r \in pushRows : r.conn # c}
        /\ UNCHANGED <<pushHand, pushGoogle, pushNext>>
    BY <1>3 DEF Push!Disconnect
  <2>2. \A e \in pushGoogle : e.conn \in pushActive' /\ RowFor(e) => RowFor(e)'
    BY <2>1 DEF RowFor
  <2> QED
    BY <2>1, <2>2 DEF RowsKept
<1>4. CASE Push(two, 0)!Take
  BY <1>0, <1>4, <1>t DEF Push!Take, Push!Goto
<1>d. CASE Push(two, 0)!Done /\ UNCHANGED <<pushActive, pushGoogle, pushRows, pushNext>> /\ pushHand.at # "record"
  BY <1>0, <1>d DEF Push!Done, Push!Idle
<1>5. CASE Push(two, 0)!Connection
  <2>1. CASE pushActive # {}
    BY <1>0, <1>5, <1>t, <2>1 DEF Push!Connection
  <2> QED
    BY <1>5, <1>d, <2>1 DEF Push!Connection
<1>6. CASE Push(two, 0)!Find
  <2>1. CASE \/ Push(two, 0)!Goto("insert")
             \/ \E r : pushHand' = [pushHand EXCEPT !.id = r.id, !.at = IF pushJobs[1].kind = "CANCELLED" THEN "delete" ELSE "patch"]
    BY <1>0, <1>6, <1>t, <2>1 DEF Push!Find, Push!Goto
  <2> QED
    BY <1>6, <1>d, <2>1 DEF Push!Find, Push!Job
<1>7. CASE Push(two, 0)!Insert
  <2> DEFINE e == [id |-> pushNext, conn |-> pushHand.conn, time |-> pushJobs[1].time]
  <2>1. /\ pushGoogle' = pushGoogle \cup {e} /\ pushNext' = pushNext + 1 /\ UNCHANGED <<pushActive, pushRows>>
        /\ pushHand.at = "insert" /\ pushHand'.at = "record" /\ pushHand'.id = pushNext /\ pushHand'.conn = pushHand.conn
    BY <1>7, <1>t DEF Push!Insert, Push!Job
  <2>2. e.id = pushNext /\ e.conn = pushHand.conn
    OBVIOUS
  <2> HIDE DEF e
  <2>3. \A d \in pushGoogle : d.id < pushNext /\ d.id # pushNext /\ d.id < pushNext + 1
    BY <1>t DEF RowsKept
  <2>4. \A d \in pushGoogle : d.conn \in pushActive => RowFor(d) /\ RowFor(d)'
    BY <2>1 DEF RowsKept, RowFor
  <2>5. pushNext < pushNext + 1
    BY <1>t
  <2> QED
    BY <2>1, <2>2, <2>3, <2>4, <2>5 DEF RowsKept
<1>8. CASE Push(two, 0)!Record
  <2> DEFINE r == [id |-> pushHand.id, conn |-> pushHand.conn, time |-> pushJobs[1].time, linked |-> FALSE]
  <2>1. /\ pushRows' = pushRows \cup {r} /\ UNCHANGED <<pushActive, pushGoogle, pushNext>>
        /\ pushHand.at = "record" /\ pushHand'.at = "link"
    BY <1>8, <1>t DEF Push!Record, Push!Row, Push!Job, Push!Goto
  <2>2. r.id = pushHand.id /\ r.conn = pushHand.conn
    OBVIOUS
  <2> HIDE DEF r
  <2>3. \A e \in pushGoogle : e.conn \in pushActive => RowFor(e)'
    BY <2>1, <2>2 DEF RowsKept, RowFor
  <2> QED
    BY <2>1, <2>3 DEF RowsKept
<1>9. CASE Push(two, 0)!Link
  <2>1. /\ UNCHANGED <<pushActive, pushGoogle, pushNext>> /\ pushHand.at = "link" /\ pushHand'.at = "idle"
        /\ pushRows' = {IF q.id = pushHand.id THEN [q EXCEPT !.linked = TRUE] ELSE q : q \in pushRows}
    BY <1>9 DEF Push!Link, Push!Done, Push!Idle
  <2>2. \A q \in pushRows : \E r \in pushRows' : r.id = q.id /\ r.conn = q.conn
    <3>1. \A q \in pushRows : [q EXCEPT !.linked = TRUE].id = q.id /\ [q EXCEPT !.linked = TRUE].conn = q.conn
      BY DEF PushTypes, RowSet
    <3>2. \A q \in pushRows : q \in pushRows' \/ [q EXCEPT !.linked = TRUE] \in pushRows'
      BY <2>1
    <3> QED
      BY <3>1, <3>2
  <2>3. \A e \in pushGoogle : RowFor(e) => RowFor(e)'
    BY <2>2 DEF RowFor
  <2> QED
    BY <2>1, <2>3 DEF RowsKept
<1>10. CASE Push(two, 0)!Update
  <2>1. /\ UNCHANGED <<pushActive, pushGoogle, pushNext>> /\ pushHand.at = "update" /\ pushHand'.at = "idle"
        /\ pushRows' = {IF q.id = pushHand.id THEN [q EXCEPT !.time = pushJobs[1].time] ELSE q : q \in pushRows}
    BY <1>10 DEF Push!Update, Push!Job, Push!Done, Push!Idle
  <2>2. \A q \in pushRows : \E r \in pushRows' : r.id = q.id /\ r.conn = q.conn
    <3>1. \A q \in pushRows : [q EXCEPT !.time = pushJobs[1].time].id = q.id /\ [q EXCEPT !.time = pushJobs[1].time].conn = q.conn
      BY DEF PushTypes, RowSet
    <3>2. \A q \in pushRows : q \in pushRows' \/ [q EXCEPT !.time = pushJobs[1].time] \in pushRows'
      BY <2>1
    <3> QED
      BY <3>1, <3>2
  <2>3. \A e \in pushGoogle : RowFor(e) => RowFor(e)'
    BY <2>2 DEF RowFor
  <2> QED
    BY <2>1, <2>3 DEF RowsKept
<1>11. CASE Push(two, 0)!Patch
  <2>1. /\ UNCHANGED <<pushActive, pushRows, pushNext>> /\ pushHand.at = "patch" /\ pushHand'.at = "update"
        /\ pushGoogle' = {IF e.id = pushHand.id THEN [e EXCEPT !.time = pushJobs[1].time] ELSE e : e \in pushGoogle}
    BY <1>11, <1>t DEF Push!Patch, Push!Job, Push!Goto
  <2>2. \A d \in pushGoogle' : \E e \in pushGoogle : d.id = e.id /\ d.conn = e.conn
    BY <2>1 DEF PushTypes, EventSet
  <2>3. \A d \in pushGoogle' : d.conn \in pushActive => RowFor(d)'
    BY <2>1, <2>2 DEF RowsKept, RowFor
  <2>4. \A d \in pushGoogle' : d.id < pushNext
    BY <2>2 DEF RowsKept
  <2> QED
    BY <2>1, <2>3, <2>4 DEF RowsKept
<1>12. CASE Push(two, 0)!Delete
  <2>1. /\ UNCHANGED <<pushActive, pushRows, pushNext>> /\ pushHand.at = "delete"
        /\ pushHand'.at = "forget" /\ pushHand'.id = pushHand.id
        /\ pushGoogle' = {e \in pushGoogle : e.id # pushHand.id}
    BY <1>12, <1>t DEF Push!Delete, Push!Goto
  <2> QED
    BY <2>1 DEF RowsKept, RowFor
<1>13. CASE Push(two, 0)!Forget
  <2>1. /\ UNCHANGED <<pushActive, pushGoogle, pushNext>> /\ pushHand.at = "forget" /\ pushHand'.at = "idle"
        /\ pushRows' = {r \in pushRows : r.id # pushHand.id}
    BY <1>13 DEF Push!Forget, Push!Done, Push!Idle
  <2>2. \A e \in pushGoogle : e.id # pushHand.id /\ (RowFor(e) => RowFor(e)')
    BY <2>1 DEF RowsKept, RowFor
  <2> QED
    BY <2>1, <2>2 DEF RowsKept
<1>14. CASE Push(two, 0)!ConnectionGone
  <2>1. /\ UNCHANGED <<pushActive, pushGoogle, pushRows, pushNext>> /\ pushHand.conn \notin pushActive /\ pushHand'.at = "idle"
    BY <1>14 DEF Push!ConnectionGone, Push!Idle
  <2> QED
    BY <2>1 DEF RowsKept, RowFor
<1>15. ~Push(two, 0)!Fault
  <2>1. ~(pushFaults < 0)
    BY <1>t
  <2> QED
    BY <2>1 DEF Push!Fault
<1> QED
  BY <1>2, <1>3, <1>4, <1>5, <1>6, <1>7, <1>8, <1>9, <1>10, <1>11, <1>12, <1>13, <1>14, <1>15 DEF Push!Next, Push!Handler

LEMMA RowsAreThere == ASSUME RowsKept PROVE Push(TRUE, 0)!EventsHaveRows
BY DEF RowsKept, RowFor, Push!EventsHaveRows

-----------------------------------------------------------------------------
(* The circumstances of the run.                                           *)
LEMMA PushTurns ==
  ASSUME [Next]_vars
  PROVE  /\ under' = under
         /\ under = "push" => [Push(FALSE, 0)!Next]_pushVars
         /\ under = "push, steps fail" => [Push(FALSE, MaxPushFaults)!Next]_pushVars
         /\ under = "push, calendars disconnected" => [Push(TRUE, 0)!Next]_pushVars
BY DEF Next, Turn, vars, NotDay, NotMirror, NotLimit, NotWizard, NotPicker

LEMMA LimitTurns == ASSUME [Next]_vars PROVE [Limit!Next]_limitVars
BY DEF Next, Turn, vars, NotDay, NotPush, NotMirror, NotWizard, NotPicker

PushInv ==
  /\ under = "push" => SingleInv
  /\ under = "push, steps fail" => PresentInv(MaxPushFaults)
  /\ under = "push, calendars disconnected" => PushTypes(TRUE, 0) /\ RowsKept

LEMMA OneInit ==
  ASSUME Push(FALSE, 0)!Init, NEW f \in Nat
  PROVE  PushTypes(FALSE, f) /\ PushQueue /\ PushPlace /\ Single /\ Present
<1>1. PushTypes(FALSE, f) /\ pushHand.at = "idle" /\ pushGoogle = {} /\ pushRows = {}
  BY PushInit
<1>2. pushActive = {1} /\ pushJobs = <<>> /\ pushBooking.status = "PENDING"
  BY DEF Push!Init
<1>3. Len(pushJobs) = 0
  BY <1>2, EmptySeq
<1>4. PushQueue
  BY <1>2, <1>3 DEF PushQueue
<1>5. PushPlace
  BY <1>1 DEF PushPlace
<1>6. Single
  BY <1>1, <1>2 DEF Single, Between, Nothing
<1>7. Present
  BY <1>1, <1>2 DEF Present
<1> QED
  BY <1>1, <1>4, <1>5, <1>6, <1>7

LEMMA PushInvStarts == Init => PushInv
<1> SUFFICES ASSUME Init PROVE PushInv
  OBVIOUS
<1>1. CASE under = "push, calendars disconnected"
  <2>1. Push(TRUE, 0)!Init
    BY <1>1 DEF Init
  <2>2. PushTypes(TRUE, 0) /\ pushHand.at = "idle" /\ pushGoogle = {}
    BY <2>1, PushInit
  <2> QED
    BY <1>1, <2>2 DEF PushInv, RowsKept
<1>2. CASE under # "push, calendars disconnected"
  <2>1. Push(FALSE, 0)!Init
    BY <1>2 DEF Init
  <2>2. MaxPushFaults \in Nat
    BY PushConstants
  <2> QED
    BY <1>2, <2>1, <2>2, OneInit DEF PushInv, SingleInv, PresentInv
<1> QED
  BY <1>1, <1>2

LEMMA PushInvStep == ASSUME PushInv, [Next]_vars PROVE PushInv'
<1>1. CASE under = "push"
  <2>1. SingleInv /\ [Push(FALSE, 0)!Next]_pushVars
    BY <1>1, PushTurns DEF PushInv
  <2>2. PushTypes(FALSE, 0)' /\ PushQueue' /\ PushPlace' /\ Single'
    BY <2>1, PushTypeStep, QueueStep, PlaceStep, SingleStep DEF SingleInv
  <2> QED
    BY <1>1, <2>2, PushTurns DEF PushInv, SingleInv
<1>2. CASE under = "push, steps fail"
  <2> DEFINE f == MaxPushFaults
  <2>1. f \in Nat /\ PushTypes(FALSE, f) /\ PushQueue /\ PushPlace /\ (Ending \/ Present) /\ [Push(FALSE, f)!Next]_pushVars
    BY <1>2, PushTurns, PushConstants DEF PushInv, PresentInv
  <2>2. PushTypes(FALSE, f)' /\ PushQueue' /\ PushPlace'
    BY <2>1, PushTypeStep, QueueStep, PlaceStep
  <2>3. CASE Ending
    BY <1>2, <2>1, <2>2, <2>3, EndingStays, PushTurns DEF PushInv, PresentInv
  <2>4. CASE ~Ending
    BY <1>2, <2>1, <2>2, <2>4, PresentStep, PushTurns DEF PushInv, PresentInv
  <2> QED
    BY <2>3, <2>4
<1>3. CASE under = "push, calendars disconnected"
  <2>1. PushTypes(TRUE, 0) /\ RowsKept /\ [Push(TRUE, 0)!Next]_pushVars
    BY <1>3, PushTurns DEF PushInv
  <2>2. PushTypes(TRUE, 0)' /\ RowsKept'
    BY <2>1, PushTypeStep, RowsKeptStep
  <2> QED
    BY <1>3, <2>2, PushTurns DEF PushInv
<1> QED
  BY <1>1, <1>2, <1>3, PushTurns DEF PushInv

(* For any times of a booking, any calendars and any number of jobs and of *)
(* steps that fail: once the jobs are done Google has one event of a       *)
(* confirmed booking, at its time, none is missing where steps fail, and   *)
(* no event of a connected calendar lacks its row; and for any requests    *)
(* and any limit, fewer syncs by hand are accepted within the hour than    *)
(* there are ways to choose the requests out of them and the limit.        *)
THEOREM PushedOnceAlways == Spec => []PushedOnce
<1>1. Init => PushInv /\ LimitInv
  BY PushInvStarts, LimitInit DEF Init
<1>2. PushInv /\ LimitInv /\ [Next]_vars => PushInv' /\ LimitInv'
  BY PushInvStep, LimitStep, LimitTurns
<1>3. PushInv /\ LimitInv => PushedOnce
  <2> SUFFICES ASSUME PushInv, LimitInv PROVE PushedOnce
    OBVIOUS
  <2>1. under = "push" => Push(FALSE, 0)!TypeOK /\ Push(FALSE, 0)!MirrorsBooking
    BY PushTypeOK, SingleMirrors DEF PushInv, SingleInv
  <2>2. under = "push, steps fail" => Push(FALSE, MaxPushFaults)!TypeOK /\ Push(FALSE, MaxPushFaults)!NothingIsMissing
    BY PushTypeOK, PresentIsThere, PushConstants DEF PushInv, PresentInv
  <2>3. under = "push, calendars disconnected" => Push(TRUE, 0)!TypeOK /\ Push(TRUE, 0)!EventsHaveRows
    BY PushTypeOK, RowsAreThere DEF PushInv
  <2>4. Limit!TypeOK /\ Limit!AcceptedBounded
    BY LimitHolds
  <2> QED
    BY <2>1, <2>2, <2>3, <2>4 DEF PushedOnce
<1> QED
  BY <1>1, <1>2, <1>3, PTL DEF Spec
-----------------------------------------------------------------------------
(* The slots of a day.  Slots are cut from a rule at equal distances, and   *)
(* what is taken lies on them.                                             *)
RulesMoving == "day, rules move"

DayWindows(moving) == IF moving THEN Windows3 ELSE Windows1
Lead(moving)  == IF moving THEN SlotAfter ELSE SlotBefore
Distance      == SlotBefore + SlotLength + SlotAfter

CutFrom(r, moving, start, end) ==
  \E k \in Nat : start = r.from + k * Distance + Lead(moving) /\ end = start + SlotLength /\ end <= r.to
Cut(moving, start, end) == \E r \in DayWindows(moving) : CutFrom(r, moving, start, end)

DayInv(moving) ==
  /\ Day(moving)!TypeOK
  /\ \A s \in dayPage.slots : Cut(moving, s.start, s.end)

TakenApart ==
  /\ \A b \in dayBusy : b.kind # "calendar" => Cut(FALSE, b.start, b.end)
  /\ \A a, b \in dayBusy : /\ a.kind # "calendar" /\ b.kind # "calendar" /\ a # b /\ a.staff = b.staff
                           => a.end <= b.start \/ b.end <= a.start

LEMMA DayConstants ==
  /\ {DayLength, SlotBefore, SlotAfter, MaxDayBusy} \subseteq Nat /\ SlotLength \in Nat \ {0}
  /\ None \notin DayStaff \cup MovesStaff
  /\ \A moving \in BOOLEAN : DayWindows(moving) \subseteq
       [from: 0 .. DayLength, to: 0 .. DayLength, venue: {None}, own: BOOLEAN]
  /\ Distance \in Nat /\ \A moving \in BOOLEAN : Lead(moving) \in Nat
<1>1. /\ {DayLength, SlotBefore, SlotAfter, MaxDayBusy} \subseteq Nat /\ SlotLength \in Nat \ {0}
      /\ None \notin DayStaff \cup MovesStaff
  BY ScheduleAssumption DEF Day!AvailabilityAssumption
<1>2. \A moving \in BOOLEAN : DayWindows(moving) \subseteq
        [from: 0 .. DayLength, to: 0 .. DayLength, venue: {None}, own: BOOLEAN]
  BY ScheduleAssumption DEF Day!AvailabilityAssumption, DayWindows
<1> QED
  BY <1>1, <1>2 DEF Distance, Lead

(* Of two different multiples the larger is at least one more.             *)
LEMMA Multiples ==
  ASSUME NEW d \in Nat, NEW k \in Nat, NEW j \in Nat, k < j
  PROVE  k * d + d <= j * d
<1>1. PICK n \in Nat : j = k + 1 + n
  <2>1. j - (k + 1) \in Nat /\ j = k + 1 + (j - (k + 1))
    OBVIOUS
  <2> QED
    BY <2>1
<1>2. j * d = k * d + d + n * d
  BY <1>1
<1>3. n * d \in Nat /\ k * d \in Nat
  BY Product
<1> QED
  BY <1>2, <1>3

(* getAvailableSlots offers what is cut from a rule and meets nothing.     *)
LEMMA OfferedIsCut ==
  ASSUME NEW moving \in BOOLEAN, Day(moving)!TypeOK, NEW m, NEW s \in Day(moving)!Offered(None, m)
  PROVE  /\ dayBlocked = FALSE /\ s \in Day(moving)!Slot
         /\ \E r \in Day(moving)!RulesFor(None) : CutFrom(r, moving, s.start, s.end)
         /\ \A b \in Day(moving)!Conflicts(None, m) : ~Day(moving)!Meets(s, b)
<1>1. /\ dayBlocked = FALSE /\ \A b \in Day(moving)!Conflicts(None, m) : ~Day(moving)!Meets(s, b)
  BY DEF Day!Offered, Day!TypeOK
<1>2. PICK r \in Day(moving)!RulesFor(None) : s \in Day(moving)!generateSlotsForWindow(r)
  BY DEF Day!Offered, Day!TypeOK
<1>3. r \in DayWindows(moving)
  BY <1>2 DEF Day!RulesFor, Day!TypeOK, DayWindows
<1>4. r.from \in 0 .. DayLength /\ r.to \in 0 .. DayLength
  BY <1>3, DayConstants
<1> DEFINE before == Lead(moving)
           step == before + SlotLength + (IF moving THEN SlotBefore ELSE SlotAfter)
<1>5. PICK k \in 0 .. DayLength :
         /\ s = [start |-> r.from + k * step + before, end |-> r.from + k * step + before + SlotLength]
         /\ r.from + k * step + before + SlotLength <= r.to
  BY <1>2 DEF Day!generateSlotsForWindow, Lead
<1>6. step = Distance /\ before \in Nat /\ SlotLength \in Nat /\ DayLength \in Nat
  BY DayConstants DEF Lead, Distance
<1>7. k \in Nat /\ k * step \in Nat
  BY <1>6, Product, DayConstants
<1> HIDE DEF before, step
<1>8. s.start = r.from + k * step + before /\ s.end = s.start + SlotLength /\ s.end <= r.to
  BY <1>4, <1>5, <1>6, <1>7
<1>9. CutFrom(r, moving, s.start, s.end)
  BY <1>6, <1>7, <1>8 DEF CutFrom, before
<1>10. s.start \in 0 .. DayLength /\ s.end \in 0 .. DayLength
  BY <1>4, <1>6, <1>7, <1>8, DayConstants
<1>11. s \in Day(moving)!Slot
  BY <1>5, <1>6, <1>10 DEF Day!Slot, before, Lead
<1> QED
  BY <1>1, <1>2, <1>9, <1>11

LEMMA RulesAreWindows ==
  ASSUME NEW moving \in BOOLEAN, Day(moving)!TypeOK
  PROVE  Day(moving)!RulesFor(None) \subseteq DayWindows(moving)
BY DEF Day!RulesFor, Day!TypeOK, DayWindows

LEMMA CutIsInDay ==
  ASSUME NEW moving \in BOOLEAN, NEW start \in Nat, NEW end \in Nat, Cut(moving, start, end)
  PROVE  start \in 0 .. DayLength /\ end \in 0 .. DayLength /\ start < end
<1>1. PICK r \in DayWindows(moving) : CutFrom(r, moving, start, end)
  BY DEF Cut
<1>2. r.from \in 0 .. DayLength /\ r.to \in 0 .. DayLength
  BY DayConstants
<1> QED
  BY <1>1, <1>2, DayConstants DEF CutFrom

(* Two slots of one rule are the same, or a distance apart.                *)
LEMMA CutsApart ==
  ASSUME NEW moving \in BOOLEAN, NEW r \in DayWindows(moving), NEW a \in Nat, NEW b \in Nat, NEW e \in Nat, NEW f \in Nat,
         CutFrom(r, moving, a, e), CutFrom(r, moving, b, f)
  PROVE  (a = b /\ e = f) \/ a + Distance <= b \/ b + Distance <= a
<1>1. PICK k \in Nat : a = r.from + k * Distance + Lead(moving) /\ e = a + SlotLength
  BY DEF CutFrom
<1>2. PICK j \in Nat : b = r.from + j * Distance + Lead(moving) /\ f = b + SlotLength
  BY DEF CutFrom
<1>3. r.from \in Nat /\ Lead(moving) \in Nat /\ Distance \in Nat
  BY DayConstants
<1>4. k * Distance \in Nat /\ j * Distance \in Nat
  BY <1>3, Product
<1>5. CASE k = j
  BY <1>1, <1>2, <1>5
<1>6. CASE k < j
  <2>1. k * Distance + Distance <= j * Distance
    BY <1>3, <1>6, Multiples
  <2> QED
    BY <1>1, <1>2, <1>3, <1>4, <2>1
<1>7. CASE j < k
  <2>1. j * Distance + Distance <= k * Distance
    BY <1>3, <1>7, Multiples
  <2> QED
    BY <1>1, <1>2, <1>3, <1>4, <2>1
<1> QED
  BY <1>5, <1>6, <1>7

LEMMA DayStep ==
  ASSUME NEW moving \in BOOLEAN, DayInv(moving), [Day(moving)!Next]_dayVars
  PROVE  DayInv(moving)'
<1> DEFINE Staff == IF moving THEN MovesStaff ELSE DayStaff
           B == [kind: {"booking", "hold", "calendar"}, start: 0 .. DayLength, end: 0 .. DayLength,
                 venue: {None}, staff: Staff \cup {None}]
<1>1. /\ dayRules \subseteq DayWindows(moving) /\ dayBlocked \in BOOLEAN /\ dayBusy \subseteq B
      /\ dayPage.venue = None /\ dayPage.staff \in Staff \cup {None} /\ dayPage.slots \subseteq Day(moving)!Slot
      /\ \A s \in dayPage.slots : Cut(moving, s.start, s.end)
  BY DEF DayInv, Day!TypeOK, DayWindows, Day!Kinds
<1> SUFFICES /\ dayRules' \subseteq DayWindows(moving) /\ dayBlocked' \in BOOLEAN /\ dayBusy' \subseteq B
             /\ dayPage'.venue = None /\ dayPage'.staff \in Staff \cup {None} /\ dayPage'.slots \subseteq Day(moving)!Slot
             /\ \A s \in dayPage'.slots : Cut(moving, s.start, s.end)
  BY DEF DayInv, Day!TypeOK, DayWindows, Day!Kinds, Cut, Day!Slot, CutFrom
<1>2. CASE UNCHANGED dayVars
  BY <1>1, <1>2 DEF dayVars
<1>3. ASSUME NEW m \in Staff \cup {None}, Day(moving)!Load(None, m)
      PROVE  /\ UNCHANGED <<dayRules, dayBlocked, dayBusy>>
             /\ dayPage'.venue = None /\ dayPage'.staff \in Staff \cup {None} /\ dayPage'.slots \subseteq Day(moving)!Slot
             /\ \A s \in dayPage'.slots : Cut(moving, s.start, s.end)
  <2>1. dayPage' = [venue |-> None, staff |-> m, slots |-> Day(moving)!Offered(None, m)]
    BY <1>3 DEF Day!Load
  <2>2. \A s \in Day(moving)!Offered(None, m) : s \in Day(moving)!Slot /\ Cut(moving, s.start, s.end)
    BY OfferedIsCut, RulesAreWindows DEF DayInv, Cut
  <2> QED
    BY <1>3, <2>1, <2>2 DEF Day!Load
<1>4. ASSUME NEW s \in dayPage.slots, Day(moving)!reserveSlot(s)
      PROVE  dayBusy' \subseteq B /\ UNCHANGED <<dayRules, dayBlocked, dayPage>>
  <2>1. s.start \in Nat /\ s.end \in Nat /\ Cut(moving, s.start, s.end)
    BY <1>1 DEF Day!Slot
  <2>2. s.start \in 0 .. DayLength /\ s.end \in 0 .. DayLength
    BY <2>1, CutIsInDay
  <2> QED
    BY <1>1, <1>4, <2>2 DEF Day!reserveSlot
<1>5. ASSUME NEW b \in dayBusy, Day(moving)!Confirm(b) \/ Day(moving)!Release(b)
      PROVE  dayBusy' \subseteq B /\ UNCHANGED <<dayRules, dayBlocked, dayPage>>
  BY <1>1, <1>5 DEF Day!Confirm, Day!Release
<1>6. ASSUME NEW s \in 0 .. DayLength, NEW e \in 0 .. DayLength, NEW m \in Staff, Day(moving)!Import(s, e, m)
      PROVE  dayBusy' \subseteq B /\ UNCHANGED <<dayRules, dayBlocked, dayPage>>
  BY <1>1, <1>6 DEF Day!Import
<1>7. ASSUME NEW r \in DayWindows(moving), Day(moving)!ChangeRule(r)
      PROVE  dayRules' \subseteq DayWindows(moving) /\ UNCHANGED <<dayBlocked, dayBusy, dayPage>>
  BY <1>1, <1>7 DEF Day!ChangeRule
<1>8. CASE Day(moving)!Block
  BY <1>1, <1>8 DEF Day!Block
<1> QED
  BY <1>1, <1>2, <1>3, <1>4, <1>5, <1>6, <1>7, <1>8 DEF Day!Next, DayWindows

LEMMA DayTyped ==
  ASSUME NEW moving \in BOOLEAN, DayInv(moving)
  PROVE  /\ \A s \in dayPage.slots : s.start \in Nat /\ s.end \in Nat /\ Cut(moving, s.start, s.end)
         /\ \A b \in dayBusy : b.start \in Nat /\ b.end \in Nat
BY DEF DayInv, Day!TypeOK, Day!Slot

(* A hold is made only where nothing taken for its member is in the way.   *)
LEMMA ApartStep ==
  ASSUME DayInv(FALSE), TakenApart, [Day(FALSE)!Next]_dayVars
  PROVE  TakenApart'
<1> DEFINE Taken(b) == b.kind # "calendar"
           Apart(a, b) == a.end <= b.start \/ b.end <= a.start
<1>1. CASE UNCHANGED dayVars
  BY <1>1 DEF dayVars, TakenApart, Cut, CutFrom
<1>2. ASSUME NEW s \in dayPage.slots, Day(FALSE)!reserveSlot(s) PROVE TakenApart'
  <2> DEFINE h == [kind |-> "hold", start |-> s.start, end |-> s.end, venue |-> dayPage.venue, staff |-> dayPage.staff]
  <2>1. dayBusy' = dayBusy \cup {h} /\ \A b \in dayBusy : Taken(b) /\ b.staff = dayPage.staff => ~Day(FALSE)!Meets(s, b)
    BY <1>2 DEF Day!reserveSlot, Day!CanHold
  <2>2. s.start \in Nat /\ s.end \in Nat /\ Cut(FALSE, s.start, s.end)
    BY DayTyped
  <2>3. \A b \in dayBusy : b.start \in Nat /\ b.end \in Nat
    BY DayTyped
  <2>4. h.start = s.start /\ h.end = s.end /\ h.staff = dayPage.staff /\ Taken(h)
    OBVIOUS
  <2>5. \A b \in dayBusy : Taken(b) /\ b.staff = h.staff => Apart(h, b)
    BY <2>1, <2>2, <2>3, <2>4 DEF Day!Meets
  <2> HIDE DEF h
  <2>6. \A b \in dayBusy' : Taken(b) => Cut(FALSE, b.start, b.end)
    BY <2>1, <2>2, <2>4 DEF TakenApart
  <2>7. \A a, b \in dayBusy' : Taken(a) /\ Taken(b) /\ a # b /\ a.staff = b.staff => Apart(a, b)
    BY <2>1, <2>5 DEF TakenApart
  <2> QED
    BY <2>6, <2>7 DEF TakenApart, Cut, CutFrom
<1>3. ASSUME NEW b \in dayBusy, Day(FALSE)!Confirm(b) PROVE TakenApart'
  <2> DEFINE c == [b EXCEPT !.kind = "booking"]
  <2>1. dayBusy' = (dayBusy \ {b}) \cup {c} /\ Taken(b)
    BY <1>3 DEF Day!Confirm
  <2>2. c.start = b.start /\ c.end = b.end /\ c.staff = b.staff
    BY DEF DayInv, Day!TypeOK
  <2> HIDE DEF c
  <2>3. \A d \in dayBusy' : Taken(d) => Cut(FALSE, d.start, d.end)
    BY <2>1, <2>2 DEF TakenApart
  <2>4. \A a \in dayBusy \ {b} : Taken(a) /\ a.staff = c.staff => Apart(a, c)
    BY <2>1, <2>2 DEF TakenApart
  <2>5. \A a, d \in dayBusy' : Taken(a) /\ Taken(d) /\ a # d /\ a.staff = d.staff => Apart(a, d)
    BY <2>1, <2>4 DEF TakenApart
  <2> QED
    BY <2>3, <2>5 DEF TakenApart, Cut, CutFrom
<1>4. ASSUME \A b \in dayBusy' : b \in dayBusy \/ ~Taken(b) PROVE TakenApart'
  BY <1>4 DEF TakenApart, Cut, CutFrom
<1>5. ASSUME NEW b \in dayBusy, Day(FALSE)!Release(b) PROVE TakenApart'
  BY <1>4, <1>5 DEF Day!Release
<1>6. ASSUME NEW s, NEW e, NEW m, Day(FALSE)!Import(s, e, m) PROVE TakenApart'
  BY <1>4, <1>6 DEF Day!Import
<1>7. ASSUME dayBusy' = dayBusy PROVE TakenApart'
  BY <1>4, <1>7
<1> QED
  BY <1>1, <1>2, <1>3, <1>5, <1>6, <1>7
  DEF Day!Next, Day!Load, Day!ChangeRule, Day!Block

(* Two slots taken for one member lie on one rule and apart, so a distance *)
(* apart.                                                                  *)
LEMMA BuffersAreKept == ASSUME DayInv(FALSE), TakenApart PROVE Day(FALSE)!BuffersKept
<1> SUFFICES ASSUME NEW a \in dayBusy, NEW b \in dayBusy, a.kind # "calendar", b.kind # "calendar",
                    a # b, a.staff = b.staff, a.start <= b.start
             PROVE  a.end + SlotAfter + SlotBefore <= b.start
  BY DEF Day!BuffersKept, Day!Taken
<1>1. a.start \in Nat /\ a.end \in Nat /\ b.start \in Nat /\ b.end \in Nat
  BY DayTyped
<1>2. Cut(FALSE, a.start, a.end) /\ Cut(FALSE, b.start, b.end) /\ (a.end <= b.start \/ b.end <= a.start)
  BY DEF TakenApart
<1>3. a.start < a.end /\ b.start < b.end
  BY <1>1, <1>2, CutIsInDay
<1>4. \A r, q \in DayWindows(FALSE) : r = q
  BY DEF DayWindows, Windows1
<1>5. PICK r \in DayWindows(FALSE) : CutFrom(r, FALSE, a.start, a.end) /\ CutFrom(r, FALSE, b.start, b.end)
  BY <1>2, <1>4 DEF Cut
<1>6. a.start + Distance <= b.start
  <2>1. (a.start = b.start /\ a.end = b.end) \/ a.start + Distance <= b.start \/ b.start + Distance <= a.start
    BY <1>1, <1>5, CutsApart
  <2> QED
    BY <1>1, <1>2, <1>3, <2>1, DayConstants DEF Distance
<1>7. a.end = a.start + SlotLength
  BY <1>5 DEF CutFrom
<1> QED
  BY <1>1, <1>6, <1>7, DayConstants DEF Distance

(* Who asks for availability asks for all that reserveSlot will look at.   *)
LEMMA OfferedIsHeld == ASSUME NEW moving \in BOOLEAN, DayInv(moving) PROVE Day(moving)!OfferedCanBeHeld
<1> SUFFICES ASSUME NEW m, NEW s \in Day(moving)!Offered(None, m) PROVE Day(moving)!CanHold(s, m)
  BY DEF Day!OfferedCanBeHeld
<1>1. \A b \in Day(moving)!Conflicts(None, m) : ~Day(moving)!Meets(s, b)
  BY OfferedIsCut DEF DayInv
<1> QED
  BY <1>1 DEF Day!CanHold, Day!Conflicts

LEMMA DayTurns ==
  ASSUME [Next]_vars
  PROVE  /\ under' = under
         /\ under = "day" => [Day(FALSE)!Next]_dayVars
         /\ under = RulesMoving => [Day(TRUE)!Next]_dayVars
BY DEF Next, Turn, vars, RulesMoving, NotPush, NotMirror, NotLimit, NotWizard, NotPicker

LEMMA DayInit == ASSUME NEW moving \in BOOLEAN, Day(moving)!Init PROVE DayInv(moving) /\ TakenApart
BY DEF Day!Init, DayInv, Day!TypeOK, Day!Empty, TakenApart

(* For any day, any length of a slot, any buffers and any members: a slot  *)
(* that is offered can be held at that moment, and between two that are    *)
(* taken for one member the service's buffers lie.                         *)
THEOREM OfferedStaysHeld == Spec => []OfferedCanBeHeld
<1> DEFINE Inv == under = "day" => DayInv(FALSE) /\ TakenApart
<1>1. Init => Inv
  BY DayInit DEF Init
<1>2. Inv /\ [Next]_vars => Inv'
  <2> SUFFICES ASSUME Inv, [Next]_vars, under = "day" PROVE (DayInv(FALSE) /\ TakenApart)'
    BY DayTurns
  <2>1. DayInv(FALSE) /\ TakenApart /\ [Day(FALSE)!Next]_dayVars
    BY DayTurns
  <2> QED
    BY <2>1, DayStep, ApartStep
<1>3. Inv => OfferedCanBeHeld
  BY BuffersAreKept, OfferedIsHeld DEF OfferedCanBeHeld, DayInv
<1> QED
  BY <1>1, <1>2, <1>3, PTL DEF Spec

LEMMA WindowsInDay == \A r \in Windows3 : r.from \in Nat /\ r.to \in Nat
<1>1. PICK moving \in BOOLEAN : moving = TRUE
  OBVIOUS
<1>2. DayWindows(moving) = Windows3
  BY <1>1 DEF DayWindows
<1>3. \A r \in DayWindows(moving) : r.from \in 0 .. DayLength /\ r.to \in 0 .. DayLength
  BY DayConstants
<1> QED
  BY <1>2, <1>3, DayConstants

(* Rules of one owner do not overlap, so their slots do not.               *)
LEMMA WindowsApart ==
  ASSUME NEW r \in Windows3, NEW q \in Windows3, r.own <=> q.own
  PROVE  r = q \/ r.to <= q.from \/ q.to <= r.from
<1>1. Rule(0, DayNoon, FALSE) \in Windows3
  BY DEF Windows3
<1>2. DayNoon \in Nat
  BY <1>1, WindowsInDay DEF Rule
<1> DEFINE early == Rule(0, DayNoon, FALSE)
           late  == Rule(DayNoon, DayLength, FALSE)
           whole == Rule(1, DayLength, TRUE)
<1>3. early.to = DayNoon /\ late.from = DayNoon
  BY DEF Rule
<1>4. early.own = FALSE /\ late.own = FALSE /\ whole.own = TRUE
  BY Zenon DEF Rule
<1>5. r \in {early, late, whole} /\ q \in {early, late, whole}
  BY DEF Windows3
<1> HIDE DEF early, late, whole
<1>6. r = q \/ (r = early /\ q = late) \/ (q = early /\ r = late)
  BY <1>4, <1>5, Zenon
<1> QED
  BY <1>2, <1>3, <1>6

LEMMA OfferedLieApart == ASSUME DayInv(TRUE) PROVE Day(TRUE)!OfferedApart
<1> SUFFICES ASSUME NEW s \in Day(TRUE)!Offered(None, None), NEW t \in Day(TRUE)!Offered(None, None), s # t
             PROVE  ~Day(TRUE)!Meets(s, t)
  BY DEF Day!OfferedApart
<1>1. s \in Day(TRUE)!Slot /\ t \in Day(TRUE)!Slot
  BY OfferedIsCut DEF DayInv
<1>2. s.start \in Nat /\ s.end \in Nat /\ t.start \in Nat /\ t.end \in Nat
  BY <1>1 DEF Day!Slot
<1>3. s.start # t.start \/ s.end # t.end
  BY <1>1 DEF Day!Slot
<1>4. PICK r \in Day(TRUE)!RulesFor(None) : CutFrom(r, TRUE, s.start, s.end)
  BY OfferedIsCut DEF DayInv
<1>5. PICK q \in Day(TRUE)!RulesFor(None) : CutFrom(q, TRUE, t.start, t.end)
  BY OfferedIsCut DEF DayInv
<1>6. r \in Windows3 /\ q \in Windows3
  BY RulesAreWindows DEF DayInv, DayWindows
<1>7. r.own <=> q.own
  <2> DEFINE Owned == {w \in dayRules : w.own /\ (None # None => w.venue = None)}
  <2>1. \A w \in Day(TRUE)!RulesFor(None) : w.own <=> Owned # {}
    BY DEF Day!RulesFor
  <2> QED
    BY <2>1, Zenon
<1>8. r.from \in Nat /\ r.to \in Nat /\ q.from \in Nat /\ q.to \in Nat
  BY <1>6, WindowsInDay
<1>9. /\ r.from <= s.start /\ s.end = s.start + SlotLength /\ s.end <= r.to
      /\ q.from <= t.start /\ t.end = t.start + SlotLength /\ t.end <= q.to
  <2>1. Distance \in Nat /\ SlotAfter \in Nat
    BY DayConstants
  <2>2. PICK k \in Nat : s.start = r.from + k * Distance + SlotAfter /\ s.end = s.start + SlotLength /\ s.end <= r.to
    BY <1>4 DEF CutFrom, Lead
  <2>3. PICK j \in Nat : t.start = q.from + j * Distance + SlotAfter /\ t.end = t.start + SlotLength /\ t.end <= q.to
    BY <1>5 DEF CutFrom, Lead
  <2>4. k * Distance \in Nat /\ j * Distance \in Nat
    BY <2>1, Product
  <2> QED
    BY <1>8, <2>1, <2>2, <2>3, <2>4
<1>10. CASE r = q
  <2>1. s.start + Distance <= t.start \/ t.start + Distance <= s.start
    BY <1>2, <1>3, <1>4, <1>5, <1>6, <1>10, CutsApart DEF DayWindows
  <2> QED
    BY <1>2, <1>9, <2>1, DayConstants DEF Day!Meets, Distance
<1>11. CASE r.to <= q.from \/ q.to <= r.from
  BY <1>2, <1>8, <1>9, <1>11 DEF Day!Meets
<1> QED
  BY <1>6, <1>7, <1>10, <1>11, WindowsApart

(* A client who sees the page as it is now holds only what is offered.     *)
LEMMA HeldIsOpen ==
  ASSUME DayInv(TRUE), [Day(TRUE)!Next]_dayVars
  PROVE  Day(TRUE)!ClearOfEvents /\ Day(TRUE)!OnOpenDate
<1>1. ASSUME NEW s \in dayPage.slots, Day(TRUE)!reserveSlot(s)
      PROVE  Day(TRUE)!ClearOfEvents /\ Day(TRUE)!OnOpenDate
  <2> DEFINE h == [kind |-> "hold", start |-> s.start, end |-> s.end, venue |-> dayPage.venue, staff |-> dayPage.staff]
  <2>1. dayBusy' = dayBusy \cup {h} /\ s \in Day(TRUE)!Offered(dayPage.venue, dayPage.staff)
    BY <1>1 DEF Day!reserveSlot
  <2>2. s \in Day(TRUE)!Offered(None, dayPage.staff)
    BY <2>1 DEF DayInv, Day!TypeOK
  <2>3. dayBlocked = FALSE /\ \A b \in Day(TRUE)!Conflicts(None, dayPage.staff) : ~Day(TRUE)!Meets(s, b)
    BY <2>2, OfferedIsCut DEF DayInv
  <2>4. h.start = s.start /\ h.end = s.end /\ h.staff = dayPage.staff
    OBVIOUS
  <2> HIDE DEF h
  <2>5. \A e \in dayBusy : e.kind = "calendar" /\ (h.staff # None => e.staff = h.staff) => ~Day(TRUE)!Meets(h, e)
    BY <2>3, <2>4 DEF Day!Conflicts, Day!Meets
  <2> QED
    BY <2>1, <2>3, <2>5 DEF Day!ClearOfEvents, Day!OnOpenDate
<1>2. ASSUME \A b \in dayBusy' \ dayBusy : b.kind # "hold" PROVE Day(TRUE)!ClearOfEvents /\ Day(TRUE)!OnOpenDate
  BY <1>2 DEF Day!ClearOfEvents, Day!OnOpenDate
<1>3. ASSUME NEW b \in dayBusy, Day(TRUE)!Confirm(b) PROVE \A c \in dayBusy' \ dayBusy : c.kind # "hold"
  <2>1. "kind" \in DOMAIN b
    BY DEF DayInv, Day!TypeOK
  <2> QED
    BY <1>3, <2>1 DEF Day!Confirm
<1>4. ASSUME NEW s, NEW e, NEW m, Day(TRUE)!Import(s, e, m) PROVE \A c \in dayBusy' \ dayBusy : c.kind # "hold"
  BY <1>4 DEF Day!Import
<1>5. ASSUME dayBusy' \subseteq dayBusy PROVE \A c \in dayBusy' \ dayBusy : c.kind # "hold"
  BY <1>5
<1> QED
  BY <1>1, <1>2, <1>3, <1>4, <1>5
  DEF Day!Next, Day!Load, Day!Release, Day!ChangeRule, Day!Block, dayVars

(* For any day with two rules of the tenant that touch and one of the      *)
(* service, which come and go, any service and any members: the slots      *)
(* offered at once do not meet, and none is held over an event of an       *)
(* external calendar or on a blocked date, while clients choose from a     *)
(* page that is new.                                                       *)
THEOREM HeldStaysOpen == Spec => HeldWhereOpen
<1> DEFINE Inv == under = RulesMoving => DayInv(TRUE)
<1>1. Init => Inv
  BY DayInit DEF Init, RulesMoving
<1>2. Inv /\ [Next]_vars => Inv'
  <2> SUFFICES ASSUME Inv, [Next]_vars, under = RulesMoving PROVE DayInv(TRUE)'
    BY DayTurns
  <2>1. DayInv(TRUE) /\ [Day(TRUE)!Next]_dayVars
    BY DayTurns
  <2> QED
    BY <2>1, DayStep
<1>3. Inv => (under = "day, rules move" => Day(TRUE)!TypeOK /\ Day(TRUE)!OfferedApart)
  BY OfferedLieApart DEF DayInv, RulesMoving
<1>4. Inv /\ [Next]_vars =>
        [under = "day, rules move" => Day(TRUE)!ClearOfEvents /\ Day(TRUE)!OnOpenDate]_vars
  BY DayTurns, HeldIsOpen DEF RulesMoving
<1> QED
  BY <1>1, <1>2, <1>3, <1>4, PTL DEF Spec, HeldWhereOpen
-----------------------------------------------------------------------------
(* The booking wizard.  The steps of a service: some that not every one    *)
(* has, the picker, and what comes after it.                               *)
WizardSteps == Wizard(TRUE, TRUE)!steps
LastStep    == Len(WizardSteps)
PickerStepNo == Len(Wizard(TRUE, TRUE)!stepsBefore(wizardFlow)) + 1
FirstTypes  == {"STAFF_SELECTION", "VENUE_SELECTION", "GUEST_COUNT", "QUESTIONNAIRE", "ADD_ONS"}
LaterTypes  == {"PRICING_SUMMARY", "CLIENT_INFO", "PAYMENT", "CONFIRMATION"}
AFlow       == [has: SUBSET FirstTypes, paid: BOOLEAN, preview: BOOLEAN]

LEMMA ShortSeqs == ASSUME NEW S PROVE <<>> \in Seq(S) /\ \A t \in S : <<t>> \in Seq(S) /\ Len(<<t>>) = 1
OBVIOUS

LEMMA FirstSteps ==
  ASSUME NEW f \in AFlow
  PROVE  Wizard(TRUE, TRUE)!stepsBefore(f) \in Seq(f.has)
<1> DEFINE Has(t) == IF t \in f.has THEN <<t>> ELSE <<>>
<1>1. \A t : Has(t) \in Seq(f.has)
  <2>1. <<>> \in Seq(f.has) /\ \A t \in f.has : <<t>> \in Seq(f.has)
    BY ShortSeqs
  <2> QED
    BY <2>1
<1>2. \A s, t \in Seq(f.has) : s \o t \in Seq(f.has)
  OBVIOUS
<1>3. Wizard(TRUE, TRUE)!stepsBefore(f) =
        Has("STAFF_SELECTION") \o Has("VENUE_SELECTION") \o Has("GUEST_COUNT") \o Has("QUESTIONNAIRE") \o Has("ADD_ONS")
  BY DEF Wizard!stepsBefore, Wizard!IfHas
<1> HIDE DEF Has
<1> DEFINE two   == Has("STAFF_SELECTION") \o Has("VENUE_SELECTION")
           three == two \o Has("GUEST_COUNT")
           four  == three \o Has("QUESTIONNAIRE")
<1>4. two \in Seq(f.has)
  BY <1>1, <1>2
<1> HIDE DEF two
<1>5. three \in Seq(f.has)
  BY <1>1, <1>2, <1>4
<1> HIDE DEF three
<1>6. four \in Seq(f.has)
  BY <1>1, <1>2, <1>5
<1> HIDE DEF four
<1>7. four \o Has("ADD_ONS") \in Seq(f.has)
  BY <1>1, <1>2, <1>6
<1> QED
  BY <1>3, <1>7 DEF two, three, four

LateFrom(s, n) == \A i \in 1 .. Len(s) : i > n => s[i] \in LaterTypes

LEMMA LaterSteps ==
  ASSUME NEW S, LaterTypes \subseteq S, NEW n \in Nat, NEW s \in Seq(S), n <= Len(s), NEW t \in Seq(LaterTypes),
         LateFrom(s, n)
  PROVE  /\ s \o t \in Seq(S) /\ Len(s \o t) = Len(s) + Len(t)
         /\ \A i \in 1 .. Len(s) : (s \o t)[i] = s[i]
         /\ LateFrom(s \o t, n)
<1>1. s \in Seq(S) /\ t \in Seq(S)
  OBVIOUS
<1>2. /\ s \o t \in Seq(S) /\ Len(s \o t) = Len(s) + Len(t)
      /\ \A i \in 1 .. Len(s) + Len(t) : (s \o t)[i] = IF i <= Len(s) THEN s[i] ELSE t[i - Len(s)]
  BY <1>1
<1>3. \A i \in 1 .. Len(t) : t[i] \in LaterTypes
  OBVIOUS
<1> QED
  BY <1>2, <1>3 DEF LateFrom

(* The picker is one step, and all that a service may lack is before it,   *)
(* except for the payment.                                                 *)
LEMMA StepsAre ==
  ASSUME wizardFlow \in AFlow
  PROVE  /\ LastStep \in Nat /\ PickerStepNo \in 1 .. LastStep - 1
         /\ \A i \in 1 .. LastStep : /\ i < PickerStepNo => WizardSteps[i] \in wizardFlow.has
                                     /\ i = PickerStepNo => WizardSteps[i] = "DATE_TIME_PICKER"
                                     /\ i > PickerStepNo => WizardSteps[i] \in LaterTypes
<1> DEFINE b == Wizard(TRUE, TRUE)!stepsBefore(wizardFlow)
           S == wizardFlow.has
           T == S \cup {"DATE_TIME_PICKER"} \cup LaterTypes
           middle == <<"DATE_TIME_PICKER", "PRICING_SUMMARY", "CLIENT_INFO">>
           pay == IF wizardFlow.paid THEN <<"PAYMENT">> ELSE <<>>
           end == <<"CONFIRMATION">>
<1>0. b \in Seq(S)
  BY FirstSteps
<1>1. S \subseteq T /\ LaterTypes \subseteq T
  OBVIOUS
<1>2. WizardSteps = ((b \o middle) \o pay) \o end
  BY DEF WizardSteps, Wizard!steps, Wizard!resolveSteps, Wizard!IfPaid
<1>3. PickerStepNo = Len(b) + 1
  BY DEF PickerStepNo
<1>4. /\ middle \in Seq(T) /\ Len(middle) = 3
      /\ middle[1] = "DATE_TIME_PICKER" /\ middle[2] \in LaterTypes /\ middle[3] \in LaterTypes
      /\ pay \in Seq(LaterTypes) /\ end \in Seq(LaterTypes) /\ Len(end) = 1
  <2>1. {"PRICING_SUMMARY", "CLIENT_INFO", "PAYMENT", "CONFIRMATION"} \subseteq LaterTypes
    BY DEF LaterTypes
  <2>2. middle \in Seq(T) /\ Len(middle) = 3
    BY <2>1
  <2>3. <<>> \in Seq(LaterTypes) /\ \A t \in LaterTypes : <<t>> \in Seq(LaterTypes) /\ Len(<<t>>) = 1
    BY ShortSeqs
  <2>4. pay \in Seq(LaterTypes) /\ end \in Seq(LaterTypes) /\ Len(end) = 1
    BY <2>1, <2>3
  <2> QED
    BY <2>1, <2>2, <2>4
<1>5. Len(b) \in Nat /\ \A i \in 1 .. Len(b) : b[i] \in S
  BY <1>0, ElementOfSeq, LenProperties
<1> HIDE DEF b, S, T, middle, pay, end
<1> DEFINE n == Len(b) + 1
           s1 == b \o middle
           s2 == s1 \o pay
           s3 == s2 \o end
<1>6. /\ s1 \in Seq(T) /\ Len(s1) = Len(b) + 3
      /\ \A i \in 1 .. Len(b) : s1[i] = b[i]
      /\ s1[n] = "DATE_TIME_PICKER" /\ LateFrom(s1, n)
  <2>1. b \in Seq(T)
    BY <1>0, <1>1
  <2>2. /\ s1 \in Seq(T) /\ Len(s1) = Len(b) + Len(middle)
        /\ \A i \in 1 .. Len(b) + Len(middle) : s1[i] = IF i <= Len(b) THEN b[i] ELSE middle[i - Len(b)]
    BY <1>4, <2>1, ConcatProperties
  <2> QED
    BY <1>4, <1>5, <2>2 DEF LateFrom
<1> HIDE DEF s1
<1>8. n \in Nat /\ n <= Len(s1)
  BY <1>5, <1>6
<1> HIDE DEF n
<1>9. /\ s2 \in Seq(T) /\ Len(s2) = Len(s1) + Len(pay) /\ \A i \in 1 .. Len(s1) : s2[i] = s1[i]
      /\ LateFrom(s2, n)
  <2>1. LaterTypes \subseteq T /\ n \in Nat /\ s1 \in Seq(T) /\ n <= Len(s1) /\ pay \in Seq(LaterTypes) /\ LateFrom(s1, n)
    BY <1>1, <1>4, <1>6, <1>8
  <2> QED
    BY <2>1, LaterSteps
<1>10. Len(pay) \in Nat
  BY <1>4
<1> HIDE DEF s2
<1>11. n <= Len(s2)
  BY <1>8, <1>9, <1>10
<1>12. /\ s3 \in Seq(T) /\ Len(s3) = Len(s2) + Len(end) /\ \A i \in 1 .. Len(s2) : s3[i] = s2[i]
       /\ LateFrom(s3, n)
  <2>1. LaterTypes \subseteq T /\ n \in Nat /\ s2 \in Seq(T) /\ n <= Len(s2) /\ end \in Seq(LaterTypes) /\ LateFrom(s2, n)
    BY <1>1, <1>4, <1>8, <1>9, <1>11
  <2> QED
    BY <2>1, LaterSteps
<1> HIDE DEF s3
<1>13. WizardSteps = s3 /\ LastStep = Len(s3)
  BY <1>2 DEF s1, s2, s3, LastStep
<1> USE DEF n
<1>14. Len(s3) = Len(b) + 3 + Len(pay) + 1
  BY <1>4, <1>5, <1>6, <1>9, <1>10, <1>12
<1>15. n \in 1 .. LastStep - 1 /\ LastStep \in Nat
  BY <1>5, <1>10, <1>13, <1>14
<1>16. \A i \in 1 .. Len(b) + 3 : s3[i] = s1[i]
  BY <1>5, <1>6, <1>9, <1>10, <1>12
<1>17. (\A i \in 1 .. Len(b) : s3[i] \in S) /\ s3[n] = "DATE_TIME_PICKER"
  BY <1>5, <1>6, <1>16
<1> QED
  BY <1>3, <1>5, <1>12, <1>13, <1>15, <1>17 DEF LateFrom, S
-----------------------------------------------------------------------------
(* What answers and rows are made of; W is what the session has held, n the *)
(* number of steps.                                                        *)
SlotsOf(back)     == IF back THEN BackSlots ELSE WizardSlots
FlowsOf(back)     == IF back THEN WithWayBack ELSE NoWayBack
DataSet(back)     == [got: SUBSET (FirstTypes \cup {"CLIENT_INFO"}), slot: SlotsOf(back) \cup {None}, total: Nat \cup {None}]
SessionRows(back, n)   == [step: 1 .. n, data: DataSet(back)]
PatchSet(back, n) == [step: 1 .. n, data: DataSet(back) \cup {None}, mine: BOOLEAN, st: {"sent", "read", "done"},
                      row: SessionRows(back, n) \cup {None}]

RowOK(back, n, W, r) == r \in SessionRows(back, n) /\ r.data.slot \in W \cup {None}
HasRow(p)            == (p.st = "read" /\ p.data # None) \/ p.st = "done"
PatchOK(back, n, W, p) ==
  /\ p \in PatchSet(back, n)
  /\ p.data # None => p.data.slot \in W \cup {None}
  /\ HasRow(p) => RowOK(back, n, W, p.row)
ReserveOK(back, n, W, x) ==
  /\ x \in [st: {"sent", "ok", "refused"}, patch: PatchSet(back, n), slot: SlotsOf(back)]
  /\ x.patch.st = "sent" /\ x.patch.data \in DataSet(back) /\ x.patch.data.slot = x.slot
  /\ x.st = "ok" => x.slot \in W

(* Every slot in the tab, in the row and under way was given.              *)
TabInv(back) ==
  /\ wizardFlow \in FlowsOf(back)
  /\ RowOK(back, LastStep, wizardWasHeld, wizardSrv) /\ RowOK(back, LastStep, wizardWasHeld, wizardView)
  /\ wizardHeld \subseteq wizardWasHeld /\ wizardWasHeld \subseteq SlotsOf(back) /\ wizardTaken \subseteq SlotsOf(back)
  /\ \A p \in wizardPatches : PatchOK(back, LastStep, wizardWasHeld, p)
  /\ \A x \in wizardReserves : ReserveOK(back, LastStep, wizardWasHeld, x)

(* The component on the page has asked once, and shows a form when it was  *)
(* answered.                                                               *)
PayInv(back) ==
  /\ wizardPage \in {"list", "wizard", "away"} /\ wizardUi \in {"none", "loading", "form", "error", "processing"}
  /\ wizardBookings \subseteq SlotsOf(back) /\ wizardCharged \subseteq SlotsOf(back)
  /\ wizardPays \subseteq [mine: BOOLEAN, st: {"sent", "ok", "failed"}, slot: SlotsOf(back) \cup {None}]
  /\ \A c \in wizardPays : c.st = "ok" => c.slot \in SlotsOf(back)
  /\ \A c, e \in wizardPays : c.mine /\ e.mine => c = e
  /\ wizardUi \in {"form", "processing"} => \A c \in wizardPays : c.mine => c.st = "ok"
  /\ wizardUi = "form" /\ ~wizardFlow.preview => \E c \in wizardPays : c.mine

(* Without a way back one call is under way at most: what was reserved or  *)
(* sent is the step after the one on the page.                             *)
StepAfter == IF wizardView.step + 1 <= LastStep THEN wizardView.step + 1 ELSE LastStep
OneCall ==
  /\ \A p, q \in wizardPatches : p = q
  /\ \A x, y \in wizardReserves : x = y
  /\ wizardPatches = {} \/ wizardReserves = {}
  /\ wizardPage = "wizard" => /\ \A p \in wizardPatches : p.mine
                              /\ \A x \in wizardReserves : x.patch.mine
  /\ \A p \in wizardPatches : p.step = StepAfter /\ (HasRow(p) => p.row = wizardSrv)
  /\ \A x \in wizardReserves : x.patch.step = StepAfter
  /\ wizardSrv.step \in {wizardView.step, StepAfter}
  /\ wizardReserves # {} => wizardView.step = PickerStepNo
  /\ wizardPage = "wizard" /\ WizardSteps[wizardView.step] = "PAYMENT" /\ wizardPatches # {} => wizardUi = "processing"

(* If no call fails, one slot is held: the picker carries it to the row.   *)
Carried ==
  /\ wizardView.step < PickerStepNo => wizardWasHeld = {}
  /\ wizardView.step = PickerStepNo =>
       /\ wizardPatches = {} /\ (\A x \in wizardReserves : x.st # "ok") => wizardWasHeld = {}
       /\ \A x \in wizardReserves : x.st = "ok" => wizardWasHeld = {x.slot}
       /\ \A p \in wizardPatches : /\ p.data # None /\ wizardWasHeld = {p.data.slot}
                                   /\ p.st = "done" => wizardSrv.data.slot = p.data.slot /\ wizardSrv.step = PickerStepNo + 1
  /\ wizardView.step > PickerStepNo =>
       /\ wizardWasHeld = {wizardSrv.data.slot} /\ wizardView.data.slot = wizardSrv.data.slot
       /\ \A p \in wizardPatches : p.data # None => p.data.slot = wizardSrv.data.slot
  /\ wizardPays # {} \/ wizardCharged # {} => wizardView.step > PickerStepNo
  /\ \A c \in wizardPays : c.st = "ok" => c.slot = wizardSrv.data.slot
  /\ wizardCharged \subseteq {wizardSrv.data.slot}

LEMMA WizardConstants ==
  /\ \A back \in BOOLEAN : None \notin SlotsOf(back) /\ None \notin DataSet(back) /\ FlowsOf(back) \subseteq AFlow
  /\ None \notin Nat /\ BasePrice \in Nat /\ AddOnPrice \in Nat
  /\ \A f \in NoWayBack : f.has \subseteq {"STAFF_SELECTION", "GUEST_COUNT"}
<1>1. /\ \A back \in BOOLEAN : None \notin SlotsOf(back) /\ None \notin DataSet(back) /\ FlowsOf(back) \subseteq AFlow
      /\ None \notin Nat /\ BasePrice \in Nat /\ AddOnPrice \in Nat
  BY ScheduleAssumption
  DEF Wizard!WizardAssumption, Wizard!Data, Wizard!Flow, Wizard!Optional, SlotsOf, DataSet, FlowsOf, AFlow, FirstTypes
<1>2. \A f \in NoWayBack : f.has \subseteq {"STAFF_SELECTION", "GUEST_COUNT"}
  BY ScheduleAssumption DEF NoWayBack, Service
<1> QED
  BY <1>1, <1>2

LEMMA StepsStay ==
  ASSUME wizardFlow' = wizardFlow
  PROVE  LastStep' = LastStep /\ PickerStepNo' = PickerStepNo /\ WizardSteps' = WizardSteps
BY DEF LastStep, PickerStepNo, WizardSteps, Wizard!steps, Wizard!resolveSteps, Wizard!stepsBefore, Wizard!IfHas, Wizard!IfPaid

LEMMA StepsShown ==
  ASSUME NEW back \in BOOLEAN, NEW failing \in BOOLEAN
  PROVE  /\ Wizard(back, failing)!steps = WizardSteps
         /\ Wizard(back, failing)!Type = IF wizardPage = "wizard" THEN WizardSteps[wizardView.step] ELSE "none"
         /\ Wizard(back, failing)!nextStep = StepAfter
<1>1. Wizard(back, failing)!steps = WizardSteps
  BY DEF WizardSteps, Wizard!steps, Wizard!resolveSteps, Wizard!stepsBefore, Wizard!IfHas, Wizard!IfPaid
<1> QED
  BY <1>1 DEF Wizard!Type, Wizard!nextStep, StepAfter, LastStep

LEMMA StepAfterIs ==
  ASSUME LastStep \in Nat, wizardView.step \in 1 .. LastStep
  PROVE  /\ StepAfter \in 1 .. LastStep
         /\ wizardView.step <= StepAfter /\ StepAfter <= wizardView.step + 1
         /\ wizardView.step < LastStep => StepAfter = wizardView.step + 1
BY DEF StepAfter

(* What a form adds has no slot.                                           *)
LEMMA GivenIsData ==
  ASSUME NEW back \in BOOLEAN, NEW failing \in BOOLEAN, NEW d \in DataSet(back), NEW t,
         t \in FirstTypes \cup LaterTypes, t \notin {"VENUE_SELECTION", "PAYMENT", "CONFIRMATION"}
  PROVE  Wizard(back, failing)!Given(t, d) \in DataSet(back) /\ Wizard(back, failing)!Given(t, d).slot = None
<1> DEFINE none == [got |-> {}, slot |-> None, total |-> None]
           sum == Wizard(back, failing)!Or(d.total, Wizard(back, failing)!Subtotal(d))
<1>1. none \in DataSet(back) /\ none.slot = None
  BY DEF DataSet
<1>2. sum \in Nat
  BY WizardConstants DEF Wizard!Or, Wizard!Subtotal, DataSet
<1>3. CASE t = "PRICING_SUMMARY"
  <2>1. Wizard(back, failing)!Given(t, d) = [none EXCEPT !.total = sum]
    BY <1>3 DEF Wizard!Given, Wizard!NoData
  <2> HIDE DEF sum
  <2> QED
    BY <1>1, <1>2, <2>1 DEF DataSet
<1>4. CASE t = "GUEST_COUNT"
  <2>1. Wizard(back, failing)!Given(t, d) = [none EXCEPT !.got = {t}, !.total = BasePrice]
    BY <1>4 DEF Wizard!Given, Wizard!NoData
  <2> QED
    BY <1>1, <1>4, <2>1, WizardConstants DEF DataSet, FirstTypes
<1>5. CASE t \notin {"PRICING_SUMMARY", "GUEST_COUNT"}
  <2>1. Wizard(back, failing)!Given(t, d) = [none EXCEPT !.got = {t}]
    BY <1>5 DEF Wizard!Given, Wizard!NoData
  <2> QED
    BY <1>1, <1>5, <2>1 DEF DataSet, FirstTypes, LaterTypes
<1> QED
  BY <1>3, <1>4, <1>5

LEMMA MergeIsData ==
  ASSUME NEW back \in BOOLEAN, NEW failing \in BOOLEAN, NEW d \in DataSet(back), NEW e \in DataSet(back)
  PROVE  /\ Wizard(back, failing)!Merge(d, e) \in DataSet(back)
         /\ Wizard(back, failing)!Merge(d, e).slot = IF e.slot = None THEN d.slot ELSE e.slot
BY DEF Wizard!Merge, Wizard!Or, DataSet

(* A PATCH that is sent.                                                   *)
SentPatch(step, data, mine) == [step |-> step, data |-> data, mine |-> mine, st |-> "sent", row |-> None]

LEMMA PatchIsSent ==
  ASSUME NEW back \in BOOLEAN, NEW failing \in BOOLEAN, NEW step, NEW data
  PROVE  \E mine \in BOOLEAN : Wizard(back, failing)!Patch(step, data) = SentPatch(step, data, mine)
<1>1. Wizard(back, failing)!Waits \in BOOLEAN
  BY Zenon DEF Wizard!Waits
<1> QED
  BY <1>1 DEF Wizard!Patch, SentPatch

LEMMA SentIsOK ==
  ASSUME NEW back \in BOOLEAN, NEW n \in Nat, NEW W, NEW step \in 1 .. n, NEW data, NEW mine \in BOOLEAN,
         data = None \/ (data \in DataSet(back) /\ data.slot \in W \cup {None})
  PROVE  PatchOK(back, n, W, SentPatch(step, data, mine))
BY DEF PatchOK, HasRow, PatchSet, SentPatch

(* What goes on leaves the rest of a PATCH as it is.                       *)
LEMMA PatchFields ==
  ASSUME NEW back \in BOOLEAN, NEW n, NEW p \in PatchSet(back, n), NEW m, NEW s, NEW r
  PROVE  /\ [p EXCEPT !.mine = m] = [step |-> p.step, data |-> p.data, mine |-> m, st |-> p.st, row |-> p.row]
         /\ [p EXCEPT !.st = s, !.row = r] = [step |-> p.step, data |-> p.data, mine |-> p.mine, st |-> s, row |-> r]
<1>1. [p EXCEPT !.mine = m] = [step |-> p.step, data |-> p.data, mine |-> m, st |-> p.st, row |-> p.row]
  BY DEF PatchSet
<1> DEFINE q == [p EXCEPT !.st = s]
<1>2. q = [step |-> p.step, data |-> p.data, mine |-> p.mine, st |-> s, row |-> p.row]
  BY DEF PatchSet
<1>3. [p EXCEPT !.st = s, !.row = r] = [q EXCEPT !.row = r]
  OBVIOUS
<1> HIDE DEF q
<1>4. [q EXCEPT !.row = r] = [step |-> p.step, data |-> p.data, mine |-> p.mine, st |-> s, row |-> r]
  BY <1>2
<1> QED
  BY <1>1, <1>3, <1>4

LEMMA GoneIsOK ==
  ASSUME NEW back \in BOOLEAN, NEW n \in Nat, NEW W, NEW p, PatchOK(back, n, W, p)
  PROVE  PatchOK(back, n, W, [p EXCEPT !.mine = FALSE])
BY PatchFields DEF PatchOK, HasRow, PatchSet

LEMMA GoneReserveIsOK ==
  ASSUME NEW back \in BOOLEAN, NEW n \in Nat, NEW W, NEW x, ReserveOK(back, n, W, x)
  PROVE  /\ ReserveOK(back, n, W, [x EXCEPT !.patch.mine = FALSE])
         /\ [x EXCEPT !.patch.mine = FALSE].st = x.st /\ [x EXCEPT !.patch.mine = FALSE].slot = x.slot
         /\ [x EXCEPT !.patch.mine = FALSE].patch.step = x.patch.step
         /\ [x EXCEPT !.patch.mine = FALSE].patch.mine = FALSE
<1> DEFINE q == [x.patch EXCEPT !.mine = FALSE]
           y == [st |-> x.st, patch |-> q, slot |-> x.slot]
<1>0. [x EXCEPT !.patch.mine = FALSE] = [x EXCEPT !.patch = q]
  OBVIOUS
<1>1. [x EXCEPT !.patch.mine = FALSE] = y
  <2> HIDE DEF q
  <2> QED
    BY <1>0 DEF ReserveOK
<1>2. q = [step |-> x.patch.step, data |-> x.patch.data, mine |-> FALSE, st |-> x.patch.st, row |-> x.patch.row]
  BY PatchFields DEF ReserveOK
<1>3. q \in PatchSet(back, n) /\ q.st = x.patch.st /\ q.data = x.patch.data /\ q.step = x.patch.step /\ q.mine = FALSE
  BY <1>2 DEF ReserveOK, PatchSet
<1> HIDE DEF q
<1> QED
  BY <1>1, <1>3 DEF ReserveOK

LEMMA MoreHeld ==
  ASSUME NEW back \in BOOLEAN, NEW n \in Nat, NEW W, NEW V, W \subseteq V
  PROVE  /\ \A r : RowOK(back, n, W, r) => RowOK(back, n, V, r)
         /\ \A p : PatchOK(back, n, W, p) => PatchOK(back, n, V, p)
         /\ \A x : ReserveOK(back, n, W, x) => ReserveOK(back, n, V, x)
BY DEF RowOK, PatchOK, ReserveOK

(* The steps of the tab and the server, for any set-up.                    *)
LEMMA TabStep ==
  ASSUME NEW back \in BOOLEAN, NEW failing \in BOOLEAN, TabInv(back), [Wizard(back, failing)!Next]_wizardVars
  PROVE  TabInv(back)'
<1> DEFINE n == LastStep
           W == wizardWasHeld
           S == SlotsOf(back)
           P(p) == PatchOK(back, n, W, p)
           Res(x) == ReserveOK(back, n, W, x)
<1>1. /\ n \in Nat /\ wizardView.step \in 1 .. n /\ wizardSrv.step \in 1 .. n
      /\ wizardView.data \in DataSet(back) /\ wizardView.data.slot \in W \cup {None}
      /\ \A i \in 1 .. n : WizardSteps[i] \in FirstTypes \cup LaterTypes \cup {"DATE_TIME_PICKER"}
  <2>1. wizardFlow \in AFlow
    BY WizardConstants DEF TabInv
  <2>2. wizardFlow.has \subseteq FirstTypes
    BY <2>1 DEF AFlow
  <2>3. n \in Nat /\ PickerStepNo \in Nat
    BY <2>1, StepsAre
  <2>4. \A i \in 1 .. n : WizardSteps[i] \in FirstTypes \cup LaterTypes \cup {"DATE_TIME_PICKER"}
    <3> TAKE i \in 1 .. n
    <3>1. i < PickerStepNo \/ i = PickerStepNo \/ i > PickerStepNo
      BY <2>3
    <3> QED
      BY <2>1, <2>2, <3>1, StepsAre
  <2> QED
    BY <2>3, <2>4 DEF TabInv, RowOK, SessionRows
<1>2. StepAfter \in 1 .. n
  BY <1>1, StepAfterIs
<1>3. wizardFlow' = wizardFlow /\ n' = n
  <2>1. wizardFlow' = wizardFlow
    BY DEF Wizard!Next, Wizard!Forward, Wizard!Answers, Wizard!World, wizardVars, Wizard!Submit, Wizard!SubmitNothing,
       Wizard!reserveSlot, Wizard!Pay, Wizard!goToPrevStep, Wizard!tryAgain, Wizard!Leave, Wizard!UpdateRead,
       Wizard!UpdateWrite, Wizard!PatchAnswered, Wizard!ReserveServed, Wizard!ReserveAnswered, Wizard!PayServed,
       Wizard!PayAnswered, Wizard!PatchFails, Wizard!Lapse, Wizard!OtherTakes
  <2> QED
    BY <2>1, StepsStay
<1> HIDE DEF n
<1>4. ASSUME /\ RowOK(back, n, wizardWasHeld', wizardSrv') /\ RowOK(back, n, wizardWasHeld', wizardView')
             /\ wizardHeld' \subseteq wizardWasHeld' /\ wizardWasHeld' \subseteq S /\ wizardTaken' \subseteq S
             /\ \A p \in wizardPatches' : PatchOK(back, n, wizardWasHeld', p)
             /\ \A x \in wizardReserves' : ReserveOK(back, n, wizardWasHeld', x)
      PROVE  TabInv(back)'
  BY <1>3, <1>4 DEF TabInv, n
<1>5. /\ RowOK(back, n, W, wizardSrv) /\ RowOK(back, n, W, wizardView)
      /\ wizardHeld \subseteq W /\ W \subseteq S /\ wizardTaken \subseteq S
      /\ (\A p \in wizardPatches : P(p)) /\ \A x \in wizardReserves : Res(x)
  BY DEF TabInv, n
<1> HIDE DEF P, Res
(* PATCHes and reservations come or go, and no row changes.                *)
<1>6. ASSUME UNCHANGED <<wizardSrv, wizardView, wizardHeld, wizardWasHeld, wizardTaken>>,
             \A p \in wizardPatches' : P(p), \A x \in wizardReserves' : Res(x)
      PROVE  TabInv(back)'
  BY <1>4, <1>5, <1>6 DEF P, Res
<1>7. CASE UNCHANGED wizardVars
  BY <1>5, <1>6, <1>7 DEF wizardVars
<1>8. ASSUME NEW step \in 1 .. n, NEW data, data = None \/ (data \in DataSet(back) /\ data.slot \in W \cup {None})
      PROVE  P(Wizard(back, failing)!Patch(step, data))
  BY <1>1, <1>8, PatchIsSent, SentIsOK DEF P
<1>9. ASSUME NEW new, new = None \/ (new \in DataSet(back) /\ new.slot = None)
      PROVE  P(Wizard(back, failing)!goToNextStep(new))
  <2> DEFINE d == IF new = None THEN None ELSE Wizard(back, failing)!Merge(wizardView.data, new)
  <2>1. d = None \/ (d \in DataSet(back) /\ d.slot \in W \cup {None})
    BY <1>1, <1>9, MergeIsData
  <2>2. Wizard(back, failing)!goToNextStep(new) = Wizard(back, failing)!Patch(StepAfter, d)
    BY StepsShown DEF Wizard!goToNextStep
  <2> HIDE DEF d
  <2> QED
    BY <1>2, <1>8, <2>1, <2>2
<1>10. ASSUME NEW q, P(q), Wizard(back, failing)!Send(q) PROVE \A p \in wizardPatches' : P(p)
  BY <1>5, <1>10 DEF Wizard!Send
<1>11. CASE Wizard(back, failing)!Submit
  <2> DEFINE t == Wizard(back, failing)!Type
             new == IF t = "VENUE_SELECTION" THEN None ELSE Wizard(back, failing)!Given(t, wizardView.data)
  <2>1. /\ Wizard(back, failing)!Send(Wizard(back, failing)!goToNextStep(new))
        /\ UNCHANGED <<wizardSrv, wizardView, wizardHeld, wizardWasHeld, wizardTaken, wizardReserves>>
        /\ t \notin {"none", "DATE_TIME_PICKER", "PAYMENT", "CONFIRMATION"}
    BY <1>11 DEF Wizard!Submit, Wizard!server
  <2>2. t \in FirstTypes \cup LaterTypes
    BY <1>1, <2>1, StepsShown
  <2>3. new = None \/ (new \in DataSet(back) /\ new.slot = None)
    BY <1>1, <2>1, <2>2, GivenIsData
  <2> HIDE DEF new
  <2> QED
    BY <1>5, <1>6, <1>9, <1>10, <2>1, <2>3
<1>12. CASE Wizard(back, failing)!SubmitNothing
  <2> DEFINE new == Wizard(back, failing)!NoData
  <2>1. /\ Wizard(back, failing)!Send(Wizard(back, failing)!goToNextStep(new))
        /\ UNCHANGED <<wizardSrv, wizardView, wizardHeld, wizardWasHeld, wizardTaken, wizardReserves>>
    BY <1>12 DEF Wizard!SubmitNothing, Wizard!server
  <2>2. new \in DataSet(back) /\ new.slot = None
    BY DEF Wizard!NoData, DataSet
  <2> HIDE DEF new
  <2> QED
    BY <1>5, <1>6, <1>9, <1>10, <2>1, <2>2
<1>13. CASE Wizard(back, failing)!goToPrevStep
  <2>1. /\ Wizard(back, failing)!Send(Wizard(back, failing)!Patch(wizardView.step - 1, None))
        /\ UNCHANGED <<wizardSrv, wizardView, wizardHeld, wizardWasHeld, wizardTaken, wizardReserves>>
        /\ wizardView.step - 1 \in 1 .. n
    BY <1>1, <1>13 DEF Wizard!goToPrevStep, Wizard!server
  <2> QED
    BY <1>5, <1>6, <1>8, <1>10, <2>1
<1>14. CASE Wizard(back, failing)!Pay
  <2>1. /\ Wizard(back, failing)!Send(Wizard(back, failing)!goToNextStep(None)) \/ UNCHANGED wizardPatches
        /\ UNCHANGED <<wizardSrv, wizardView, wizardHeld, wizardWasHeld, wizardTaken, wizardReserves>>
    BY <1>14 DEF Wizard!Pay
  <2> QED
    BY <1>5, <1>6, <1>9, <1>10, <2>1
<1>15. ASSUME NEW s \in S, Wizard(back, failing)!reserveSlot(s) PROVE TabInv(back)'
  <2> DEFINE new == [Wizard(back, failing)!NoData EXCEPT !.slot = s]
             d == Wizard(back, failing)!Merge(wizardView.data, new)
  <2>1. new \in DataSet(back) /\ new.slot = s /\ s # None /\ new # None
    BY WizardConstants DEF Wizard!NoData, DataSet
  <2>2. d \in DataSet(back) /\ d.slot = s
    <3> HIDE DEF new
    <3> QED
      BY <1>1, <2>1, MergeIsData
  <2>3. Wizard(back, failing)!goToNextStep(new) = Wizard(back, failing)!Patch(StepAfter, d)
    BY <2>1, StepsShown DEF Wizard!goToNextStep
  <2>4. PICK mine \in BOOLEAN : Wizard(back, failing)!goToNextStep(new) = SentPatch(StepAfter, d, mine)
    BY <2>3, PatchIsSent
  <2>5. /\ wizardReserves' = wizardReserves \cup {[st |-> "sent", patch |-> SentPatch(StepAfter, d, mine), slot |-> s]}
        /\ UNCHANGED <<wizardSrv, wizardView, wizardHeld, wizardWasHeld, wizardTaken, wizardPatches>>
    BY <1>15, <2>4 DEF Wizard!reserveSlot, Wizard!server
  <2> HIDE DEF new, d
  <2>6. Res([st |-> "sent", patch |-> SentPatch(StepAfter, d, mine), slot |-> s])
    BY <1>2, <2>2 DEF Res, ReserveOK, SentPatch, PatchSet
  <2> QED
    BY <1>5, <1>6, <2>5, <2>6
<1>16. ASSUME NEW p \in wizardPatches, NEW q, P(q), wizardPatches' = (wizardPatches \ {p}) \cup {q}
       PROVE  \A r \in wizardPatches' : P(r)
  BY <1>5, <1>16
<1>17. CASE Wizard(back, failing)!UpdateRead
  <2>1. PICK p \in wizardPatches :
          /\ p.st = "sent"
          /\ wizardPatches' = (wizardPatches \ {p}) \cup {[p EXCEPT !.st = "read", !.row = IF p.data = None THEN None ELSE wizardSrv]}
          /\ UNCHANGED <<wizardSrv, wizardView, wizardHeld, wizardWasHeld, wizardTaken, wizardReserves>>
    BY <1>17 DEF Wizard!UpdateRead, Wizard!Became, Wizard!server
  <2> DEFINE row == IF p.data = None THEN None ELSE wizardSrv
             q == [p EXCEPT !.st = "read", !.row = row]
  <2>2. P(p) /\ p \in PatchSet(back, n)
    BY <1>5 DEF P, PatchOK
  <2>3. row \in SessionRows(back, n) \cup {None} /\ (p.data # None => RowOK(back, n, W, row))
    BY <1>5 DEF RowOK
  <2>4. q = [step |-> p.step, data |-> p.data, mine |-> p.mine, st |-> "read", row |-> row]
    BY <2>2, PatchFields
  <2> HIDE DEF row
  <2>5. q \in PatchSet(back, n) /\ q.data = p.data /\ q.row = row /\ q.st = "read"
    BY <2>2, <2>3, <2>4 DEF PatchSet
  <2> HIDE DEF q
  <2>6. P(q)
    BY <2>2, <2>3, <2>5 DEF P, PatchOK, HasRow
  <2> QED
    BY <1>5, <1>6, <1>16, <2>1, <2>6 DEF q, row
<1>18. CASE Wizard(back, failing)!UpdateWrite
  <2>1. PICK p \in wizardPatches :
          /\ p.st = "read" /\ wizardSrv' = Wizard(back, failing)!Written(p)
          /\ wizardPatches' = (wizardPatches \ {p}) \cup {[p EXCEPT !.st = "done", !.row = Wizard(back, failing)!Written(p)]}
          /\ UNCHANGED <<wizardView, wizardHeld, wizardWasHeld, wizardTaken, wizardReserves>>
    BY <1>18 DEF Wizard!UpdateWrite, Wizard!Became
  <2> DEFINE row == Wizard(back, failing)!Written(p)
             q == [p EXCEPT !.st = "done", !.row = row]
             merged == Wizard(back, failing)!Merge(p.row.data, p.data)
  <2>2. P(p) /\ p \in PatchSet(back, n) /\ p.step \in 1 .. n
    BY <1>5 DEF P, PatchOK, PatchSet
  <2>3. row = [step |-> p.step, data |-> IF p.data = None THEN wizardSrv.data ELSE merged]
    BY DEF Wizard!Written
  <2>4. p.data # None => merged \in DataSet(back) /\ merged.slot \in W \cup {None}
    <3>1. p.data # None => /\ p.data \in DataSet(back) /\ p.data.slot \in W \cup {None}
                           /\ p.row.data \in DataSet(back) /\ p.row.data.slot \in W \cup {None}
      BY <2>1, <2>2 DEF P, PatchOK, PatchSet, HasRow, RowOK, SessionRows
    <3> QED
      BY <3>1, MergeIsData
  <2>5. wizardSrv.data \in DataSet(back) /\ wizardSrv.data.slot \in W \cup {None}
    BY <1>5 DEF RowOK, SessionRows
  <2> HIDE DEF merged, row
  <2>6. RowOK(back, n, W, row)
    BY <2>2, <2>3, <2>4, <2>5 DEF RowOK, SessionRows
  <2>7. q = [step |-> p.step, data |-> p.data, mine |-> p.mine, st |-> "done", row |-> row]
    BY <2>2, PatchFields
  <2>8. q \in PatchSet(back, n) /\ q.data = p.data /\ q.row = row
    BY <2>2, <2>6, <2>7 DEF PatchSet, RowOK
  <2> HIDE DEF q
  <2>9. P(q)
    BY <2>2, <2>6, <2>8 DEF P, PatchOK
  <2>10. \A r \in wizardPatches' : P(r)
    BY <1>16, <2>1, <2>9 DEF q, row
  <2> QED
    BY <1>4, <1>5, <2>1, <2>6, <2>10 DEF P, Res, row
<1>19. \A p : P(p) => P([p EXCEPT !.mine = FALSE])
  BY <1>1, GoneIsOK DEF P, n
<1>20. \A x : Res(x) => Res([x EXCEPT !.patch.mine = FALSE])
  BY <1>1, GoneReserveIsOK DEF Res, n
<1>21. CASE Wizard(back, failing)!PatchAnswered
  <2>1. PICK p \in wizardPatches :
          /\ p.st = "done" /\ Wizard(back, failing)!Shows(p.row, wizardPatches \ {p})
          /\ UNCHANGED <<wizardSrv, wizardHeld, wizardWasHeld, wizardTaken>>
    BY <1>21 DEF Wizard!PatchAnswered, Wizard!server
  <2>2. /\ wizardView' = p.row
        /\ wizardPatches' = {[q EXCEPT !.mine = FALSE] : q \in wizardPatches \ {p}} \/ wizardPatches' = wizardPatches \ {p}
        /\ wizardReserves' = {[x EXCEPT !.patch.mine = FALSE] : x \in wizardReserves} \/ wizardReserves' = wizardReserves
    BY <2>1 DEF Wizard!Shows, Wizard!Gone, Wizard!GoneReserves
  <2>3. RowOK(back, n, W, p.row)
    BY <1>5, <2>1 DEF P, PatchOK, HasRow
  <2>4. \A q \in wizardPatches' : P(q)
    BY <1>5, <1>19, <2>2
  <2>5. \A x \in wizardReserves' : Res(x)
    BY <1>5, <1>20, <2>2
  <2> QED
    BY <1>4, <1>5, <2>1, <2>2, <2>3, <2>4, <2>5 DEF P, Res
<1>22. CASE Wizard(back, failing)!PatchFails
  BY <1>5, <1>6, <1>22 DEF Wizard!PatchFails, Wizard!server
<1>23. ASSUME NEW x \in wizardReserves, NEW answer \in {"ok", "refused"}, NEW V, W \subseteq V,
              answer = "ok" => x.slot \in V
       PROVE  ReserveOK(back, n, V, [x EXCEPT !.st = answer])
  <2>1. ReserveOK(back, n, V, x)
    BY <1>1, <1>5, <1>23, MoreHeld DEF Res, n
  <2>2. [x EXCEPT !.st = answer] = [st |-> answer, patch |-> x.patch, slot |-> x.slot]
    BY <2>1 DEF ReserveOK
  <2> QED
    BY <1>23, <2>1, <2>2 DEF ReserveOK
<1>24. CASE Wizard(back, failing)!ReserveServed
  <2>1. PICK x \in wizardReserves, answer \in {"ok", "refused"} :
          /\ wizardReserves' = (wizardReserves \ {x}) \cup {[x EXCEPT !.st = answer]}
          /\ \/ answer = "ok" /\ wizardHeld' = wizardHeld \cup {x.slot} /\ wizardWasHeld' = W \cup {x.slot}
             \/ answer = "refused" /\ UNCHANGED <<wizardHeld, wizardWasHeld>>
          /\ UNCHANGED <<wizardSrv, wizardView, wizardTaken, wizardPatches>>
    BY <1>24 DEF Wizard!ReserveServed, Wizard!Told
  <2>2. x.slot \in S /\ W \subseteq wizardWasHeld' /\ (answer = "ok" => x.slot \in wizardWasHeld')
    BY <1>5, <2>1 DEF Res, ReserveOK
  <2>3. ReserveOK(back, n, wizardWasHeld', [x EXCEPT !.st = answer])
    BY <1>23, <2>2
  <2>4. /\ \A y \in wizardReserves : ReserveOK(back, n, wizardWasHeld', y)
        /\ \A p \in wizardPatches : PatchOK(back, n, wizardWasHeld', p)
        /\ RowOK(back, n, wizardWasHeld', wizardSrv) /\ RowOK(back, n, wizardWasHeld', wizardView)
    BY <1>1, <1>5, <2>2, MoreHeld DEF P, Res, n
  <2> QED
    BY <1>4, <1>5, <2>1, <2>2, <2>3, <2>4
<1>25. CASE Wizard(back, failing)!ReserveAnswered
  <2>1. PICK x \in wizardReserves :
          /\ wizardReserves' = wizardReserves \ {x}
          /\ (x.st = "ok" /\ Wizard(back, failing)!Send(x.patch)) \/ UNCHANGED wizardPatches
          /\ UNCHANGED <<wizardSrv, wizardView, wizardHeld, wizardWasHeld, wizardTaken>>
    BY <1>25 DEF Wizard!ReserveAnswered, Wizard!server
  <2>2. x.st = "ok" => P(x.patch)
    BY <1>5 DEF P, Res, ReserveOK, PatchOK, HasRow
  <2> QED
    BY <1>5, <1>6, <1>10, <2>1, <2>2
<1>26. CASE Wizard(back, failing)!Leave
  <2>1. /\ wizardPatches' = {[q EXCEPT !.mine = FALSE] : q \in wizardPatches}
        /\ wizardReserves' = {[x EXCEPT !.patch.mine = FALSE] : x \in wizardReserves}
        /\ UNCHANGED <<wizardSrv, wizardView, wizardHeld, wizardWasHeld, wizardTaken>>
    BY <1>26 DEF Wizard!Leave, Wizard!server, Wizard!Gone, Wizard!GoneReserves
  <2> QED
    BY <1>5, <1>6, <1>19, <1>20, <2>1
<1>27. CASE Wizard(back, failing)!PayServed \/ Wizard(back, failing)!PayAnswered \/ Wizard(back, failing)!tryAgain
  BY <1>5, <1>6, <1>27 DEF Wizard!PayServed, Wizard!PayAnswered, Wizard!tryAgain, Wizard!server
<1>28. CASE Wizard(back, failing)!World
  <2>1. /\ wizardHeld' \subseteq wizardHeld /\ wizardTaken' \subseteq wizardTaken \cup S
        /\ UNCHANGED <<wizardSrv, wizardView, wizardWasHeld, wizardPatches, wizardReserves>>
    BY <1>28 DEF Wizard!World, Wizard!Lapse, Wizard!OtherTakes, SlotsOf
  <2> QED
    BY <1>4, <1>5, <2>1 DEF P, Res
<1> QED
  BY <1>7, <1>11, <1>12, <1>13, <1>14, <1>15, <1>17, <1>18, <1>21, <1>22, <1>24, <1>25, <1>26, <1>27, <1>28
  DEF Wizard!Next, Wizard!Forward, Wizard!Answers, SlotsOf
-----------------------------------------------------------------------------
Untouched == <<wizardFlow, wizardPage, wizardBookings, wizardCharged, wizardPays, wizardUi>>

(* Whoever is gone asks for nothing any more.                              *)
LEMMA GonePays ==
  ASSUME NEW back \in BOOLEAN, PayInv(back), NEW c \in wizardPays
  PROVE  /\ [c EXCEPT !.mine = FALSE] \in [mine: BOOLEAN, st: {"sent", "ok", "failed"}, slot: SlotsOf(back) \cup {None}]
         /\ [c EXCEPT !.mine = FALSE].mine = FALSE /\ [c EXCEPT !.mine = FALSE].st = c.st
         /\ [c EXCEPT !.mine = FALSE].slot = c.slot
BY DEF PayInv

(* The request whose secret the form has.                                  *)
LEMMA SecretIsAnswered ==
  ASSUME NEW back \in BOOLEAN, NEW failing \in BOOLEAN, PayInv(back), wizardUi = "form", ~wizardFlow.preview
  PROVE  Wizard(back, failing)!Secret \in wizardPays /\ Wizard(back, failing)!Secret.st = "ok"
BY DEF PayInv, Wizard!Secret

(* The effects of showing a row.                                           *)
LEMMA RowIsShown ==
  ASSUME NEW back \in BOOLEAN, NEW failing \in BOOLEAN, NEW row, NEW rest, Wizard(back, failing)!Shows(row, rest)
  PROVE  /\ wizardView' = row /\ wizardPage' = "wizard"
         /\ \/ wizardPatches' = rest /\ UNCHANGED <<wizardReserves, wizardPays, wizardUi>>
            \/ /\ wizardPays' = {[c EXCEPT !.mine = FALSE] : c \in wizardPays} \cup {[mine |-> TRUE, st |-> "sent", slot |-> None]}
               /\ wizardUi' = "loading" /\ WizardSteps[row.step] = "PAYMENT"
               /\ wizardPatches' = {[p EXCEPT !.mine = FALSE] : p \in rest}
               /\ wizardReserves' = {[x EXCEPT !.patch.mine = FALSE] : x \in wizardReserves}
            \/ /\ wizardPays' = {[c EXCEPT !.mine = FALSE] : c \in wizardPays}
               /\ wizardUi' \in {"form", "none"} /\ (wizardUi' = "form" => wizardFlow.preview)
               /\ wizardPatches' = {[p EXCEPT !.mine = FALSE] : p \in rest}
               /\ wizardReserves' = {[x EXCEPT !.patch.mine = FALSE] : x \in wizardReserves}
BY StepsShown DEF Wizard!Shows, Wizard!Gone, Wizard!GoneReserves

LEMMA PayStep ==
  ASSUME NEW back \in BOOLEAN, NEW failing \in BOOLEAN, TabInv(back), PayInv(back), [Wizard(back, failing)!Next]_wizardVars
  PROVE  PayInv(back)'
<1> DEFINE S == SlotsOf(back)
           C == [mine: BOOLEAN, st: {"sent", "ok", "failed"}, slot: S \cup {None}]
<1>1. ASSUME UNCHANGED Untouched PROVE PayInv(back)'
  BY <1>1 DEF PayInv, Untouched, SlotsOf
<1>2. CASE UNCHANGED wizardVars
  BY <1>1, <1>2 DEF wizardVars, Untouched
<1>3. CASE \/ Wizard(back, failing)!Submit \/ Wizard(back, failing)!SubmitNothing \/ Wizard(back, failing)!goToPrevStep
           \/ \E s : Wizard(back, failing)!reserveSlot(s)
           \/ Wizard(back, failing)!UpdateRead \/ Wizard(back, failing)!UpdateWrite
           \/ Wizard(back, failing)!ReserveServed \/ Wizard(back, failing)!ReserveAnswered
           \/ Wizard(back, failing)!PatchFails \/ Wizard(back, failing)!Lapse \/ Wizard(back, failing)!OtherTakes
  BY <1>1, <1>3
  DEF Untouched, Wizard!server, Wizard!Submit, Wizard!SubmitNothing, Wizard!goToPrevStep, Wizard!reserveSlot,
      Wizard!UpdateRead, Wizard!UpdateWrite, Wizard!ReserveServed, Wizard!ReserveAnswered, Wizard!PatchFails,
      Wizard!Lapse, Wizard!OtherTakes
<1>4. /\ wizardPage \in {"list", "wizard", "away"} /\ wizardUi \in {"none", "loading", "form", "error", "processing"}
      /\ wizardBookings \subseteq S /\ wizardCharged \subseteq S /\ wizardPays \subseteq C
      /\ \A c \in wizardPays : c.st = "ok" => c.slot \in S
      /\ \A c, e \in wizardPays : c.mine /\ e.mine => c = e
      /\ wizardUi \in {"form", "processing"} => \A c \in wizardPays : c.mine => c.st = "ok"
      /\ wizardUi = "form" /\ ~wizardFlow.preview => \E c \in wizardPays : c.mine
      /\ wizardHeld \subseteq S
  BY DEF PayInv, TabInv
<1>5. CASE Wizard(back, failing)!PatchAnswered
  <2>1. PICK p \in wizardPatches :
          /\ Wizard(back, failing)!Shows(p.row, wizardPatches \ {p})
          /\ UNCHANGED <<wizardFlow, wizardBookings, wizardCharged>>
    BY <1>5 DEF Wizard!PatchAnswered, Wizard!server
  <2> DEFINE G == {[c EXCEPT !.mine = FALSE] : c \in wizardPays}
             a == [mine |-> TRUE, st |-> "sent", slot |-> None]
  <2>2. G \subseteq C /\ \A c \in G : c.mine = FALSE /\ (c.st = "ok" => c.slot \in S)
    BY <1>4, GonePays
  <2>3. a \in C /\ a.st = "sent"
    OBVIOUS
  <2> HIDE DEF G, a
  <2>4. /\ wizardPage' = "wizard"
        /\ \/ wizardPays' = wizardPays /\ wizardUi' = wizardUi
           \/ wizardPays' = G \cup {a} /\ wizardUi' = "loading"
           \/ wizardPays' = G /\ wizardUi' \in {"form", "none"} /\ (wizardUi' = "form" => wizardFlow.preview)
    BY <2>1, RowIsShown DEF G, a
  <2> QED
    BY <1>4, <2>1, <2>2, <2>3, <2>4 DEF PayInv, SlotsOf
<1>6. CASE Wizard(back, failing)!PayServed
  <2>1. PICK c \in wizardPays :
          /\ c.st = "sent" /\ UNCHANGED <<wizardFlow, wizardPage, wizardCharged, wizardUi>>
          /\ \/ \E s \in wizardHeld : /\ wizardPays' = (wizardPays \ {c}) \cup {[c EXCEPT !.st = "ok", !.slot = s]}
                                      /\ wizardBookings' = wizardBookings \cup {s}
             \/ /\ wizardPays' = (wizardPays \ {c}) \cup {[c EXCEPT !.st = "failed"]}
                /\ wizardBookings' = wizardBookings
    BY <1>6 DEF Wizard!PayServed
  <2>2. PICK q \in C : /\ wizardPays' = (wizardPays \ {c}) \cup {q} /\ q.mine = c.mine /\ (q.st = "ok" => q.slot \in S)
                       /\ wizardBookings' \subseteq S
    <3>1. CASE /\ wizardPays' = (wizardPays \ {c}) \cup {[c EXCEPT !.st = "failed"]}
               /\ wizardBookings' = wizardBookings
      <4> DEFINE q == [c EXCEPT !.st = "failed"]
      <4>1. q \in C /\ q.mine = c.mine /\ q.st = "failed"
        BY <1>4
      <4> QED
        BY <1>4, <3>1, <4>1
    <3>2. ASSUME NEW s \in wizardHeld, wizardPays' = (wizardPays \ {c}) \cup {[c EXCEPT !.st = "ok", !.slot = s]},
                 wizardBookings' = wizardBookings \cup {s}
          PROVE  \E q \in C : /\ wizardPays' = (wizardPays \ {c}) \cup {q} /\ q.mine = c.mine
                              /\ (q.st = "ok" => q.slot \in S) /\ wizardBookings' \subseteq S
      <4> DEFINE p == [c EXCEPT !.st = "ok"]
                 q == [p EXCEPT !.slot = s]
      <4>1. p = [mine |-> c.mine, st |-> "ok", slot |-> c.slot]
        BY <1>4
      <4>2. [c EXCEPT !.st = "ok", !.slot = s] = q
        OBVIOUS
      <4> HIDE DEF p
      <4>3. q = [mine |-> c.mine, st |-> "ok", slot |-> s]
        BY <4>1
      <4> HIDE DEF q
      <4>4. q \in C /\ q.mine = c.mine /\ q.slot = s
        BY <1>4, <4>3
      <4> QED
        BY <1>4, <3>2, <4>2, <4>4
    <3> QED
      BY <2>1, <3>1, <3>2
  <2>3. wizardUi \in {"form", "processing"} => ~c.mine
    BY <1>4, <2>1
  <2>4. /\ wizardPays' \subseteq C /\ \A e \in wizardPays' : e.st = "ok" => e.slot \in S
        /\ \A e, f \in wizardPays' : e.mine /\ f.mine => e = f
    BY <1>4, <2>2
  <2>5. wizardUi \in {"form", "processing"} => \A e \in wizardPays' : e.mine => e.st = "ok"
    BY <1>4, <2>2, <2>3
  <2>6. wizardUi = "form" /\ ~wizardFlow.preview => \E e \in wizardPays' : e.mine
    BY <1>4, <2>2, <2>3
  <2> QED
    BY <1>4, <2>1, <2>2, <2>4, <2>5, <2>6 DEF PayInv, SlotsOf
<1>7. CASE Wizard(back, failing)!PayAnswered
  <2>1. PICK c \in wizardPays :
          /\ c.st # "sent" /\ (c.st = "ok" /\ c.mine => wizardUi = "loading")
          /\ \/ ~c.mine /\ wizardPays' = wizardPays \ {c} /\ wizardUi' = wizardUi
             \/ c.mine /\ c.st = "ok" /\ wizardUi' = "form" /\ wizardPays' = wizardPays
             \/ c.mine /\ c.st # "ok" /\ wizardUi' = "error" /\ wizardPays' = wizardPays \ {c}
          /\ UNCHANGED <<wizardFlow, wizardPage, wizardBookings, wizardCharged>>
    BY <1>7 DEF Wizard!PayAnswered, Wizard!server
  <2> QED
    BY <1>4, <2>1 DEF PayInv, SlotsOf
<1>8. CASE Wizard(back, failing)!tryAgain
  BY <1>4, <1>8 DEF PayInv, SlotsOf, Wizard!tryAgain, Wizard!server
<1>9. CASE Wizard(back, failing)!Pay
  <2>1. /\ wizardUi = "form" /\ wizardUi' = "processing" /\ wizardPage' \in {wizardPage, "away"}
        /\ UNCHANGED <<wizardFlow, wizardBookings, wizardPays>>
        /\ \/ wizardCharged' = wizardCharged
           \/ ~wizardFlow.preview /\ wizardCharged' = wizardCharged \cup {Wizard(back, failing)!Secret.slot}
    BY <1>9 DEF Wizard!Pay
  <2>2. ~wizardFlow.preview => Wizard(back, failing)!Secret.slot \in S
    BY <1>4, <2>1, SecretIsAnswered
  <2> QED
    BY <1>4, <2>1, <2>2 DEF PayInv, SlotsOf
<1>10. CASE Wizard(back, failing)!Leave
  <2> DEFINE G == {[c EXCEPT !.mine = FALSE] : c \in wizardPays}
  <2>1. wizardPays' = G /\ wizardPage' = "list" /\ wizardUi' = "none"
        /\ UNCHANGED <<wizardFlow, wizardBookings, wizardCharged>>
    BY <1>10 DEF Wizard!Leave, Wizard!Gone, Wizard!server
  <2>2. G \subseteq C /\ \A c \in G : c.mine = FALSE /\ (c.st = "ok" => c.slot \in S)
    BY <1>4, GonePays
  <2> HIDE DEF G
  <2> QED
    BY <1>4, <2>1, <2>2 DEF PayInv, SlotsOf
<1> QED
  BY <1>2, <1>3, <1>5, <1>6, <1>7, <1>8, <1>9, <1>10
  DEF Wizard!Next, Wizard!Forward, Wizard!Answers, Wizard!World
-----------------------------------------------------------------------------
(* Without a way back every form waits, so what is sent is the page's own.  *)
LEMMA FormsWait ==
  ASSUME NEW back \in BOOLEAN, NEW failing \in BOOLEAN, ~back, TabInv(back)
  PROVE  /\ LastStep \in Nat /\ PickerStepNo \in 1 .. LastStep - 1
         /\ wizardView.step \in 1 .. LastStep /\ wizardSrv.step \in 1 .. LastStep
         /\ \A i \in 1 .. LastStep :
              /\ WizardSteps[i] \notin {"VENUE_SELECTION", "QUESTIONNAIRE", "ADD_ONS"}
              /\ WizardSteps[i] = "DATE_TIME_PICKER" <=> i = PickerStepNo
              /\ WizardSteps[i] = "PAYMENT" => i > PickerStepNo
         /\ Wizard(back, failing)!Waits = TRUE
<1>1. wizardFlow \in AFlow /\ wizardFlow.has \subseteq {"STAFF_SELECTION", "GUEST_COUNT"}
  BY WizardConstants DEF TabInv, FlowsOf
<1>2. LastStep \in Nat /\ PickerStepNo \in 1 .. LastStep - 1
  BY <1>1, StepsAre
<1>3. wizardView.step \in 1 .. LastStep /\ wizardSrv.step \in 1 .. LastStep
  BY DEF TabInv, RowOK, SessionRows
<1>4. \A i \in 1 .. LastStep : \/ (i < PickerStepNo /\ WizardSteps[i] \in {"STAFF_SELECTION", "GUEST_COUNT"})
                              \/ (i = PickerStepNo /\ WizardSteps[i] = "DATE_TIME_PICKER")
                              \/ (i > PickerStepNo /\ WizardSteps[i] \in LaterTypes)
  <2> TAKE i \in 1 .. LastStep
  <2>1. i < PickerStepNo \/ i = PickerStepNo \/ i > PickerStepNo
    BY <1>2
  <2>2. /\ i < PickerStepNo => WizardSteps[i] \in wizardFlow.has
        /\ i = PickerStepNo => WizardSteps[i] = "DATE_TIME_PICKER"
        /\ i > PickerStepNo => WizardSteps[i] \in LaterTypes
    BY <1>1, StepsAre
  <2>3. i < PickerStepNo => WizardSteps[i] \in {"STAFF_SELECTION", "GUEST_COUNT"}
    BY <1>1, <2>2
  <2> QED
    BY <2>1, <2>2, <2>3
<1>5. \A i \in 1 .. LastStep :
        /\ WizardSteps[i] \notin {"VENUE_SELECTION", "QUESTIONNAIRE", "ADD_ONS"}
        /\ WizardSteps[i] = "DATE_TIME_PICKER" <=> i = PickerStepNo
        /\ WizardSteps[i] = "PAYMENT" => i > PickerStepNo
  BY <1>2, <1>4 DEF LaterTypes
<1>6. Wizard(back, failing)!Type \notin {"VENUE_SELECTION", "QUESTIONNAIRE", "ADD_ONS"}
  BY <1>3, <1>5, StepsShown
<1>7. Wizard(back, failing)!Waits = TRUE
  BY <1>6, Zenon DEF Wizard!Waits
<1> QED
  BY <1>2, <1>3, <1>5, <1>7

LEMMA NotBusy ==
  ASSUME NEW back \in BOOLEAN, NEW failing \in BOOLEAN, OneCall, wizardPage = "wizard", ~Wizard(back, failing)!Busy
  PROVE  wizardPatches = {} /\ wizardReserves = {}
BY DEF OneCall, Wizard!Busy

LEMMA OneCallStep ==
  ASSUME NEW back \in BOOLEAN, NEW failing \in BOOLEAN, ~back, TabInv(back), PayInv(back), OneCall,
         [Wizard(back, failing)!Next]_wizardVars
  PROVE  OneCall'
<1> DEFINE n == LastStep
           k == PickerStepNo
           T == WizardSteps
<1>1. /\ n \in Nat /\ k \in 1 .. n - 1 /\ wizardView.step \in 1 .. n /\ wizardSrv.step \in 1 .. n
      /\ \A i \in 1 .. n : /\ T[i] \notin {"VENUE_SELECTION", "QUESTIONNAIRE", "ADD_ONS"}
                           /\ T[i] = "DATE_TIME_PICKER" <=> i = k
                           /\ T[i] = "PAYMENT" => i > k
      /\ Wizard(back, failing)!Waits = TRUE
  BY FormsWait
<1>2. wizardFlow' = wizardFlow
  BY DEF Wizard!Next, Wizard!Forward, Wizard!Answers, Wizard!World, wizardVars, Wizard!Submit, Wizard!SubmitNothing,
     Wizard!reserveSlot, Wizard!Pay, Wizard!goToPrevStep, Wizard!tryAgain, Wizard!Leave, Wizard!UpdateRead,
     Wizard!UpdateWrite, Wizard!PatchAnswered, Wizard!ReserveServed, Wizard!ReserveAnswered, Wizard!PayServed,
     Wizard!PayAnswered, Wizard!PatchFails, Wizard!Lapse, Wizard!OtherTakes
<1>3. n' = n /\ k' = k /\ T' = T
  BY <1>2, StepsStay
<1>4. Wizard(back, failing)!Type = IF wizardPage = "wizard" THEN T[wizardView.step] ELSE "none"
  BY StepsShown
<1>5. StepAfter \in 1 .. n /\ (wizardView.step < n => StepAfter = wizardView.step + 1)
  BY <1>1, StepAfterIs
<1> HIDE DEF n, k, T
<1>6. wizardView' = wizardView => StepAfter' = StepAfter
  BY <1>3 DEF StepAfter, n
<1>7. /\ \A p, q \in wizardPatches : p = q
      /\ \A x, y \in wizardReserves : x = y
      /\ wizardPatches = {} \/ wizardReserves = {}
      /\ wizardPage = "wizard" => (\A p \in wizardPatches : p.mine) /\ \A x \in wizardReserves : x.patch.mine
      /\ \A p \in wizardPatches : p.step = StepAfter /\ (HasRow(p) => p.row = wizardSrv)
      /\ \A x \in wizardReserves : x.patch.step = StepAfter
      /\ wizardSrv.step \in {wizardView.step, StepAfter}
      /\ wizardReserves # {} => wizardView.step = k
      /\ wizardPage = "wizard" /\ T[wizardView.step] = "PAYMENT" /\ wizardPatches # {} => wizardUi = "processing"
  BY DEF OneCall, k, T
<1>8. \A p \in wizardPatches : p \in PatchSet(back, n)
  BY DEF TabInv, PatchOK, n
<1>9. \A x \in wizardReserves : ReserveOK(back, n, wizardWasHeld, x)
  BY DEF TabInv, n
(* The page and the row stay, and at most one call is under way.           *)
<1>10. ASSUME UNCHANGED <<wizardView, wizardSrv>>,
              \A p, q \in wizardPatches' : p = q,
              \A x, y \in wizardReserves' : x = y,
              wizardPatches' = {} \/ wizardReserves' = {},
              wizardPage' = "wizard" => (\A p \in wizardPatches' : p.mine) /\ \A x \in wizardReserves' : x.patch.mine,
              \A p \in wizardPatches' : p.step = StepAfter /\ (HasRow(p) => p.row = wizardSrv),
              \A x \in wizardReserves' : x.patch.step = StepAfter,
              wizardReserves' # {} => wizardView.step = k,
              wizardPage' = "wizard" /\ T[wizardView.step] = "PAYMENT" /\ wizardPatches' # {} => wizardUi' = "processing"
       PROVE  OneCall'
  BY <1>3, <1>6, <1>7, <1>10 DEF OneCall, k, T, HasRow
<1>11. ASSUME UNCHANGED <<wizardView, wizardSrv, wizardPatches, wizardReserves, wizardPage>>,
              wizardUi = "processing" /\ wizardPatches # {} => wizardUi' = "processing"
       PROVE  OneCall'
  BY <1>7, <1>10, <1>11
<1>12. CASE UNCHANGED wizardVars
  BY <1>11, <1>12 DEF wizardVars
<1>13. CASE Wizard(back, failing)!World \/ Wizard(back, failing)!PayServed \/ Wizard(back, failing)!tryAgain
  BY <1>11, <1>13 DEF Wizard!World, Wizard!Lapse, Wizard!OtherTakes, Wizard!PayServed, Wizard!tryAgain, Wizard!server
<1>14. CASE Wizard(back, failing)!PayAnswered
  BY <1>11, <1>14 DEF Wizard!PayAnswered, Wizard!server, PayInv
<1>15. ASSUME NEW data, wizardPatches = {}, wizardReserves = {}, UNCHANGED <<wizardView, wizardSrv, wizardReserves>>,
              \/ Wizard(back, failing)!Send(Wizard(back, failing)!Patch(StepAfter, data))
              \/ wizardPatches' = wizardPatches,
              T[wizardView.step] = "PAYMENT" => wizardUi' = "processing"
       PROVE  OneCall'
  <2> DEFINE q == [step |-> StepAfter, data |-> data, mine |-> TRUE, st |-> "sent", row |-> None]
  <2>1. Wizard(back, failing)!Patch(StepAfter, data) = q
    BY <1>1 DEF Wizard!Patch
  <2>2. q.step = StepAfter /\ q.mine = TRUE /\ ~HasRow(q)
    BY DEF HasRow
  <2> HIDE DEF q
  <2>3. wizardPatches' \subseteq {q}
    BY <1>15, <2>1 DEF Wizard!Send
  <2> QED
    BY <1>10, <1>15, <2>2, <2>3
<1>16. \A new : \E data : Wizard(back, failing)!goToNextStep(new) = Wizard(back, failing)!Patch(StepAfter, data)
  BY StepsShown DEF Wizard!goToNextStep
<1>17. CASE Wizard(back, failing)!Submit
  <2>1. wizardPage = "wizard" /\ ~Wizard(back, failing)!Busy /\ T[wizardView.step] # "PAYMENT"
    BY <1>4, <1>17 DEF Wizard!Submit
  <2>2. PICK new : Wizard(back, failing)!Send(Wizard(back, failing)!goToNextStep(new))
    BY <1>17 DEF Wizard!Submit
  <2>3. PICK data : Wizard(back, failing)!goToNextStep(new) = Wizard(back, failing)!Patch(StepAfter, data)
    BY <1>16
  <2>4. UNCHANGED <<wizardView, wizardSrv, wizardReserves>>
    BY <1>17 DEF Wizard!Submit, Wizard!server
  <2> QED
    BY <1>15, <2>1, <2>2, <2>3, <2>4, NotBusy
<1>18. ~Wizard(back, failing)!SubmitNothing /\ ~Wizard(back, failing)!goToPrevStep
  BY <1>1, <1>4 DEF Wizard!SubmitNothing, Wizard!goToPrevStep
<1>19. CASE Wizard(back, failing)!Pay
  <2>1. /\ wizardPage = "wizard" /\ T[wizardView.step] = "PAYMENT" /\ wizardUi = "form" /\ wizardUi' = "processing"
        /\ UNCHANGED <<wizardView, wizardSrv, wizardReserves>>
        /\ Wizard(back, failing)!Send(Wizard(back, failing)!goToNextStep(None)) \/ wizardPatches' = wizardPatches
    BY <1>4, <1>19 DEF Wizard!Pay
  <2>2. PICK data : Wizard(back, failing)!goToNextStep(None) = Wizard(back, failing)!Patch(StepAfter, data)
    BY <1>16
  <2>3. wizardPatches = {} /\ wizardReserves = {}
    BY <1>1, <1>7, <2>1
  <2> QED
    BY <1>15, <2>1, <2>2, <2>3
<1>20. ASSUME NEW s, Wizard(back, failing)!reserveSlot(s) PROVE OneCall'
  <2> DEFINE new == [Wizard(back, failing)!NoData EXCEPT !.slot = s]
  <2>1. /\ wizardPage = "wizard" /\ T[wizardView.step] = "DATE_TIME_PICKER" /\ ~Wizard(back, failing)!Busy
        /\ wizardReserves' = wizardReserves \cup
             {[st |-> "sent", patch |-> Wizard(back, failing)!goToNextStep(new), slot |-> s]}
        /\ UNCHANGED <<wizardView, wizardSrv, wizardPatches, wizardPage, wizardUi>>
    BY <1>4, <1>20 DEF Wizard!reserveSlot, Wizard!server
  <2>2. PICK data : Wizard(back, failing)!goToNextStep(new) = Wizard(back, failing)!Patch(StepAfter, data)
    BY <1>16
  <2> DEFINE q == Wizard(back, failing)!Patch(StepAfter, data)
             x == [st |-> "sent", patch |-> q, slot |-> s]
  <2>3. q.step = StepAfter /\ q.mine = TRUE
    BY <1>1 DEF Wizard!Patch
  <2>4. wizardPatches = {} /\ wizardReserves = {} /\ wizardView.step = k
    BY <1>1, <2>1, NotBusy
  <2>5. wizardReserves' = {x}
    BY <2>1, <2>2, <2>4
  <2>6. x.patch = q
    OBVIOUS
  <2> HIDE DEF q, x
  <2> QED
    BY <1>10, <2>1, <2>3, <2>4, <2>5, <2>6
<1>21. CASE Wizard(back, failing)!PatchFails
  BY <1>7, <1>10, <1>21 DEF Wizard!PatchFails, Wizard!server
<1>22. CASE Wizard(back, failing)!ReserveServed
  <2>1. PICK x \in wizardReserves, answer \in {"ok", "refused"} :
          /\ wizardReserves' = (wizardReserves \ {x}) \cup {[x EXCEPT !.st = answer]}
          /\ UNCHANGED <<wizardSrv, wizardView, wizardPatches, wizardPage, wizardUi>>
    BY <1>22 DEF Wizard!ReserveServed, Wizard!Told
  <2> DEFINE y == [x EXCEPT !.st = answer]
  <2>2. y.patch = x.patch
    BY <1>9 DEF ReserveOK
  <2> HIDE DEF y
  <2>3. wizardReserves' = {y} /\ wizardPatches = {}
    BY <1>7, <2>1 DEF y
  <2> QED
    BY <1>7, <1>10, <2>1, <2>2, <2>3
<1>23. CASE Wizard(back, failing)!ReserveAnswered
  <2>1. PICK x \in wizardReserves :
          /\ wizardReserves' = wizardReserves \ {x}
          /\ Wizard(back, failing)!Send(x.patch) \/ wizardPatches' = wizardPatches
          /\ UNCHANGED <<wizardSrv, wizardView, wizardPage, wizardUi>>
    BY <1>23 DEF Wizard!ReserveAnswered, Wizard!server
  <2>2. wizardPatches = {} /\ wizardReserves' = {} /\ wizardView.step = k
    BY <1>7, <2>1
  <2>3. wizardPatches' \subseteq {x.patch}
    BY <2>1, <2>2 DEF Wizard!Send
  <2>4. ~HasRow(x.patch)
    BY <1>9 DEF ReserveOK, HasRow
  <2> QED
    BY <1>1, <1>7, <1>10, <2>1, <2>2, <2>3, <2>4
<1>24. \A p \in wizardPatches : /\ [p EXCEPT !.mine = FALSE].step = p.step
                                /\ HasRow([p EXCEPT !.mine = FALSE]) => HasRow(p)
                                /\ [p EXCEPT !.mine = FALSE].row = p.row
  BY <1>8 DEF PatchSet, HasRow
<1>25. \A x \in wizardReserves : [x EXCEPT !.patch.mine = FALSE].patch.step = x.patch.step
  <2>1. n \in Nat
    BY <1>1
  <2> TAKE x \in wizardReserves
  <2>2. ReserveOK(back, n, wizardWasHeld, x)
    BY <1>9
  <2> DEFINE q == [x.patch EXCEPT !.mine = FALSE]
  <2>3. [x EXCEPT !.patch.mine = FALSE] = [x EXCEPT !.patch = q]
    OBVIOUS
  <2>4. q.step = x.patch.step
    BY <2>2 DEF ReserveOK, PatchSet
  <2> HIDE DEF q
  <2>5. [x EXCEPT !.patch = q].patch = q
    BY <2>2 DEF ReserveOK
  <2> QED
    BY <2>3, <2>4, <2>5
<1>26. CASE Wizard(back, failing)!Leave
  <2> DEFINE G == {[p EXCEPT !.mine = FALSE] : p \in wizardPatches}
             H == {[x EXCEPT !.patch.mine = FALSE] : x \in wizardReserves}
  <2>1. wizardPatches' = G /\ wizardReserves' = H /\ wizardPage' = "list" /\ UNCHANGED <<wizardSrv, wizardView>>
    BY <1>26 DEF Wizard!Leave, Wizard!server, Wizard!Gone, Wizard!GoneReserves
  <2>2. \A p, q \in G : p = q
    BY <1>7
  <2>3. \A p \in G : p.step = StepAfter /\ (HasRow(p) => p.row = wizardSrv)
    <3> TAKE q \in G
    <3>1. PICK p \in wizardPatches : q = [p EXCEPT !.mine = FALSE]
      OBVIOUS
    <3>2. q.step = p.step /\ (HasRow(q) => HasRow(p)) /\ q.row = p.row
      BY <1>24, <3>1
    <3> QED
      BY <1>7, <3>2
  <2>4. \A x, y \in H : x = y
    BY <1>7
  <2>5. \A x \in H : x.patch.step = StepAfter
    BY <1>7, <1>25
  <2>6. (wizardPatches = {} => G = {}) /\ (wizardReserves = {} => H = {})
    OBVIOUS
  <2> HIDE DEF G, H
  <2> QED
    BY <1>7, <1>10, <2>1, <2>2, <2>3, <2>4, <2>5, <2>6
<1>27. CASE Wizard(back, failing)!UpdateRead
  <2>1. PICK p \in wizardPatches :
          /\ wizardPatches' =
               (wizardPatches \ {p}) \cup {[p EXCEPT !.st = "read", !.row = IF p.data = None THEN None ELSE wizardSrv]}
          /\ UNCHANGED <<wizardSrv, wizardView, wizardReserves, wizardPage, wizardUi>>
    BY <1>27 DEF Wizard!UpdateRead, Wizard!Became, Wizard!server
  <2> DEFINE row == IF p.data = None THEN None ELSE wizardSrv
             q == [p EXCEPT !.st = "read", !.row = row]
  <2>2. q = [step |-> p.step, data |-> p.data, mine |-> p.mine, st |-> "read", row |-> row]
    BY <1>8, <2>1, PatchFields
  <2>3. q.step = p.step /\ q.mine = p.mine /\ (HasRow(q) => q.row = wizardSrv)
    BY <2>2 DEF HasRow
  <2> HIDE DEF q
  <2>4. wizardPatches' = {q} /\ wizardReserves = {}
    BY <1>7, <2>1 DEF q
  <2> QED
    BY <1>7, <1>10, <2>1, <2>3, <2>4
<1>28. CASE Wizard(back, failing)!UpdateWrite
  <2>1. PICK p \in wizardPatches :
          /\ wizardSrv' = Wizard(back, failing)!Written(p)
          /\ wizardPatches' =
               (wizardPatches \ {p}) \cup {[p EXCEPT !.st = "done", !.row = Wizard(back, failing)!Written(p)]}
          /\ UNCHANGED <<wizardView, wizardReserves, wizardPage, wizardUi>>
    BY <1>28 DEF Wizard!UpdateWrite, Wizard!Became
  <2> DEFINE q == [p EXCEPT !.st = "done", !.row = Wizard(back, failing)!Written(p)]
  <2>2. q = [step |-> p.step, data |-> p.data, mine |-> p.mine, st |-> "done", row |-> wizardSrv']
    BY <1>8, <2>1, PatchFields
  <2>3. q.step = p.step /\ q.mine = p.mine /\ q.row = wizardSrv'
    BY <2>2
  <2> HIDE DEF q
  <2>4. wizardPatches' = {q} /\ wizardReserves = {}
    BY <1>7, <2>1 DEF q
  <2>5. wizardSrv'.step = StepAfter
    BY <1>7, <2>1 DEF Wizard!Written
  <2> QED
    BY <1>3, <1>6, <1>7, <2>1, <2>3, <2>4, <2>5 DEF OneCall, k, T, HasRow
<1>29. CASE Wizard(back, failing)!PatchAnswered
  <2>1. PICK p \in wizardPatches :
          p.st = "done" /\ Wizard(back, failing)!Shows(p.row, wizardPatches \ {p}) /\ wizardSrv' = wizardSrv
    BY <1>29 DEF Wizard!PatchAnswered, Wizard!server
  <2>2. wizardPatches \ {p} = {} /\ wizardReserves = {} /\ p.row = wizardSrv
    BY <1>7, <2>1 DEF HasRow
  <2>3. wizardView' = wizardSrv /\ wizardPatches' = {} /\ wizardReserves' = {}
    BY <2>1, <2>2, RowIsShown
  <2> QED
    BY <2>1, <2>3 DEF OneCall
<1> QED
  BY <1>12, <1>13, <1>14, <1>17, <1>18, <1>19, <1>20, <1>21, <1>22, <1>23, <1>26, <1>27, <1>28, <1>29
  DEF Wizard!Next, Wizard!Forward, Wizard!Answers
-----------------------------------------------------------------------------
(* What a form sends keeps the slot of the page.                           *)
LEMMA SubmitKeepsSlot ==
  ASSUME NEW back \in BOOLEAN, NEW failing \in BOOLEAN, TabInv(back), Wizard(back, failing)!Submit
  PROVE  \E q : /\ q.st = "sent" /\ (q.data # None => q.data.slot = wizardView.data.slot)
                /\ wizardPatches' = wizardPatches \cup {q}
                /\ UNCHANGED <<wizardSrv, wizardView, wizardWasHeld, wizardReserves, wizardPays, wizardCharged>>
<1> DEFINE t == Wizard(back, failing)!Type
           new == IF t = "VENUE_SELECTION" THEN None ELSE Wizard(back, failing)!Given(t, wizardView.data)
           d == IF new = None THEN None ELSE Wizard(back, failing)!Merge(wizardView.data, new)
<1>1. wizardView.data \in DataSet(back) /\ wizardView.step \in 1 .. LastStep
  BY DEF TabInv, RowOK, SessionRows
<1>2. /\ Wizard(back, failing)!Send(Wizard(back, failing)!goToNextStep(new))
      /\ UNCHANGED <<wizardSrv, wizardView, wizardWasHeld, wizardReserves, wizardPays, wizardCharged>>
      /\ t \notin {"none", "DATE_TIME_PICKER", "PAYMENT", "CONFIRMATION"}
  BY DEF Wizard!Submit, Wizard!server
<1>3. t \in FirstTypes \cup LaterTypes
  <2>1. wizardFlow \in AFlow
    BY WizardConstants DEF TabInv
  <2>2. wizardFlow.has \subseteq FirstTypes
    BY <2>1 DEF AFlow
  <2>3. PickerStepNo \in Nat /\ LastStep \in Nat
    BY <2>1, StepsAre
  <2>4. t = WizardSteps[wizardView.step]
    BY <1>2, StepsShown
  <2>5. wizardView.step < PickerStepNo \/ wizardView.step = PickerStepNo \/ wizardView.step > PickerStepNo
    BY <1>1, <2>3
  <2>6. WizardSteps[wizardView.step] \in FirstTypes \cup LaterTypes \cup {"DATE_TIME_PICKER"}
    BY <1>1, <2>1, <2>2, <2>5, StepsAre
  <2> QED
    BY <1>2, <2>4, <2>6
<1>4. new = None \/ (new \in DataSet(back) /\ new.slot = None)
  BY <1>1, <1>2, <1>3, GivenIsData
<1> HIDE DEF new, t
<1>5. d # None => d.slot = wizardView.data.slot
  BY <1>1, <1>4, MergeIsData
<1>6. Wizard(back, failing)!goToNextStep(new) = Wizard(back, failing)!Patch(StepAfter, d)
  BY StepsShown DEF Wizard!goToNextStep
<1> HIDE DEF d
<1>7. PICK mine \in BOOLEAN : Wizard(back, failing)!Patch(StepAfter, d) = SentPatch(StepAfter, d, mine)
  BY PatchIsSent
<1> DEFINE q == SentPatch(StepAfter, d, mine)
<1>8. q.st = "sent" /\ q.data = d
  BY DEF SentPatch
<1>9. wizardPatches' = wizardPatches \cup {q}
  BY <1>2, <1>6, <1>7 DEF Wizard!Send
<1> HIDE DEF q
<1> QED
  BY <1>2, <1>5, <1>8, <1>9

CarriedBy == <<wizardFlow, wizardView, wizardSrv, wizardWasHeld, wizardPatches, wizardReserves, wizardPays, wizardCharged>>

(* If no call fails: what the picker reserved is what is charged.          *)
LEMMA CarriedStep ==
  ASSUME NEW back \in BOOLEAN, NEW failing \in BOOLEAN, ~back, ~failing, TabInv(back), PayInv(back), OneCall, Carried,
         [Wizard(back, failing)!Next]_wizardVars
  PROVE  Carried'
<1> DEFINE n == LastStep
           k == PickerStepNo
           T == WizardSteps
           W == wizardWasHeld
           s0 == wizardSrv.data.slot
<1>1. /\ n \in Nat /\ k \in 1 .. n - 1 /\ wizardView.step \in 1 .. n /\ wizardSrv.step \in 1 .. n
      /\ \A i \in 1 .. n : /\ T[i] \notin {"VENUE_SELECTION", "QUESTIONNAIRE", "ADD_ONS"}
                           /\ T[i] = "DATE_TIME_PICKER" <=> i = k
                           /\ T[i] = "PAYMENT" => i > k
  BY FormsWait
<1>2. wizardFlow' = wizardFlow
  BY DEF Wizard!Next, Wizard!Forward, Wizard!Answers, Wizard!World, wizardVars, Wizard!Submit, Wizard!SubmitNothing,
     Wizard!reserveSlot, Wizard!Pay, Wizard!goToPrevStep, Wizard!tryAgain, Wizard!Leave, Wizard!UpdateRead,
     Wizard!UpdateWrite, Wizard!PatchAnswered, Wizard!ReserveServed, Wizard!ReserveAnswered, Wizard!PayServed,
     Wizard!PayAnswered, Wizard!PatchFails, Wizard!Lapse, Wizard!OtherTakes
<1>3. k' = k
  BY <1>2, StepsStay
<1>4. Wizard(back, failing)!Type = IF wizardPage = "wizard" THEN T[wizardView.step] ELSE "none"
  BY StepsShown
<1>5. StepAfter \in wizardView.step .. n /\ (wizardView.step < n => StepAfter = wizardView.step + 1)
  BY <1>1, StepAfterIs
<1>6. /\ \A p, q \in wizardPatches : p = q
      /\ \A x, y \in wizardReserves : x = y
      /\ wizardPatches = {} \/ wizardReserves = {}
      /\ \A p \in wizardPatches : p.step = StepAfter /\ (HasRow(p) => p.row = wizardSrv)
      /\ wizardSrv.step \in {wizardView.step, StepAfter}
      /\ wizardReserves # {} => wizardView.step = k
      /\ wizardPage = "wizard" /\ T[wizardView.step] = "PAYMENT" /\ wizardPatches # {} => wizardUi = "processing"
  BY DEF OneCall
<1>7. /\ \A p \in wizardPatches : p \in PatchSet(back, n)
      /\ \A x \in wizardReserves : ReserveOK(back, n, W, x)
      /\ W \subseteq SlotsOf(back) /\ None \notin SlotsOf(back) /\ None \notin DataSet(back)
      /\ wizardHeld \subseteq W
      /\ wizardSrv \in SessionRows(back, n) /\ wizardView \in SessionRows(back, n)
  BY WizardConstants DEF TabInv, PatchOK, RowOK
<1>8. wizardPays \subseteq [mine: BOOLEAN, st: {"sent", "ok", "failed"}, slot: SlotsOf(back) \cup {None}]
  BY DEF PayInv
<1>9. /\ wizardView.step < k => W = {}
      /\ wizardView.step = k => /\ wizardPatches = {} /\ (\A x \in wizardReserves : x.st # "ok") => W = {}
                                /\ \A x \in wizardReserves : x.st = "ok" => W = {x.slot}
                                /\ \A p \in wizardPatches : /\ p.data # None /\ W = {p.data.slot}
                                                            /\ p.st = "done" => s0 = p.data.slot /\ wizardSrv.step = k + 1
      /\ wizardView.step > k => /\ W = {s0} /\ wizardView.data.slot = s0
                                /\ \A p \in wizardPatches : p.data # None => p.data.slot = s0
      /\ wizardPays # {} \/ wizardCharged # {} => wizardView.step > k
      /\ \A c \in wizardPays : c.st = "ok" => c.slot = s0
      /\ wizardCharged \subseteq {s0}
  BY DEF Carried
<1> HIDE DEF n, k, T
(* The page, the row and what was held stay.                               *)
<1>10. ASSUME UNCHANGED <<wizardView, wizardSrv, wizardWasHeld>>,
              wizardView.step = k => /\ wizardPatches' = {} /\ (\A x \in wizardReserves' : x.st # "ok") => W = {}
                                     /\ \A x \in wizardReserves' : x.st = "ok" => W = {x.slot}
                                     /\ \A p \in wizardPatches' : /\ p.data # None /\ W = {p.data.slot}
                                                                  /\ p.st = "done" => s0 = p.data.slot /\ wizardSrv.step = k + 1,
              wizardView.step > k => \A p \in wizardPatches' : p.data # None => p.data.slot = s0,
              wizardPays' # {} \/ wizardCharged' # {} => wizardView.step > k,
              \A c \in wizardPays' : c.st = "ok" => c.slot = s0,
              wizardCharged' \subseteq {s0}
       PROVE  Carried'
  BY <1>3, <1>9, <1>10 DEF Carried, k
<1>11. ASSUME UNCHANGED CarriedBy PROVE Carried'
  BY <1>9, <1>10, <1>11 DEF CarriedBy
<1>12. CASE UNCHANGED wizardVars
  BY <1>11, <1>12 DEF wizardVars, CarriedBy
<1>13. CASE Wizard(back, failing)!World \/ Wizard(back, failing)!tryAgain
  BY <1>11, <1>13 DEF Wizard!World, Wizard!Lapse, Wizard!OtherTakes, Wizard!tryAgain, Wizard!server, CarriedBy
<1>14. CASE Wizard(back, failing)!PayAnswered
  <2>1. wizardPays' \subseteq wizardPays
    BY <1>14 DEF Wizard!PayAnswered
  <2>2. UNCHANGED <<wizardView, wizardSrv, wizardWasHeld, wizardPatches, wizardReserves, wizardCharged>>
    BY <1>14 DEF Wizard!PayAnswered, Wizard!server
  <2> QED
    BY <1>9, <1>10, <2>1, <2>2
<1>15. ~Wizard(back, failing)!PatchFails
  BY DEF Wizard!PatchFails
<1>16. CASE Wizard(back, failing)!Submit
  <2>1. wizardPage = "wizard" /\ ~Wizard(back, failing)!Busy /\ T[wizardView.step] # "DATE_TIME_PICKER"
    BY <1>4, <1>16 DEF Wizard!Submit
  <2>2. wizardPatches = {} /\ wizardReserves = {} /\ wizardView.step # k
    BY <1>1, <2>1, NotBusy
  <2>3. PICK q : /\ q.st = "sent" /\ (q.data # None => q.data.slot = wizardView.data.slot)
                 /\ wizardPatches' = wizardPatches \cup {q}
                 /\ UNCHANGED <<wizardSrv, wizardView, wizardWasHeld, wizardReserves, wizardPays, wizardCharged>>
    BY <1>16, SubmitKeepsSlot
  <2> QED
    BY <1>9, <1>10, <2>2, <2>3
<1>17. ~Wizard(back, failing)!SubmitNothing /\ ~Wizard(back, failing)!goToPrevStep
  BY <1>1, <1>4 DEF Wizard!SubmitNothing, Wizard!goToPrevStep
<1>18. CASE Wizard(back, failing)!Pay
  <2>1. /\ wizardPage = "wizard" /\ T[wizardView.step] = "PAYMENT" /\ wizardUi = "form"
        /\ UNCHANGED <<wizardView, wizardSrv, wizardWasHeld, wizardReserves, wizardPays>>
        /\ Wizard(back, failing)!Send(Wizard(back, failing)!goToNextStep(None)) \/ wizardPatches' = wizardPatches
        /\ IF wizardFlow.preview THEN UNCHANGED wizardCharged
           ELSE wizardCharged' = wizardCharged \cup {Wizard(back, failing)!Secret.slot}
    BY <1>4, <1>18 DEF Wizard!Pay
  <2>2. PICK mine \in BOOLEAN : Wizard(back, failing)!goToNextStep(None) = SentPatch(StepAfter, None, mine)
    BY StepsShown, PatchIsSent DEF Wizard!goToNextStep
  <2> DEFINE q == SentPatch(StepAfter, None, mine)
  <2>3. q.data = None
    BY DEF SentPatch
  <2> HIDE DEF q
  <2>4. wizardView.step > k /\ wizardPatches = {}
    BY <1>1, <1>6, <2>1
  <2>5. wizardPatches' \subseteq {q}
    BY <2>1, <2>2, <2>4 DEF Wizard!Send, q
  <2>6. ~wizardFlow.preview => Wizard(back, failing)!Secret.slot = s0
    BY <1>9, <2>1, SecretIsAnswered
  <2>7. wizardCharged' \subseteq {s0}
    BY <1>9, <2>1, <2>6
  <2>8. \A p \in wizardPatches' : p.data # None => p.data.slot = s0
    BY <2>3, <2>5
  <2>9. \A c \in wizardPays' : c.st = "ok" => c.slot = s0
    BY <1>9, <2>1
  <2>10. wizardView.step # k
    BY <1>1, <2>4
  <2> QED
    BY <1>10, <2>1, <2>4, <2>7, <2>8, <2>9, <2>10
<1>19. ASSUME NEW s, Wizard(back, failing)!reserveSlot(s) PROVE Carried'
  <2>1. /\ wizardPage = "wizard" /\ T[wizardView.step] = "DATE_TIME_PICKER" /\ ~Wizard(back, failing)!Busy
        /\ UNCHANGED <<wizardView, wizardSrv, wizardWasHeld, wizardPatches, wizardPays, wizardCharged>>
    BY <1>4, <1>19 DEF Wizard!reserveSlot, Wizard!server
  <2>2. wizardPatches = {} /\ wizardReserves = {} /\ wizardView.step = k
    BY <1>1, <2>1, NotBusy
  <2>3. PICK q : wizardReserves' = wizardReserves \cup {[st |-> "sent", patch |-> q, slot |-> s]}
    BY <1>19 DEF Wizard!reserveSlot
  <2>4. \A x \in wizardReserves' : x.st # "ok"
    BY <2>2, <2>3
  <2> QED
    BY <1>9, <1>10, <2>1, <2>2, <2>4
<1>20. CASE Wizard(back, failing)!ReserveServed
  <2>1. PICK x \in wizardReserves, answer \in {"ok", "refused"} :
          /\ x.st = "sent"
          /\ wizardReserves' = (wizardReserves \ {x}) \cup {[x EXCEPT !.st = answer]}
          /\ wizardWasHeld' = IF answer = "ok" THEN W \cup {x.slot} ELSE W
          /\ UNCHANGED <<wizardSrv, wizardView, wizardPatches, wizardPays, wizardCharged>>
    BY <1>20 DEF Wizard!ReserveServed, Wizard!Told
  <2> DEFINE y == [x EXCEPT !.st = answer]
  <2>2. y.st = answer /\ y.slot = x.slot
    BY <1>7 DEF ReserveOK
  <2> HIDE DEF y
  <2>3. wizardReserves' = {y} /\ wizardPatches = {} /\ wizardView.step = k /\ W = {}
    BY <1>6, <1>9, <2>1 DEF y
  <2>4. wizardPatches' = {} /\ wizardPays = {} /\ wizardCharged = {}
    BY <1>1, <1>9, <2>1, <2>3
  <2>5. wizardWasHeld' = IF answer = "ok" THEN {y.slot} ELSE {}
    BY <2>1, <2>2, <2>3
  <2> QED
    BY <1>1, <1>3, <2>1, <2>2, <2>3, <2>4, <2>5 DEF Carried, k
<1>21. CASE Wizard(back, failing)!ReserveAnswered
  <2>1. PICK x \in wizardReserves :
          /\ wizardReserves' = wizardReserves \ {x}
          /\ \/ x.st = "ok" /\ Wizard(back, failing)!Send(x.patch)
             \/ x.st = "refused" /\ wizardPatches' = wizardPatches
          /\ UNCHANGED <<wizardSrv, wizardView, wizardWasHeld, wizardPays, wizardCharged>>
    BY <1>21 DEF Wizard!ReserveAnswered, Wizard!server
  <2>2. wizardPatches = {} /\ wizardReserves = {x} /\ wizardReserves' = {} /\ wizardView.step = k
    BY <1>6, <2>1
  <2>3. x.patch.st = "sent" /\ x.patch.data # None /\ x.patch.data.slot = x.slot
    BY <1>7 DEF ReserveOK
  <2>4. CASE x.st = "ok" /\ Wizard(back, failing)!Send(x.patch)
    <3>1. wizardPatches' = {x.patch} /\ W = {x.slot}
      BY <1>9, <2>2, <2>4 DEF Wizard!Send
    <3> QED
      BY <1>1, <1>9, <1>10, <2>1, <2>2, <2>3, <3>1
  <2>5. CASE x.st = "refused" /\ wizardPatches' = wizardPatches
    <3>1. W = {}
      BY <1>9, <2>2, <2>5
    <3> QED
      BY <1>1, <1>9, <1>10, <2>1, <2>2, <2>5, <3>1
  <2> QED
    BY <2>1, <2>4, <2>5
<1>22. CASE Wizard(back, failing)!PayServed
  <2>1. PICK c \in wizardPays :
          /\ \/ \E s \in wizardHeld : wizardPays' = (wizardPays \ {c}) \cup {[c EXCEPT !.st = "ok", !.slot = s]}
             \/ wizardPays' = (wizardPays \ {c}) \cup {[c EXCEPT !.st = "failed"]}
          /\ UNCHANGED <<wizardView, wizardSrv, wizardWasHeld, wizardPatches, wizardReserves, wizardCharged>>
    BY <1>22 DEF Wizard!PayServed
  <2>2. wizardView.step > k /\ W = {s0}
    BY <1>9, <2>1
  <2>3. ASSUME NEW s \in wizardHeld, NEW e, e \in wizardPays',
               wizardPays' = (wizardPays \ {c}) \cup {[c EXCEPT !.st = "ok", !.slot = s]}, e.st = "ok"
        PROVE  e.slot = s0
    <3> DEFINE d == [c EXCEPT !.st = "ok"]
    <3>1. d = [mine |-> c.mine, st |-> "ok", slot |-> c.slot]
      BY <1>8
    <3>2. [c EXCEPT !.st = "ok", !.slot = s] = [d EXCEPT !.slot = s]
      OBVIOUS
    <3> HIDE DEF d
    <3>3. [d EXCEPT !.slot = s].slot = s
      BY <3>1
    <3>4. s = s0
      BY <1>7, <2>2
    <3> QED
      BY <1>9, <2>3, <3>2, <3>3, <3>4
  <2>4. [c EXCEPT !.st = "failed"].st = "failed"
    BY <1>8
  <2>5. \A e \in wizardPays' : e.st = "ok" => e.slot = s0
    BY <1>9, <2>1, <2>3, <2>4
  <2> QED
    BY <1>9, <1>10, <2>1, <2>2, <2>5
<1>23. \A p \in wizardPatches : /\ [p EXCEPT !.mine = FALSE].st = p.st
                                /\ [p EXCEPT !.mine = FALSE].data = p.data
  BY <1>7 DEF PatchSet
<1>24. \A x \in wizardReserves : [x EXCEPT !.patch.mine = FALSE].st = x.st /\ [x EXCEPT !.patch.mine = FALSE].slot = x.slot
  <2> TAKE x \in wizardReserves
  <2> DEFINE q == [x.patch EXCEPT !.mine = FALSE]
  <2>1. [x EXCEPT !.patch.mine = FALSE] = [x EXCEPT !.patch = q]
    OBVIOUS
  <2> HIDE DEF q
  <2> QED
    BY <1>7, <2>1 DEF ReserveOK
<1> DEFINE H == {[c EXCEPT !.mine = FALSE] : c \in wizardPays}
<1>25. (wizardPays = {} => H = {}) /\ \A c \in H : c.st = "ok" => c.slot = s0
  BY <1>8, <1>9
<1>26. CASE Wizard(back, failing)!Leave
  <2> DEFINE F == {[p EXCEPT !.mine = FALSE] : p \in wizardPatches}
             G == {[x EXCEPT !.patch.mine = FALSE] : x \in wizardReserves}
  <2>1. /\ wizardPatches' = F /\ wizardReserves' = G /\ wizardPays' = H
        /\ UNCHANGED <<wizardSrv, wizardView, wizardWasHeld, wizardCharged>>
    BY <1>26 DEF Wizard!Leave, Wizard!server, Wizard!Gone, Wizard!GoneReserves
  <2>2. \A q \in F : \E p \in wizardPatches : q.st = p.st /\ q.data = p.data
    BY <1>23
  <2>3. (\A y \in G : \E x \in wizardReserves : y.st = x.st /\ y.slot = x.slot) /\ (wizardPatches # {} => F # {})
    BY <1>24
  <2>4. \A x \in wizardReserves : \E y \in G : y.st = x.st
    BY <1>24
  <2> HIDE DEF F, G, H
  <2> QED
    BY <1>9, <1>10, <1>25, <2>1, <2>2, <2>3, <2>4
<1> HIDE DEF H
<1>27. CASE Wizard(back, failing)!UpdateRead
  <2>1. PICK p \in wizardPatches :
          /\ wizardPatches' =
               (wizardPatches \ {p}) \cup {[p EXCEPT !.st = "read", !.row = IF p.data = None THEN None ELSE wizardSrv]}
          /\ UNCHANGED <<wizardSrv, wizardView, wizardWasHeld, wizardReserves, wizardPays, wizardCharged>>
    BY <1>27 DEF Wizard!UpdateRead, Wizard!Became, Wizard!server
  <2> DEFINE row == IF p.data = None THEN None ELSE wizardSrv
             q == [p EXCEPT !.st = "read", !.row = row]
  <2>2. q = [step |-> p.step, data |-> p.data, mine |-> p.mine, st |-> "read", row |-> row]
    BY <1>7, <2>1, PatchFields
  <2>3. q.data = p.data /\ q.st = "read"
    BY <2>2
  <2> HIDE DEF q
  <2>4. wizardPatches' = {q} /\ wizardReserves = {}
    BY <1>6, <2>1 DEF q
  <2> QED
    BY <1>9, <1>10, <2>1, <2>3, <2>4
<1>28. CASE Wizard(back, failing)!UpdateWrite
  <2>1. PICK p \in wizardPatches :
          /\ p.st = "read"
          /\ wizardSrv' = Wizard(back, failing)!Written(p)
          /\ wizardPatches' =
               (wizardPatches \ {p}) \cup {[p EXCEPT !.st = "done", !.row = Wizard(back, failing)!Written(p)]}
          /\ UNCHANGED <<wizardView, wizardWasHeld, wizardReserves, wizardPays, wizardCharged>>
    BY <1>28 DEF Wizard!UpdateWrite, Wizard!Became
  <2> DEFINE q == [p EXCEPT !.st = "done", !.row = Wizard(back, failing)!Written(p)]
  <2>2. q = [step |-> p.step, data |-> p.data, mine |-> p.mine, st |-> "done", row |-> wizardSrv']
    BY <1>7, <2>1, PatchFields
  <2>3. q.data = p.data
    BY <2>2
  <2> HIDE DEF q
  <2>4. wizardPatches' = {q} /\ wizardReserves = {}
    BY <1>6, <2>1 DEF q
  <2>5. wizardSrv'.step = StepAfter
    BY <1>6, <2>1 DEF Wizard!Written
  <2>6. wizardSrv'.data = IF p.data = None THEN wizardSrv.data ELSE Wizard(back, failing)!Merge(wizardSrv.data, p.data)
    BY <1>6, <2>1 DEF Wizard!Written, HasRow
  <2>7. wizardSrv.data \in DataSet(back) /\ p.data \in DataSet(back) \cup {None}
    BY <1>7 DEF SessionRows, PatchSet
  <2>8. p.data # None /\ p.data.slot # None => wizardSrv'.data.slot = p.data.slot
    BY <2>6, <2>7, MergeIsData
  <2>9. CASE wizardView.step < k
    BY <1>1, <1>3, <1>9, <2>1, <2>9 DEF Carried, k
  <2>10. CASE wizardView.step = k
    <3>1. p.data # None /\ W = {p.data.slot}
      BY <1>9, <2>10
    <3>2. wizardSrv'.data.slot = p.data.slot
      BY <1>7, <2>8, <3>1
    <3>3. wizardSrv'.step = k + 1
      BY <1>1, <1>5, <2>5, <2>10
    <3>4. wizardPays = {} /\ wizardCharged = {}
      BY <1>1, <1>9, <2>10
    <3> QED
      BY <1>1, <1>3, <2>1, <2>3, <2>4, <2>10, <3>1, <3>2, <3>3, <3>4 DEF Carried, k
  <2>11. CASE wizardView.step > k
    <3>1. W = {s0} /\ (p.data # None => p.data.slot = s0)
      BY <1>9, <2>11
    <3>2. wizardSrv'.data.slot = s0
      BY <1>7, <2>6, <2>8, <3>1
    <3> QED
      BY <1>1, <1>3, <1>9, <2>1, <2>3, <2>4, <2>11, <3>1, <3>2 DEF Carried, k
  <2> QED
    BY <1>1, <2>9, <2>10, <2>11
<1>29. CASE Wizard(back, failing)!PatchAnswered
  <2>1. PICK p \in wizardPatches :
          /\ p.st = "done" /\ Wizard(back, failing)!Shows(p.row, wizardPatches \ {p})
          /\ UNCHANGED <<wizardSrv, wizardWasHeld, wizardCharged>>
    BY <1>29 DEF Wizard!PatchAnswered, Wizard!server
  <2>2. wizardPatches \ {p} = {} /\ wizardReserves = {} /\ p.row = wizardSrv
    BY <1>6, <2>1 DEF HasRow
  <2> DEFINE a == [mine |-> TRUE, st |-> "sent", slot |-> None]
  <2>3. /\ wizardView' = wizardSrv /\ wizardPatches' = {} /\ wizardReserves' = {}
        /\ \/ wizardPays' = wizardPays
           \/ wizardPays' = H
           \/ (wizardPays' = H \cup {a} /\ T[wizardSrv.step] = "PAYMENT")
    BY <2>1, <2>2, RowIsShown DEF H, T
  <2>4. \A c \in wizardPays' : c.st = "ok" => c.slot = s0
    BY <1>9, <1>25, <2>3
  <2>5. wizardPays' # {} => wizardPays # {} \/ wizardSrv.step > k
    BY <1>1, <1>25, <2>3
  <2>6. CASE wizardView.step < k
    <3>1. wizardSrv.step \in 1 .. k /\ W = {} /\ wizardPays = {} /\ wizardCharged = {}
      BY <1>1, <1>5, <1>6, <1>9, <2>6
    <3>2. wizardPays' = {}
      BY <1>1, <2>5, <3>1
    <3> QED
      BY <1>1, <1>3, <2>1, <2>3, <3>1, <3>2 DEF Carried, k
  <2>7. CASE wizardView.step = k
    <3>1. wizardSrv.step = k + 1 /\ W = {s0}
      BY <1>9, <2>1, <2>7
    <3> QED
      BY <1>1, <1>3, <1>9, <2>1, <2>3, <2>4, <3>1 DEF Carried, k
  <2>8. CASE wizardView.step > k
    <3>1. wizardSrv.step > k /\ W = {s0}
      BY <1>1, <1>5, <1>6, <1>9, <2>8
    <3> QED
      BY <1>1, <1>3, <1>9, <2>1, <2>3, <2>4, <3>1 DEF Carried, k
  <2> QED
    BY <1>1, <2>6, <2>7, <2>8
<1> QED
  BY <1>12, <1>13, <1>14, <1>15, <1>16, <1>17, <1>18, <1>19, <1>20, <1>21, <1>22, <1>26, <1>27, <1>28, <1>29
  DEF Wizard!Next, Wizard!Forward, Wizard!Answers
-----------------------------------------------------------------------------
LEMMA WizardInit ==
  ASSUME NEW back \in BOOLEAN, NEW failing \in BOOLEAN, Wizard(back, failing)!Init
  PROVE  TabInv(back) /\ PayInv(back) /\ OneCall /\ Carried
<1> DEFINE none == [got |-> {}, slot |-> None, total |-> None]
<1>1. wizardFlow \in FlowsOf(back)
  BY DEF Wizard!Init, FlowsOf
<1>2. /\ wizardSrv = [step |-> 1, data |-> none] /\ wizardView = wizardSrv /\ wizardPage = "wizard" /\ wizardUi = "none"
      /\ wizardHeld = {} /\ wizardWasHeld = {} /\ wizardTaken = {} /\ wizardBookings = {} /\ wizardCharged = {}
      /\ wizardPatches = {} /\ wizardPays = {} /\ wizardReserves = {}
  BY DEF Wizard!Init, Wizard!NoData
<1>3. LastStep \in Nat /\ PickerStepNo \in 1 .. LastStep - 1
  BY <1>1, WizardConstants, StepsAre
<1>4. none \in DataSet(back) /\ none.slot = None
  BY DEF DataSet
<1> HIDE DEF none
<1>5. wizardSrv.step = 1 /\ wizardSrv.data = none
  BY <1>2
<1>6. RowOK(back, LastStep, wizardWasHeld, wizardSrv)
  BY <1>2, <1>3, <1>4 DEF RowOK, SessionRows
<1>7. TabInv(back)
  BY <1>1, <1>2, <1>6 DEF TabInv
<1>8. PayInv(back)
  BY <1>2 DEF PayInv
<1>9. OneCall
  BY <1>2, <1>5 DEF OneCall
<1>10. Carried
  BY <1>2, <1>3, <1>5 DEF Carried
<1> QED
  BY <1>7, <1>8, <1>9, <1>10

(* What the invariants say of the tab.                                     *)
LEMMA WizardTypeOK ==
  ASSUME NEW back \in BOOLEAN, NEW failing \in BOOLEAN, TabInv(back), PayInv(back)
  PROVE  Wizard(back, failing)!TypeOK
<1>1. /\ Wizard(back, failing)!Data = DataSet(back)
      /\ Wizard(back, failing)!Row = SessionRows(back, LastStep)
      /\ Wizard(back, failing)!PatchType = PatchSet(back, LastStep)
  BY StepsShown
  DEF Wizard!Data, Wizard!Row, Wizard!PatchType, Wizard!Optional, DataSet, SessionRows, PatchSet, SlotsOf, LastStep, FirstTypes
<1>2. /\ wizardSrv \in SessionRows(back, LastStep) /\ wizardView \in SessionRows(back, LastStep)
      /\ wizardPatches \subseteq PatchSet(back, LastStep)
      /\ wizardReserves \subseteq [st: {"sent", "ok", "refused"}, patch: PatchSet(back, LastStep), slot: SlotsOf(back)]
      /\ wizardHeld \subseteq SlotsOf(back) /\ wizardWasHeld \subseteq SlotsOf(back) /\ wizardTaken \subseteq SlotsOf(back)
      /\ wizardFlow \in FlowsOf(back)
  BY DEF TabInv, RowOK, PatchOK, ReserveOK
<1> QED
  BY <1>1, <1>2 DEF Wizard!TypeOK, PayInv, SlotsOf, FlowsOf

LEMMA ShownWasGiven ==
  ASSUME NEW back \in BOOLEAN, NEW failing \in BOOLEAN, TabInv(back)
  PROVE  Wizard(back, failing)!ShownWasHeld
BY DEF TabInv, RowOK, Wizard!ShownWasHeld

LEMMA TabFollows ==
  ASSUME NEW back \in BOOLEAN, NEW failing \in BOOLEAN, ~back, TabInv(back), OneCall
  PROVE  Wizard(back, failing)!ViewFollows
<1>1. LastStep \in Nat /\ wizardView.step \in 1 .. LastStep
  BY FormsWait
<1>2. wizardSrv.step \in {wizardView.step, StepAfter}
  BY DEF OneCall
<1> QED
  BY <1>1, <1>2, StepAfterIs DEF Wizard!ViewFollows

LEMMA WizardTurns ==
  ASSUME [Next]_vars
  PROVE  /\ under' = under
         /\ under = "wizard" => [Wizard(FALSE, FALSE)!Next]_wizardVars
         /\ under = "wizard, calls fail" => [Wizard(FALSE, TRUE)!Next]_wizardVars
         /\ under = "wizard, way back" => [Wizard(TRUE, FALSE)!Next]_wizardVars
BY DEF Next, Turn, vars, NotDay, NotPush, NotMirror, NotLimit, NotPicker

OneWay == {"wizard", "wizard, calls fail"}
WizardInv ==
  /\ under = "wizard, way back" => TabInv(TRUE) /\ PayInv(TRUE)
  /\ under \in OneWay => TabInv(FALSE) /\ PayInv(FALSE) /\ OneCall
  /\ under = "wizard" => Carried

LEMMA WizardInvStep == ASSUME WizardInv, [Next]_vars PROVE WizardInv'
<1>1. under' = under
  BY WizardTurns
<1>2. under = "wizard, way back" => TabInv(TRUE)' /\ PayInv(TRUE)'
  BY TabStep, PayStep, WizardTurns DEF WizardInv
<1>3. \A failing \in BOOLEAN :
        TabInv(FALSE) /\ PayInv(FALSE) /\ OneCall /\ [Wizard(FALSE, failing)!Next]_wizardVars
          => TabInv(FALSE)' /\ PayInv(FALSE)' /\ OneCall'
  BY TabStep, PayStep, OneCallStep
<1>4. under \in OneWay => TabInv(FALSE)' /\ PayInv(FALSE)' /\ OneCall'
  BY <1>3, WizardTurns DEF WizardInv, OneWay
<1>5. under = "wizard" => Carried'
  BY CarriedStep, WizardTurns DEF WizardInv, OneWay
<1> QED
  BY <1>1, <1>2, <1>4, <1>5 DEF WizardInv

(* For any slots, any prices, any number of calls at once and any services *)
(* of those kinds: the slot in a session, at the server or in the tab, was *)
(* held by it, however answers are late, lost or overtaken; without a way  *)
(* back the tab is at most one step behind the row; and if no call fails   *)
(* what was charged is the slot that the session shows.                    *)
THEOREM ShownStaysHeld == Spec => []ShownIsHeld
<1>1. Init => WizardInv
  <2> SUFFICES ASSUME Init PROVE WizardInv
    OBVIOUS
  <2>1. under = "wizard, way back" => Wizard(TRUE, FALSE)!Init
    BY DEF Init
  <2>2. under \in OneWay => Wizard(FALSE, FALSE)!Init
    BY DEF Init, OneWay
  <2> QED
    BY <2>1, <2>2, WizardInit DEF WizardInv, OneWay
<1>2. WizardInv /\ [Next]_vars => WizardInv'
  BY WizardInvStep
<1>3. WizardInv => ShownIsHeld
  <2> SUFFICES ASSUME WizardInv PROVE ShownIsHeld
    OBVIOUS
  <2>1. under = "wizard, way back" => Wizard(TRUE, FALSE)!TypeOK /\ Wizard(TRUE, FALSE)!ShownWasHeld
    BY WizardTypeOK, ShownWasGiven DEF WizardInv
  <2>2. under = "wizard, calls fail" => Wizard(FALSE, TRUE)!ShownWasHeld /\ Wizard(FALSE, TRUE)!ViewFollows
    BY ShownWasGiven, TabFollows DEF WizardInv, OneWay
  <2>3. under = "wizard" => Wizard(FALSE, FALSE)!ShownWasHeld /\ Wizard(FALSE, FALSE)!ShownIsCharged
    BY ShownWasGiven DEF WizardInv, OneWay, Wizard!ShownIsCharged, Carried
  <2> QED
    BY <2>1, <2>2, <2>3 DEF ShownIsHeld
<1> QED
  BY <1>1, <1>2, <1>3, PTL DEF Spec
=============================================================================
