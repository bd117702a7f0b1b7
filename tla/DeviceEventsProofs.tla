------------------------- MODULE DeviceEventsProofs -------------------------
(***************************************************************************)
(* What the bank schedules of module DeviceEvents return: a call leaves a  *)
(* list of events, and an access that is scheduled ends.                   *)
(***************************************************************************)
EXTENDS DeviceEvents, SequenceTheorems, WellFoundedInduction, TLAPS

(* Min is one of the elements of a non-empty set of naturals.               *)
LEMMA MinOfNaturals ==
  ASSUME NEW S \in SUBSET Nat, S # {}
  PROVE  Min(S) \in S /\ \A y \in S : Min(S) <= y
<1> DEFINE less == {ss \in Nat \X Nat : ss[1] < ss[2]}
<1>1. IsWellFoundedOn(less, Nat)
  BY NatLessThanWellFounded DEF OpToRel
<1>2. PICK x \in S : \A y \in S : ~ (<<y, x>> \in less)
  BY <1>1, WFMin
<1>3. ASSUME NEW y \in S, y < x
      PROVE  FALSE
  <2>1. <<y, x>> \in Nat \X Nat
    OBVIOUS
  <2>2. <<y, x>> \in less
    BY <1>3, <2>1
  <2> QED
    BY <1>2, <2>2
<1>4. \A y \in S : x <= y
  BY <1>3
<1> QED
  BY <1>4 DEF Min

(* deleteOutdatedEvents erases from the front of the list only.             *)
LEMMA DeleteType ==
  ASSUME NEW list \in Seq(EventType), NEW now \in Nat
  PROVE  deleteOutdatedEvents(list, now) \in Seq(EventType)
<1> DEFINE pending == { i \in DOMAIN list : list[i].second > now }
<1>1. CASE pending = {} \/ Min(pending) = 1
  BY <1>1 DEF deleteOutdatedEvents
<1>2. CASE pending # {} /\ Min(pending) # 1
  <2>1. pending \subseteq 1 .. Len(list)
    BY LenProperties
  <2>2. Min(pending) \in 1 .. Len(list)
    BY <1>2, <2>1, MinOfNaturals
  <2> HIDE DEF pending
  <2>3. Min(pending) - 1 \in 1 .. Len(list) + 1
    BY <1>2, <2>2
  <2>4. SubSeq(list, Min(pending) - 1, Len(list)) \in Seq(EventType)
    BY <2>3, SubSeqProperties, LenProperties
  <2> QED
    BY <1>2, <2>4 DEF deleteOutdatedEvents, pending
<1> QED
  BY <1>1, <1>2

LEMMA ScheduleEvents ==
  /\ NewEventList \in Schedule
  /\ \A list \in Schedule : list \in Seq(EventType) /\ Len(list) \in Nat \ {0}
<1>1. NewEventList \in Seq(EventType)
  BY DEF NewEventList, Event, EventType
<1>2. Len(NewEventList) = 1
  BY DEF NewEventList
<1> HIDE DEF EventType
<1>3. ASSUME NEW list \in Schedule
      PROVE  list \in Seq(EventType) /\ Len(list) \in Nat \ {0}
  <2>1. list \in Seq(EventType) /\ (list = NewEventList \/ Len(list) > 1)
    BY <1>3 DEF Schedule
  <2>2. Len(list) \in Nat
    BY <2>1, LenProperties
  <2> HIDE DEF NewEventList
  <2> QED
    BY <1>2, <2>1, <2>2
<1> QED
  BY <1>1, <1>3 DEF Schedule

(* deleteOutdatedEvents never leaves a list of one event that is not the    *)
(* one a schedule begins with.                                              *)
LEMMA DeleteSchedule ==
  ASSUME NEW list \in Schedule, NEW now \in Nat
  PROVE  deleteOutdatedEvents(list, now) \in Schedule
<1> DEFINE pending == { i \in DOMAIN list : list[i].second > now }
<1>0. list \in Seq(EventType) /\ Len(list) \in Nat
  BY ScheduleEvents
<1>1. CASE pending = {} \/ Min(pending) = 1
  BY <1>1 DEF deleteOutdatedEvents
<1>2. CASE pending # {} /\ Min(pending) # 1
  <2>1. pending \subseteq 1 .. Len(list)
    BY <1>0, LenProperties
  <2>2. Min(pending) \in 1 .. Len(list)
    BY <1>2, <2>1, MinOfNaturals
  <2> HIDE DEF pending
  <2>3. PICK m \in Nat : m = Min(pending) - 1 /\ m \in 1 .. Len(list) - 1
    BY <1>0, <1>2, <2>2
  <2>4. deleteOutdatedEvents(list, now) = SubSeq(list, m, Len(list))
    BY <1>2, <2>3 DEF deleteOutdatedEvents, pending
  <2>5. deleteOutdatedEvents(list, now) \in Seq(EventType)
    BY <1>0, DeleteType
  <2>6. Len(SubSeq(list, m, Len(list))) = Len(list) - m + 1
    BY <1>0, <2>3, SubSeqProperties
  <2> QED
    BY <1>0, <2>3, <2>4, <2>5, <2>6 DEF Schedule
<1> QED
  BY <1>1, <1>2

(* The list a schedule begins with leaves room in front of its event.       *)
LEMMA NeverPastTheList ==
  ASSUME NEW list \in Schedule, NEW start \in Nat, NEW n \in Nat \ {0}
  PROVE  ~ pastTheList(list, start, n)
<1>1. list = NewEventList \/ Len(list) > 1
  BY DEF Schedule
<1>2. list = NewEventList => list[1].first = 0
  BY DEF NewEventList, Event
<1>3. 0 < start + n
  OBVIOUS
<1>4. Len(list) = 1 => list = NewEventList
  BY <1>1
<1> QED
  BY <1>2, <1>3, <1>4 DEF pastTheList

(* InsertAt puts an element into a list at a position of the list.          *)
LEMMA InsertAtType ==
  ASSUME NEW S, NEW s \in Seq(S), NEW e \in S, NEW i \in 1 .. Len(s) + 1
  PROVE  InsertAt(s, i, e) \in Seq(S) /\ Len(InsertAt(s, i, e)) = Len(s) + 1
<1>0. Len(s) \in Nat
  BY LenProperties
<1>1. SubSeq(s, 1, i - 1) \in Seq(S)
  BY <1>0, SubSeqProperties
<1>2. SubSeq(s, i, Len(s)) \in Seq(S)
  BY <1>0, SubSeqProperties
<1>3. <<e>> \in Seq(S)
  OBVIOUS
<1>4. Len(SubSeq(s, 1, i - 1)) = i - 1 /\ Len(SubSeq(s, i, Len(s))) = Len(s) - i + 1
  BY <1>0, SubSeqProperties
<1>5. InsertAt(s, i, e) = (SubSeq(s, 1, i - 1) \o <<e>>) \o SubSeq(s, i, Len(s))
  BY DEF InsertAt
<1>6. /\ SubSeq(s, 1, i - 1) \o <<e>> \in Seq(S)
      /\ Len(SubSeq(s, 1, i - 1) \o <<e>>) = i
  BY <1>0, <1>1, <1>3, <1>4, ConcatProperties
<1> DEFINE front == SubSeq(s, 1, i - 1) \o <<e>>
           back  == SubSeq(s, i, Len(s))
<1>7. front \o back \in Seq(S) /\ Len(front \o back) = Len(front) + Len(back)
  <2> HIDE DEF front, back
  <2>1. front \in Seq(S) /\ back \in Seq(S)
    BY <1>2, <1>6 DEF front, back
  <2> QED
    BY <2>1, ConcatProperties
<1>8. Len(front \o back) = Len(s) + 1
  <2> HIDE DEF front, back
  <2>1. Len(front) = i /\ Len(back) = Len(s) - i + 1
    BY <1>4, <1>6 DEF front, back
  <2> QED
    BY <1>0, <1>7, <2>1
<1> QED
  BY <1>5, <1>7, <1>8

(* The new event goes in front of, between or behind the events of the list. *)
LEMMA PositionType ==
  ASSUME NEW list \in Seq(EventType), NEW start \in Nat, NEW n \in Nat
  PROVE  insertPosition(list, start, n) \in 1 .. Len(list) + 1
<1> DEFINE found == slots(list, start, n)
<1>0. Len(list) \in Nat
  BY LenProperties
<1>1. found \subseteq 1 .. Len(list) - 1
  BY DEF slots
<1>2. found # {} => Min(found) \in 1 .. Len(list) - 1
  BY <1>0, <1>1, MinOfNaturals
<1> HIDE DEF found
<1> QED
  BY <1>0, <1>2 DEF insertPosition, found

(* An access starts at a time: its own or the end of the last event.        *)
LEMMA StartType ==
  ASSUME NEW list \in Seq(EventType), NEW start \in Nat, NEW n \in Nat,
         ~ pastTheList(list, start, n)
  PROVE  scheduledStart(list, start, n) \in Nat
<1>0. Len(list) \in Nat /\ DOMAIN list = 1 .. Len(list)
  BY LenProperties
<1>1. Len(list) > 1 => list[Len(list)] \in EventType
  BY <1>0, ElementOfSeq
<1> QED
  BY <1>1 DEF scheduledStart, EventType

(***************************************************************************)
(* scheduleEvent returns a schedule and the time at which the access ends; *)
(* a processor takes the end time 0 for an operation that has not started  *)
(* (OpEntry::is_started), and no access that starts after time 0 gets it.  *)
(* The branch that takes the end of an event past the list is not reached: *)
(* no sequence of calls leaves a list of one event that starts too late.   *)
(***************************************************************************)
THEOREM ScheduleEventType ==
  ASSUME NEW list \in Schedule, NEW now \in Nat \ {0}, NEW n \in Nat,
         NEW clean \in BOOLEAN
  PROVE  /\ scheduleEvent(list, now, n, clean).events \in Schedule
         /\ scheduleEvent(list, now, n, clean).end \in Nat \ {0}
         /\ scheduleEvent(list, now, n, clean).end - n \in Nat
         /\ n # 0 => ~ pastTheList(IF clean THEN deleteOutdatedEvents(list, now) ELSE list,
                                   now, n)
<1> DEFINE events == IF clean THEN deleteOutdatedEvents(list, now) ELSE list
           start  == scheduledStart(events, now, n)
           pos    == insertPosition(events, now, n)
           grown  == InsertAt(events, pos, Event(start, start + n))
<1>1. events \in Schedule
  BY DeleteSchedule
<1>2. events \in Seq(EventType) /\ Len(events) \in Nat \ {0}
  BY <1>1, ScheduleEvents
<1>3. scheduleEvent(list, now, n, clean) =
        IF n = 0 THEN [events |-> list, end |-> now]
        ELSE [events |-> grown, end |-> start + n]
  BY DEF scheduleEvent
<1>4. CASE n = 0
  <2> HIDE DEF events, grown, start
  <2> QED
    BY <1>3, <1>4
<1>5. CASE n # 0
  <2>1. ~ pastTheList(events, now, n)
    BY <1>1, <1>5, NeverPastTheList
  <2>2. start \in Nat
    BY <1>2, <2>1, StartType
  <2>3. pos \in 1 .. Len(events) + 1
    BY <1>2, PositionType
  <2>4. Event(start, start + n) \in EventType
    BY <2>2 DEF Event, EventType
  <2>5. grown \in Seq(EventType) /\ Len(grown) = Len(events) + 1
    <3> HIDE DEF events, start, pos
    <3> QED
      BY <1>2, <2>3, <2>4, InsertAtType
  <2> HIDE DEF grown, start
  <2>6. grown \in Schedule
    <3> HIDE DEF events
    <3> QED
      BY <1>2, <2>5 DEF Schedule
  <2> QED
    BY <1>3, <1>5, <2>1, <2>2, <2>6
<1> QED
  BY <1>4, <1>5

-----------------------------------------------------------------------------
(* Events that are over at a time. *)
OverBy(now) == { e \in EventType : e.first <= e.second /\ e.second <= now }

LEMMA OverLater ==
  ASSUME NEW now \in Nat, NEW later \in Nat, now <= later,
         NEW list \in Seq(OverBy(now))
  PROVE  list \in Seq(OverBy(later))
<1>1. OverBy(now) \subseteq OverBy(later)
  BY DEF OverBy, EventType
<1>2. list \in [1 .. Len(list) -> OverBy(now)] /\ Len(list) \in Nat
  BY LenProperties
<1>3. list \in [1 .. Len(list) -> OverBy(later)]
  BY <1>1, <1>2
<1> QED
  BY <1>2, <1>3

(* On a bank where everything is over an access starts at once, and at its  *)
(* end everything is over again.                                            *)
LEMMA GrantedAtOnce ==
  ASSUME NEW now \in Nat, NEW list \in Seq(OverBy(now)), NEW n \in Nat,
         NEW clean \in BOOLEAN
  PROVE  /\ scheduleEvent(list, now, n, clean).end = now + n
         /\ scheduleEvent(list, now, n, clean).events \in Seq(OverBy(now + n))
<1>0. /\ Len(list) \in Nat /\ DOMAIN list = 1 .. Len(list)
      /\ \A i \in 1 .. Len(list) : list[i] \in OverBy(now)
  BY LenProperties, ElementOfSeq
<1>1. list \in Seq(EventType)
  <2>1. list \in [1 .. Len(list) -> EventType]
    BY <1>0, LenProperties DEF OverBy
  <2> QED
    BY <1>0, <2>1
<1>2. deleteOutdatedEvents(list, now) = list
  <2>1. { i \in DOMAIN list : list[i].second > now } = {}
    BY <1>0 DEF OverBy, EventType
  <2> QED
    BY <2>1 DEF deleteOutdatedEvents
<1>3. CASE n = 0
  <2> DEFINE result == scheduleEvent(list, now, n, clean)
  <2>1. result = [events |-> list, end |-> now]
    BY <1>3 DEF scheduleEvent
  <2>2. now + n = now
    BY <1>3
  <2> HIDE DEF result
  <2>3. result.end = now + n /\ result.events \in Seq(OverBy(now + n))
    BY <2>1, <2>2
  <2> QED
    BY <2>3 DEF result
<1>4. CASE n # 0
  <2>1. scheduledStart(list, now, n) = now
    <3>1. ASSUME Len(list) > 1 PROVE 1 \in slots(list, now, n)
      <4>1. list[1] \in OverBy(now) /\ list[2] \in OverBy(now)
        BY <1>0, <3>1
      <4>2. list[1].second <= now /\ list[2].first < now + n
        BY <1>4, <4>1 DEF OverBy, EventType
      <4> QED
        BY <1>0, <3>1, <4>2 DEF slots
    <3>2. ~ pastTheList(list, now, n)
      <4>1. Len(list) = 1 => list[1] \in OverBy(now)
        BY <1>0
      <4> QED
        BY <1>4, <4>1 DEF pastTheList, OverBy, EventType
    <3> QED
      BY <1>0, <3>1, <3>2 DEF scheduledStart
  <2> DEFINE pos == insertPosition(list, now, n)
  <2>2. pos \in 1 .. Len(list) + 1
    BY <1>1, PositionType
  <2>3. Event(now, now + n) \in OverBy(now + n)
    BY DEF Event, OverBy, EventType
  <2>4. list \in Seq(OverBy(now + n))
    BY OverLater
  <2>5. InsertAt(list, pos, Event(now, now + n)) \in Seq(OverBy(now + n))
    <3> HIDE DEF pos
    <3> QED
      BY <2>2, <2>3, <2>4, InsertAtType
  <2> DEFINE result == scheduleEvent(list, now, n, clean)
  <2>6. result = [events |-> InsertAt(list, pos, Event(now, now + n)), end |-> now + n]
    BY <1>2, <1>4, <2>1 DEF scheduleEvent
  <2> HIDE DEF pos, result
  <2>7. result.end = now + n /\ result.events \in Seq(OverBy(now + n))
    BY <2>5, <2>6
  <2> QED
    BY <2>7 DEF result
<1> QED
  BY <1>3, <1>4
=============================================================================
