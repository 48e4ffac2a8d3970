-------------------------- MODULE Esp32TwaiCanProofs --------------------------
(***************************************************************************)
(* Theorems about the TWAI adapter, for queues of any length.              *)
(***************************************************************************)
EXTENDS Esp32TwaiCan, SequenceTheorems, TLAPS

DriverState == {"Uninstalled", "Stopped", "Running", "BusOff"}

Members == [installed : BOOLEAN, started : BOOLEAN, pendingAlerts : SUBSET Alert]

Drivers == [state : DriverState, alerts : SUBSET Alert, rx : Seq(FrameKind),
            tx : 0 .. TxQueueLength, beforeLoss : 0 .. NoLoss]

IsDriver(d) == d \in Drivers /\ Len(d.rx) <= RxQueueLength

\* What the flags say of the driver.
Agree(c, d) ==
  /\ c.installed <=> d.state # "Uninstalled"
  /\ d.state \in {"Running", "BusOff"} => c.started
  /\ c.started \/ c.pendingAlerts # {} => c.installed

LEMMA TypeOKParts == TypeOK <=> can \in Members /\ IsDriver(twai) /\ Agree(can, twai)
BY DEF TypeOK, Members, IsDriver, Drivers, DriverState, Agree

LEMMA LosesKeepsType ==
  ASSUME NEW d, IsDriver(d), NEW alert \in Alert
  PROVE  /\ IsDriver(Loses(d, alert))
         /\ Loses(d, alert).state = d.state
         /\ Loses(d, alert).alerts = d.alerts \cup {alert}
<1> DEFINE before == IF d.beforeLoss = NoLoss THEN Len(d.rx) ELSE d.beforeLoss
<1>1. before \in 0 .. NoLoss
  BY QueuesHoldFrames DEF IsDriver, Drivers, NoLoss
<1>2. Loses(d, alert) = [d EXCEPT !.alerts = d.alerts \cup {alert}, !.beforeLoss = before]
  BY DEF Loses
<1>3. d \in Drivers /\ d.alerts \cup {alert} \in SUBSET Alert
  BY DEF IsDriver, Drivers
<1> HIDE DEF before
<1>4. Loses(d, alert) \in Drivers
  BY <1>1, <1>2, <1>3 DEF Drivers
<1> QED
  BY <1>2, <1>3, <1>4 DEF IsDriver, Drivers

LEMMA ArrivesKeepsType ==
  ASSUME NEW d, IsDriver(d), NEW kind \in FrameKind
  PROVE  /\ IsDriver(Arrives(d, kind))
         /\ Arrives(d, kind).state = d.state
         /\ d.alerts \subseteq Arrives(d, kind).alerts
<1>1. CASE Len(d.rx) < RxQueueLength
  <2> DEFINE rx == Append(d.rx, kind)
  <2>1. rx \in Seq(FrameKind) /\ Len(rx) <= RxQueueLength
    BY <1>1, QueuesHoldFrames DEF IsDriver, Drivers
  <2>2. Arrives(d, kind) = [d EXCEPT !.rx = rx]
    BY <1>1 DEF Arrives
  <2> HIDE DEF rx
  <2>3. d \in Drivers
    BY DEF IsDriver
  <2> QED
    BY <2>1, <2>2, <2>3 DEF IsDriver, Drivers
<1>2. CASE ~(Len(d.rx) < RxQueueLength)
  <2>1. Arrives(d, kind) = Loses(d, "RX_QUEUE_FULL")
    BY <1>2 DEF Arrives
  <2> QED
    BY <2>1, LosesKeepsType DEF Alert
<1> QED
  BY <1>1, <1>2

\* The controller moves a running driver, which it may take off the bus, and forgets no alert.
LEMMA MovesKeepType ==
  ASSUME NEW d, IsDriver(d), NEW e \in Moves(d)
  PROVE  /\ IsDriver(e)
         /\ d.state = "Running" /\ e.state \in {"Running", "BusOff"}
         /\ d.alerts \subseteq e.alerts
<1>1. d \in Drivers /\ d.state = "Running"
  BY DEF Moves, IsDriver
<1>2. CASE \E kind \in FrameKind : e = Arrives(d, kind)
  BY <1>1, <1>2, ArrivesKeepsType
<1>3. CASE e = Loses(d, "RX_FIFO_OVERRUN")
  BY <1>1, <1>3, LosesKeepsType DEF Alert
<1>4. CASE e = [d EXCEPT !.state = "BusOff", !.alerts = @ \cup {"BUS_OFF"}]
  <2>1. d.alerts \cup {"BUS_OFF"} \in SUBSET Alert
    BY <1>1 DEF Drivers, Alert
  <2>2. e \in Drivers
    BY <1>1, <1>4, <2>1 DEF Drivers, DriverState
  <2> QED
    BY <1>1, <1>4, <2>2 DEF IsDriver, Drivers
<1>5. CASE d.tx # 0 /\ e = [d EXCEPT !.tx = @ - 1]
  <2>1. d.tx - 1 \in 0 .. TxQueueLength
    BY <1>1, <1>5, QueuesHoldFrames DEF Drivers
  <2>2. e \in Drivers
    BY <1>1, <1>5, <2>1 DEF Drivers
  <2> QED
    BY <1>1, <1>5, <2>2 DEF IsDriver, Drivers
<1>6. CASE d.tx # 0 /\ e = [d EXCEPT !.tx = @ - 1, !.alerts = @ \cup {"TX_FAILED"}]
  <2>1. d.tx - 1 \in 0 .. TxQueueLength
    BY <1>1, <1>6, QueuesHoldFrames DEF Drivers
  <2>2. d.alerts \cup {"TX_FAILED"} \in SUBSET Alert
    BY <1>1 DEF Drivers, Alert
  <2>3. e \in Drivers
    BY <1>1, <1>6, <2>1, <2>2 DEF Drivers
  <2> QED
    BY <1>1, <1>6, <2>3 DEF IsDriver, Drivers
<1> QED
  BY <1>1, <1>2, <1>3, <1>4, <1>5, <1>6 DEF Moves

LEMMA AlertsReadKeepsType ==
  ASSUME NEW fails, IsDriver(twai)
  PROVE  /\ IsDriver(AlertsRead(fails))
         /\ AlertsRead(fails).state = twai.state
         /\ "ReadAlerts" \in fails => AlertsRead(fails).alerts = twai.alerts
<1>1. twai \in Drivers /\ {} \in SUBSET Alert
  BY DEF IsDriver
<1>2. AlertsRead(fails) \in Drivers
  BY <1>1 DEF AlertsRead, Drivers
<1> QED
  BY <1>1, <1>2 DEF AlertsRead, IsDriver, Drivers

(***************************************************************************)
(* Any number of moves of the controller.                                  *)
(***************************************************************************)

Room(d) == RxQueueLength - Len(d.rx)

LEMMA RoomIsNatural ==
  ASSUME NEW d, IsDriver(d)
  PROVE  Room(d) \in Nat /\ Len(d.rx) \in Nat /\ Len(d.rx) + Room(d) = RxQueueLength
BY QueuesHoldFrames DEF Room, IsDriver, Drivers

\* A course of the controller is given by what arrives and what is raised.
LEMMA CourseParts ==
  ASSUME NEW d, IsDriver(d), NEW arrived, NEW raised
  PROVE  [arrived |-> arrived, raised |-> raised] \in Courses(d)
         <=> /\ arrived \in Seq(FrameKind) /\ Len(arrived) <= Room(d)
             /\ raised \in SUBSET Alert
             /\ "RX_QUEUE_FULL" \in raised => Len(arrived) = Room(d)
<1> DEFINE arrivals == UNION {[1 .. n -> FrameKind] : n \in 0 .. Room(d)}
           c == [arrived |-> arrived, raised |-> raised]
<1>1. Room(d) \in Nat
  BY RoomIsNatural
<1>2. arrived \in arrivals <=> arrived \in Seq(FrameKind) /\ Len(arrived) <= Room(d)
  <2>1. ASSUME arrived \in arrivals
        PROVE  arrived \in Seq(FrameKind) /\ Len(arrived) <= Room(d)
    <3>1. PICK n \in 0 .. Room(d) : arrived \in [1 .. n -> FrameKind]
      BY <2>1
    <3>2. n \in Nat /\ n <= Room(d)
      BY <1>1
    <3>3. arrived \in Seq(FrameKind)
      BY <3>1, <3>2, SeqDef
    <3>4. Len(arrived) = n
      BY <3>1, <3>2, <3>3, LenProperties
    <3> QED
      BY <3>2, <3>3, <3>4
  <2>2. ASSUME arrived \in Seq(FrameKind), Len(arrived) <= Room(d)
        PROVE  arrived \in arrivals
    <3>1. Len(arrived) \in 0 .. Room(d) /\ arrived \in [1 .. Len(arrived) -> FrameKind]
      BY <1>1, <2>2, LenProperties
    <3> QED
      BY <3>1
  <2> QED
    BY <2>1, <2>2
<1> HIDE DEF arrivals
<1>3. c \in Courses(d)
      <=> c \in {x \in [arrived : arrivals, raised : SUBSET Alert] :
                   "RX_QUEUE_FULL" \in x.raised => Len(x.arrived) = Room(d)}
  BY DEF Courses, arrivals, Room
<1>4. c.arrived = arrived /\ c.raised = raised
  OBVIOUS
<1>5. c \in [arrived : arrivals, raised : SUBSET Alert]
      <=> arrived \in arrivals /\ raised \in SUBSET Alert
  BY <1>4
<1> QED
  BY <1>2, <1>3, <1>4, <1>5

LEMMA CourseIsTyped ==
  ASSUME NEW d, IsDriver(d), NEW c \in Courses(d)
  PROVE  /\ c = [arrived |-> c.arrived, raised |-> c.raised]
         /\ c.arrived \in Seq(FrameKind) /\ Len(c.arrived) \in Nat
         /\ Len(c.arrived) <= Room(d)
         /\ c.raised \in SUBSET Alert
         /\ "RX_QUEUE_FULL" \in c.raised => Len(c.arrived) = Room(d)
<1>1. c = [arrived |-> c.arrived, raised |-> c.raised]
  BY DEF Courses
<1> QED
  BY <1>1, CourseParts, LenProperties

\* Every end of a course of a running driver is a driver, with all it held and its alerts.
LEMMA AfterKeepsType ==
  ASSUME NEW d, IsDriver(d), NEW c \in Courses(d), NEW left \in LeftToSend(d, c),
         NEW first \in FirstLoss(d, c)
  PROVE  /\ IsDriver(After(d, c, left, first))
         /\ After(d, c, left, first).state \in {"Running", "BusOff"}
         /\ d.alerts \subseteq After(d, c, left, first).alerts
<1> DEFINE rx == d.rx \o c.arrived
           e == After(d, c, left, first)
<1>1. d \in Drivers /\ Len(d.rx) \in Nat /\ Len(d.rx) + Room(d) = RxQueueLength
  BY RoomIsNatural DEF IsDriver
<1>2. /\ c.arrived \in Seq(FrameKind) /\ Len(c.arrived) \in Nat
      /\ Len(c.arrived) <= Room(d) /\ c.raised \in SUBSET Alert
  BY CourseIsTyped
<1>3. rx \in Seq(FrameKind) /\ Len(rx) = Len(d.rx) + Len(c.arrived)
  BY <1>1, <1>2, ConcatProperties DEF Drivers
<1>4. left \in 0 .. TxQueueLength
  BY <1>1, QueuesHoldFrames DEF LeftToSend, Drivers
<1>5. first \in 0 .. NoLoss
  BY <1>1, <1>2, RoomIsNatural, QueuesHoldFrames DEF FirstLoss, Drivers, NoLoss
<1>6. d.alerts \cup c.raised \in SUBSET Alert
  BY <1>1, <1>2 DEF Drivers
<1>7. e = [state |-> IF "BUS_OFF" \in c.raised THEN "BusOff" ELSE "Running",
           alerts |-> d.alerts \cup c.raised, rx |-> rx, tx |-> left, beforeLoss |-> first]
  BY DEF After
<1> HIDE DEF rx, e
<1>8. e \in Drivers /\ e.rx = rx
  BY <1>3, <1>4, <1>5, <1>6, <1>7 DEF Drivers, DriverState
<1>9. Len(rx) <= RxQueueLength
  <2>1. ASSUME NEW held \in Nat, NEW more \in Nat, NEW room \in Nat, more <= room
        PROVE  held + more <= held + room
    BY <2>1
  <2> QED
    BY <1>1, <1>2, <1>3, <2>1, RoomIsNatural
<1> QED
  BY <1>7, <1>8, <1>9 DEF IsDriver, e

LEMMA MovedOnKeepsType ==
  ASSUME NEW d, IsDriver(d), NEW e \in MovedOn(d)
  PROVE  /\ IsDriver(e)
         /\ e.state = d.state \/ (d.state = "Running" /\ e.state = "BusOff")
         /\ d.alerts \subseteq e.alerts
<1>1. CASE e = d
  BY <1>1
<1>2. CASE d.state = "Running"
  <2>1. PICK c \in Courses(d) : \E left \in LeftToSend(d, c), first \in FirstLoss(d, c) :
                                   e = After(d, c, left, first)
    BY <1>2 DEF MovedOn
  <2> QED
    BY <1>2, <2>1, AfterKeepsType
<1> QED
  BY <1>1, <1>2 DEF MovedOn

\* No move at all is a course.
LEMMA RestIsACourse ==
  ASSUME NEW d, IsDriver(d), d.state = "Running"
  PROVE  d \in MovedOn(d)
<1> DEFINE c == [arrived |-> <<>>, raised |-> {}]
<1>1. <<>> \in Seq(FrameKind) /\ Len(<<>>) = 0 /\ Room(d) \in Nat
  BY RoomIsNatural
<1>2. c \in Courses(d)
  <2>1. {} \in SUBSET Alert /\ "RX_QUEUE_FULL" \notin {} /\ 0 <= Room(d)
    BY <1>1
  <2> QED
    BY <1>1, <2>1, CourseParts, Zenon
<1>3. d \in Drivers /\ d.rx \in Seq(FrameKind)
  BY DEF IsDriver, Drivers
<1>4. d.tx \in LeftToSend(d, c) /\ d.beforeLoss \in FirstLoss(d, c)
  BY <1>3, QueuesHoldFrames DEF LeftToSend, FirstLoss, Drivers
<1>5. d.rx \o <<>> = d.rx
  BY <1>3, ConcatEmptySeq
<1>6. After(d, c, d.tx, d.beforeLoss)
      = [state |-> d.state, alerts |-> d.alerts, rx |-> d.rx, tx |-> d.tx,
         beforeLoss |-> d.beforeLoss]
  BY <1>5 DEF After
<1>7. d = After(d, c, d.tx, d.beforeLoss)
  BY <1>3, <1>6 DEF Drivers
<1> QED
  BY <1>2, <1>4, <1>7 DEF MovedOn

\* A longer course ends where a shorter one and one more move do.
LEMMA LongerCourse ==
  ASSUME NEW d, IsDriver(d), d.state = "Running",
         NEW arrived, NEW raised, [arrived |-> arrived, raised |-> raised] \in Courses(d),
         NEW left \in LeftToSend(d, [arrived |-> arrived, raised |-> raised]),
         NEW first \in FirstLoss(d, [arrived |-> arrived, raised |-> raised]),
         NEW f, f = [state |-> IF "BUS_OFF" \in raised THEN "BusOff" ELSE "Running",
                     alerts |-> d.alerts \cup raised, rx |-> d.rx \o arrived, tx |-> left,
                     beforeLoss |-> first]
  PROVE  f \in MovedOn(d)
<1> DEFINE c == [arrived |-> arrived, raised |-> raised]
<1>1. f = After(d, c, left, first)
  BY DEF After
<1> QED
  BY <1>1 DEF MovedOn

LEMMA CourseGoesOn ==
  ASSUME NEW d, IsDriver(d), d.state = "Running", NEW c \in Courses(d),
         NEW left \in LeftToSend(d, c), NEW first \in FirstLoss(d, c),
         NEW f \in Moves(After(d, c, left, first))
  PROVE  f \in MovedOn(d)
<1> DEFINE e == After(d, c, left, first)
           arrived == c.arrived
           raised == c.raised
<1>1. e = [state |-> "Running", alerts |-> d.alerts \cup raised, rx |-> d.rx \o arrived,
           tx |-> left, beforeLoss |-> first]
      /\ "BUS_OFF" \notin raised
  BY DEF Moves, After
<1>2. /\ c = [arrived |-> arrived, raised |-> raised]
      /\ arrived \in Seq(FrameKind) /\ Len(arrived) \in Nat /\ Len(arrived) <= Room(d)
      /\ raised \in SUBSET Alert
      /\ "RX_QUEUE_FULL" \in raised => Len(arrived) = Room(d)
  BY CourseIsTyped
<1>3. /\ d.rx \in Seq(FrameKind) /\ Len(d.rx) \in Nat /\ Room(d) \in Nat
      /\ Len(d.rx) + Room(d) = RxQueueLength /\ RxQueueLength \in Nat
      /\ d.beforeLoss \in 0 .. NoLoss /\ d.tx \in Nat
  BY RoomIsNatural, QueuesHoldFrames DEF IsDriver, Drivers
<1>4. Len(d.rx \o arrived) = Len(d.rx) + Len(arrived)
  BY <1>2, <1>3, ConcatProperties
<1>5. left \in 0 .. d.tx /\ ("TX_FAILED" \in raised => left < d.tx)
  BY DEF LeftToSend
<1>6. f \in Moves(e)
  OBVIOUS
<1> HIDE DEF e
<1>7. CASE \E kind \in FrameKind : f = Arrives(e, kind) /\ Len(e.rx) < RxQueueLength
  <2>1. PICK kind \in FrameKind : f = Arrives(e, kind) /\ Len(e.rx) < RxQueueLength
    BY <1>7
  <2> DEFINE more == Append(arrived, kind)
  <2>2. more \in Seq(FrameKind) /\ Len(more) = Len(arrived) + 1
    BY <1>2, AppendProperties
  <2>3. Len(more) <= Room(d) /\ Len(arrived) < Room(d)
    BY <1>1, <1>2, <1>3, <1>4, <2>1, <2>2
  <2>4. Append(d.rx \o arrived, kind) = d.rx \o more
    <3>1. /\ Append(d.rx \o arrived, kind) = (d.rx \o arrived) \o <<kind>>
          /\ more = arrived \o <<kind>>
      BY <1>2, <1>3, AppendIsConcat, ConcatProperties
    <3>2. <<kind>> \in Seq(FrameKind)
      OBVIOUS
    <3>3. (d.rx \o arrived) \o <<kind>> = d.rx \o (arrived \o <<kind>>)
      <4>1. \A s, t, u \in Seq(FrameKind) : (s \o t) \o u = s \o (t \o u)
        BY ConcatAssociative
      <4>2. d.rx \in Seq(FrameKind) /\ arrived \in Seq(FrameKind)
        BY <1>2, <1>3
      <4> QED
        BY <3>2, <4>1, <4>2
    <3> QED
      BY <3>1, <3>3, Zenon
  <2> HIDE DEF more
  <2>5. f = [state |-> "Running", alerts |-> d.alerts \cup raised, rx |-> d.rx \o more,
             tx |-> left, beforeLoss |-> first]
    BY <1>1, <2>1, <2>4 DEF Arrives
  <2>6. [arrived |-> more, raised |-> raised] \in Courses(d)
    BY <1>2, <2>2, <2>3, CourseParts
  <2>7. left \in LeftToSend(d, [arrived |-> more, raised |-> raised])
    BY <1>5 DEF LeftToSend
  <2>8. first \in FirstLoss(d, [arrived |-> more, raised |-> raised])
    BY <1>2, <1>3, <2>2 DEF FirstLoss
  <2> QED
    BY <1>1, <2>5, <2>6, <2>7, <2>8, LongerCourse
<1>8. CASE \E alert \in Overflows : /\ f = Loses(e, alert)
                                    /\ alert = "RX_QUEUE_FULL" => ~(Len(e.rx) < RxQueueLength)
  <2>1. PICK alert \in Overflows : /\ f = Loses(e, alert)
                                   /\ alert = "RX_QUEUE_FULL" => ~(Len(e.rx) < RxQueueLength)
    BY <1>8
  <2> DEFINE more == raised \cup {alert}
             lost == IF first = NoLoss THEN Len(d.rx) + Len(arrived) ELSE first
  <2>2. more \in SUBSET Alert /\ "BUS_OFF" \notin more
        /\ ("TX_FAILED" \in more => "TX_FAILED" \in raised)
    BY <1>1, <1>2, <2>1 DEF Overflows, Alert
  <2>3. e.rx = d.rx \o arrived /\ e.beforeLoss = first
    BY <1>1
  <2>4. "RX_QUEUE_FULL" \in more => Len(arrived) = Room(d)
    BY <1>2, <1>3, <1>4, <2>1, <2>3
  <2>5. f = [state |-> "Running", alerts |-> d.alerts \cup more, rx |-> d.rx \o arrived,
             tx |-> left, beforeLoss |-> lost]
    BY <1>1, <1>4, <2>1 DEF Loses
  <2>6. Overflows \cap more # {} /\ (Overflows \cap raised = {} => more \cap Overflows = {alert})
    BY <2>1
  <2>7. lost \in FirstLoss(d, [arrived |-> arrived, raised |-> more])
    <3>1. CASE d.beforeLoss # NoLoss
      BY <3>1 DEF FirstLoss
    <3>2. CASE d.beforeLoss = NoLoss /\ Overflows \cap raised = {}
      <4>1. first = NoLoss
        BY <3>2 DEF FirstLoss
      <4>2. lost = Len(d.rx) + Len(arrived)
        BY <4>1
      <4>3. alert = "RX_QUEUE_FULL" => lost = RxQueueLength
        BY <1>3, <2>4, <4>2
      <4>4. alert = "RX_FIFO_OVERRUN" => "RX_FIFO_OVERRUN" \in more
        OBVIOUS
      <4>5. alert = "RX_QUEUE_FULL" => "RX_FIFO_OVERRUN" \notin more
        BY <3>2, <2>6 DEF Overflows
      <4>6. lost \in Len(d.rx) .. Len(d.rx) + Len(arrived)
        BY <1>2, <1>3, <4>2
      <4> HIDE DEF more, lost
      <4> QED
        BY <2>1, <2>6, <3>2, <4>3, <4>4, <4>5, <4>6 DEF FirstLoss, Overflows
    <3>3. CASE d.beforeLoss = NoLoss /\ Overflows \cap raised # {}
      <4>1. first \in Len(d.rx) .. Len(d.rx) + Len(arrived)
        BY <1>2, <1>3, <3>3 DEF FirstLoss, Overflows
      <4>2. "RX_FIFO_OVERRUN" \notin raised => first = RxQueueLength
        BY <3>3 DEF FirstLoss
      <4>3. lost = first
        BY <1>2, <1>3, <4>1 DEF NoLoss
      <4> HIDE DEF more, lost
      <4>4. "RX_FIFO_OVERRUN" \notin more => "RX_FIFO_OVERRUN" \notin raised
        BY DEF more
      <4> QED
        BY <2>6, <3>3, <4>1, <4>2, <4>3, <4>4 DEF FirstLoss
    <3> QED
      BY <3>1, <3>2, <3>3
  <2> HIDE DEF more, lost
  <2>8. [arrived |-> arrived, raised |-> more] \in Courses(d)
    BY <1>2, <2>2, <2>4, CourseParts
  <2>9. left \in LeftToSend(d, [arrived |-> arrived, raised |-> more])
    BY <1>5, <2>2 DEF LeftToSend
  <2> QED
    BY <2>2, <2>5, <2>7, <2>8, <2>9, LongerCourse
<1>9. CASE f = [e EXCEPT !.state = "BusOff", !.alerts = @ \cup {"BUS_OFF"}]
  <2> DEFINE more == raised \cup {"BUS_OFF"}
  <2>1. /\ more \in SUBSET Alert /\ "BUS_OFF" \in more
        /\ ("RX_QUEUE_FULL" \in more => "RX_QUEUE_FULL" \in raised)
        /\ ("TX_FAILED" \in more => "TX_FAILED" \in raised)
        /\ Overflows \cap more = Overflows \cap raised
        /\ ("RX_FIFO_OVERRUN" \in more <=> "RX_FIFO_OVERRUN" \in raised)
    BY <1>2 DEF Overflows, Alert
  <2>2. f = [state |-> "BusOff", alerts |-> d.alerts \cup more, rx |-> d.rx \o arrived,
             tx |-> left, beforeLoss |-> first]
    BY <1>1, <1>9
  <2> HIDE DEF more
  <2>3. [arrived |-> arrived, raised |-> more] \in Courses(d)
    BY <1>2, <2>1, CourseParts
  <2>4. left \in LeftToSend(d, [arrived |-> arrived, raised |-> more])
    BY <1>5, <2>1 DEF LeftToSend
  <2>5. first \in FirstLoss(d, [arrived |-> arrived, raised |-> more])
    BY <2>1 DEF FirstLoss
  <2> QED
    BY <2>1, <2>2, <2>3, <2>4, <2>5, LongerCourse
<1>10. CASE e.tx # 0 /\ f = [e EXCEPT !.tx = @ - 1]
  <2>1. f = [state |-> "Running", alerts |-> d.alerts \cup raised, rx |-> d.rx \o arrived,
             tx |-> left - 1, beforeLoss |-> first]
    BY <1>1, <1>10
  <2>2. left - 1 \in LeftToSend(d, [arrived |-> arrived, raised |-> raised])
    BY <1>1, <1>3, <1>5, <1>10 DEF LeftToSend
  <2>3. first \in FirstLoss(d, [arrived |-> arrived, raised |-> raised])
    BY <1>2
  <2> QED
    BY <1>1, <1>2, <2>1, <2>2, <2>3, LongerCourse
<1>11. CASE e.tx # 0 /\ f = [e EXCEPT !.tx = @ - 1, !.alerts = @ \cup {"TX_FAILED"}]
  <2> DEFINE more == raised \cup {"TX_FAILED"}
  <2>1. /\ more \in SUBSET Alert /\ "BUS_OFF" \notin more
        /\ ("RX_QUEUE_FULL" \in more => "RX_QUEUE_FULL" \in raised)
        /\ Overflows \cap more = Overflows \cap raised
        /\ ("RX_FIFO_OVERRUN" \in more <=> "RX_FIFO_OVERRUN" \in raised)
    BY <1>1, <1>2 DEF Overflows, Alert
  <2>2. f = [state |-> "Running", alerts |-> d.alerts \cup more, rx |-> d.rx \o arrived,
             tx |-> left - 1, beforeLoss |-> first]
    BY <1>1, <1>11
  <2> HIDE DEF more
  <2>3. [arrived |-> arrived, raised |-> more] \in Courses(d)
    BY <1>2, <2>1, CourseParts
  <2>4. left - 1 \in LeftToSend(d, [arrived |-> arrived, raised |-> more])
    BY <1>1, <1>3, <1>5, <1>11 DEF LeftToSend
  <2>5. first \in FirstLoss(d, [arrived |-> arrived, raised |-> more])
    BY <2>1 DEF FirstLoss
  <2> QED
    BY <2>1, <2>2, <2>3, <2>4, <2>5, LongerCourse
<1> QED
  BY <1>6, <1>7, <1>8, <1>9, <1>10, <1>11 DEF Moves, Arrives, Overflows

\* Moves(e) stays within MovedOn(d): no sequence of moves leads out of it.
LEMMA MovedOnIsClosed ==
  ASSUME NEW d, IsDriver(d), NEW e \in MovedOn(d)
  PROVE  d \in MovedOn(d) /\ Moves(e) \subseteq MovedOn(d)
<1>1. CASE d.state # "Running"
  BY <1>1 DEF MovedOn, Moves
<1>2. CASE d.state = "Running"
  <2>1. d \in MovedOn(d)
    BY <1>2, RestIsACourse
  <2>2. PICK c \in Courses(d) : \E left \in LeftToSend(d, c), first \in FirstLoss(d, c) :
                                   e = After(d, c, left, first)
    BY <1>2 DEF MovedOn
  <2>3. PICK left \in LeftToSend(d, c), first \in FirstLoss(d, c) : e = After(d, c, left, first)
    BY <2>2
  <2>4. ASSUME NEW f \in Moves(After(d, c, left, first))
        PROVE  f \in MovedOn(d)
    BY <1>2, <2>4, CourseGoesOn
  <2> QED
    BY <2>1, <2>3, <2>4
<1> QED
  BY <1>1, <1>2

\* Whatever the controller did since the alerts were read.
LEMMA LaterKeepsType ==
  ASSUME NEW fails, IsDriver(twai), NEW d \in Later(fails)
  PROVE  /\ IsDriver(d)
         /\ d.state = twai.state \/ (twai.state = "Running" /\ d.state = "BusOff")
         /\ "ReadAlerts" \in fails => twai.alerts \subseteq d.alerts
<1>1. IsDriver(AlertsRead(fails)) /\ AlertsRead(fails).state = twai.state
  BY AlertsReadKeepsType
<1>2. d \in MovedOn(AlertsRead(fails))
  BY DEF Later
<1>3. /\ IsDriver(d)
      /\ \/ d.state = AlertsRead(fails).state
         \/ AlertsRead(fails).state = "Running" /\ d.state = "BusOff"
      /\ AlertsRead(fails).alerts \subseteq d.alerts
  BY <1>1, <1>2, MovedOnKeepsType
<1> QED
  BY <1>1, <1>3, AlertsReadKeepsType

LEMMA CapturedKeepsType ==
  ASSUME NEW fails, can \in Members, IsDriver(twai)
  PROVE  /\ Captured(fails) \in SUBSET Alert
         /\ can.pendingAlerts \subseteq Captured(fails)
         /\ "ReadAlerts" \notin fails => twai.alerts \subseteq Captured(fails)
<1>1. can.pendingAlerts \in SUBSET Alert /\ twai.alerts \in SUBSET Alert
  BY DEF Members, IsDriver, Drivers
<1> QED
  BY <1>1 DEF Captured

LEMMA FreshAgrees ==
  Fresh \in Members /\ IsDriver(NotInstalled) /\ Agree(Fresh, NotInstalled)
<1>1. Fresh \in Members
  BY DEF Fresh, Members
<1>2. IsDriver(NotInstalled)
  BY QueuesHoldFrames DEF NotInstalled, IsDriver, Drivers, DriverState, NoLoss
<1> QED
  BY <1>1, <1>2 DEF Fresh, NotInstalled, Agree

Typed(c, d) == c \in Members /\ IsDriver(d) /\ Agree(c, d)

LEMMA TypedBefore == TypeOK <=> Typed(can, twai)
BY TypeOKParts DEF Typed

LEMMA TypedAfter == Typed(can', twai') => TypeOK'
BY DEF Typed, TypeOK, Members, IsDriver, Drivers, DriverState, Agree

\* While the driver is started, alerts may be exchanged and the controller may have moved.
LEMMA StartedKeepsType ==
  ASSUME Typed(can, twai), can.started,
         NEW pending \in SUBSET Alert, NEW d, IsDriver(d),
         d.state = twai.state \/ (twai.state = "Running" /\ d.state = "BusOff")
  PROVE  Typed([can EXCEPT !.pendingAlerts = pending], d)
<1> DEFINE c == [can EXCEPT !.pendingAlerts = pending]
<1>1. can \in Members
  BY DEF Typed
<1>2. c \in Members
  BY <1>1 DEF Members
<1>3. c.installed = can.installed /\ c.started = can.started
  BY <1>1 DEF Members
<1> HIDE DEF c
<1>4. Agree(c, d)
  BY <1>3 DEF Typed, Agree
<1>5. Typed(c, d)
  BY <1>2, <1>4 DEF Typed
<1> QED
  BY <1>5 DEF c

\* stop succeeds only by leaving no driver; it fails with the driver as it was or halted.
LEMMA StoppedKeepsType ==
  ASSUME NEW fails, Typed(can, twai)
  PROVE  /\ Typed(Stopped(fails).can, Stopped(fails).twai)
         /\ Stopped(fails).status = "Ok" => Stopped(fails).twai.state = "Uninstalled"
         /\ ~can.installed => Stopped(fails).can = can /\ Stopped(fails).twai = twai
<1> DEFINE halted == IF MustStop(twai) THEN [twai EXCEPT !.state = "Stopped", !.tx = 0] ELSE twai
           failed(d) == [status |-> "DriverError", can |-> can, twai |-> d]
<1>1. twai \in Drivers /\ 0 \in 0 .. TxQueueLength
  BY QueuesHoldFrames DEF Typed, IsDriver, Drivers
<1>2. halted \in Drivers
  BY <1>1 DEF Drivers, DriverState
<1>3. IsDriver(halted) /\ (MustStop(twai) => halted.state = "Stopped")
  BY <1>1, <1>2 DEF Typed, IsDriver, Drivers
<1>4. MustStop(twai) => twai.state = "Running"
  BY DEF MustStop
<1>5. can.installed => Agree(can, halted)
  BY <1>3, <1>4 DEF Typed, Agree
<1>6. CASE ~can.installed
  <2>1. Stopped(fails) = [status |-> "Ok", can |-> can, twai |-> twai]
    BY <1>6 DEF Stopped
  <2> QED
    BY <1>6, <2>1 DEF Typed, Agree
<1>7. CASE can.installed /\ Stopped(fails) = failed(twai)
  BY <1>7
<1>8. CASE can.installed /\ Stopped(fails) = failed(halted)
  <2> HIDE DEF halted
  <2> QED
    BY <1>3, <1>5, <1>8 DEF Typed
<1>9. CASE can.installed /\ Stopped(fails) = [status |-> "Ok", can |-> Fresh, twai |-> NotInstalled]
  BY <1>9, FreshAgrees DEF Typed, NotInstalled
<1>10. \/ ~can.installed
       \/ Stopped(fails) = failed(twai)
       \/ Stopped(fails) = failed(halted)
       \/ Stopped(fails) = [status |-> "Ok", can |-> Fresh, twai |-> NotInstalled]
  BY DEF Stopped
<1> QED
  BY <1>6, <1>7, <1>8, <1>9, <1>10

LEMMA StopKeepsType ==
  ASSUME Typed(can, twai), Stop PROVE Typed(can', twai')
BY StoppedKeepsType DEF Stop

LEMMA InstallKeepsType ==
  ASSUME NEW before, NEW fails, before.state = "Uninstalled", IsDriver(before),
         InstallAndStart(before, fails)
  PROVE  Typed(can', twai')
<1>1. CASE can' = Fresh /\ twai' = before
  BY <1>1, FreshAgrees DEF Typed, Fresh, Agree
<1>2. CASE can' = [Fresh EXCEPT !.installed = TRUE, !.started = TRUE]
           /\ twai' = [NotInstalled EXCEPT !.state = "Running"]
  BY <1>2, FreshAgrees, QueuesHoldFrames
     DEF Typed, Fresh, NotInstalled, Members, IsDriver, Drivers, DriverState, Agree, NoLoss
<1>3. CASE can' = KeepDriver /\ twai' = [NotInstalled EXCEPT !.state = "Stopped"]
  BY <1>3, FreshAgrees, QueuesHoldFrames
     DEF Typed, KeepDriver, Fresh, NotInstalled, Members, IsDriver, Drivers, DriverState, Agree,
         NoLoss
<1>4. CASE can' = Fresh /\ twai' = NotInstalled
  BY <1>4, FreshAgrees DEF Typed
<1> QED
  BY <1>1, <1>2, <1>3, <1>4 DEF InstallAndStart

LEMMA InitializeKeepsType ==
  ASSUME Typed(can, twai), Initialize PROVE Typed(can', twai')
<1>1. PICK fails \in SUBSET (DriverCall \ {"ReadAlerts"}) :
        LET stopped == Stopped(fails) IN
        IF can.installed \/ can.started
        THEN \/ /\ stopped.status # "Ok"
                /\ can' = stopped.can /\ twai' = stopped.twai
                /\ Return("initialize", stopped.status, fails = {})
             \/ stopped.status = "Ok" /\ InstallAndStart(stopped.twai, fails)
        ELSE InstallAndStart(twai, fails)
  BY DEF Initialize
<1>2. CASE can' = Stopped(fails).can /\ twai' = Stopped(fails).twai
  BY <1>2, StoppedKeepsType
<1>3. CASE Stopped(fails).status = "Ok" /\ InstallAndStart(Stopped(fails).twai, fails)
  <2>1. Stopped(fails).twai.state = "Uninstalled" /\ IsDriver(Stopped(fails).twai)
    BY <1>3, StoppedKeepsType DEF Typed
  <2> QED
    BY <1>3, <2>1, InstallKeepsType
<1>4. CASE ~can.installed /\ InstallAndStart(twai, fails)
  <2>1. twai.state = "Uninstalled" /\ IsDriver(twai)
    BY <1>4 DEF Typed, Agree
  <2> QED
    BY <1>4, <2>1, InstallKeepsType
<1> QED
  BY <1>1, <1>2, <1>3, <1>4

(***************************************************************************)
(* send and receive: what they keep of the types and of the alerts.        *)
(***************************************************************************)

StatusOf(alert) ==
  CASE alert \in Overflows -> "RxOverflow"
    [] alert = "BUS_OFF"   -> "BusOff"
    [] alert = "TX_FAILED" -> "TxFailed"

\* The alerts a step forgets.
Dropped == (can.pendingAlerts \cup twai.alerts) \ (can'.pendingAlerts \cup twai'.alerts)

\* What is to be shown of a step of a started driver.
Sound == Typed(can', twai') /\ \A alert \in Dropped : call'.status = StatusOf(alert)

LEMMA ReportAlertIsSound ==
  ASSUME Typed(can, twai), can.started, NEW op, NEW fails, NEW status,
         NEW alerts \in SUBSET Alert, \A alert \in alerts : status = StatusOf(alert),
         ReportAlert(op, alerts, Captured(fails), status, fails)
  PROVE  Sound
<1> DEFINE pending == Captured(fails)
           read == AlertsRead(fails)
<1>1. can \in Members /\ IsDriver(twai)
  BY DEF Typed
<1>2. IsDriver(read) /\ read.state = twai.state
  BY <1>1, AlertsReadKeepsType
<1>3. pending \in SUBSET Alert
  BY <1>1, CapturedKeepsType
<1>4. PICK loss \in 0 .. NoLoss : twai' = [read EXCEPT !.beforeLoss = loss]
  <2>1. read.beforeLoss \in 0 .. NoLoss /\ NoLoss \in 0 .. NoLoss
    BY <1>2, QueuesHoldFrames DEF IsDriver, Drivers, NoLoss
  <2> QED
    BY <2>1 DEF ReportAlert
<1>5. can' = [can EXCEPT !.pendingAlerts = pending \ alerts]
  BY DEF ReportAlert
<1>6. call'.status = status
  BY DEF ReportAlert, Return
<1>7. can.pendingAlerts \cup twai.alerts \subseteq pending \cup read.alerts
  BY <1>1, AlertsReadKeepsType, CapturedKeepsType
<1> HIDE DEF pending, read
<1>8. read \in Drivers
  BY <1>2 DEF IsDriver
<1>9. twai' \in Drivers
  BY <1>4, <1>8 DEF Drivers
<1>10. IsDriver(twai') /\ twai'.state = twai.state /\ twai'.alerts = read.alerts
  BY <1>2, <1>4, <1>8, <1>9 DEF IsDriver, Drivers
<1>11. pending \ alerts \in SUBSET Alert
  BY <1>3
<1>12. Typed(can', twai')
  BY <1>5, <1>10, <1>11, StartedKeepsType
<1>13. can'.pendingAlerts = pending \ alerts
  BY <1>1, <1>5 DEF Members
<1>14. Dropped \subseteq alerts
  BY <1>7, <1>10, <1>13 DEF Dropped
<1> QED
  BY <1>6, <1>12, <1>14 DEF Sound

\* A call that reports no alert keeps all it read, whatever it does to the driver's queues.
LEMMA QuietCallIsSound ==
  ASSUME Typed(can, twai), can.started, NEW fails, NEW d \in Later(fails),
         IsDriver(twai'), twai'.state = d.state, twai'.alerts = d.alerts,
         can' = [can EXCEPT !.pendingAlerts = Captured(fails)]
  PROVE  Sound
<1> DEFINE pending == Captured(fails)
<1>1. can \in Members /\ IsDriver(twai)
  BY DEF Typed
<1>2. pending \in SUBSET Alert
  BY <1>1, CapturedKeepsType
<1>3. can.pendingAlerts \cup twai.alerts \subseteq pending \cup d.alerts
  BY <1>1, LaterKeepsType, CapturedKeepsType
<1>4. twai'.state = twai.state \/ (twai.state = "Running" /\ twai'.state = "BusOff")
  BY <1>1, LaterKeepsType
<1>5. can' = [can EXCEPT !.pendingAlerts = pending]
  OBVIOUS
<1> HIDE DEF pending
<1>6. Typed(can', twai')
  BY <1>2, <1>4, <1>5, StartedKeepsType
<1>7. can'.pendingAlerts = pending
  BY <1>1, <1>5 DEF Members
<1>8. Dropped = {}
  BY <1>3, <1>7 DEF Dropped
<1> QED
  BY <1>6, <1>8 DEF Sound

LEMMA TransmitKeepsDriver ==
  ASSUME NEW d, IsDriver(d), NEW undisturbed, Transmit(d, undisturbed)
  PROVE  IsDriver(twai') /\ twai'.state = d.state /\ twai'.alerts = d.alerts
<1>1. CASE d.tx < TxQueueLength /\ twai' = [d EXCEPT !.tx = @ + 1]
  <2>1. d \in Drivers /\ d.tx + 1 \in 0 .. TxQueueLength
    BY <1>1, QueuesHoldFrames DEF IsDriver, Drivers
  <2>2. twai' \in Drivers
    BY <1>1, <2>1 DEF Drivers
  <2> QED
    BY <1>1, <2>1, <2>2 DEF IsDriver, Drivers
<1> QED
  BY <1>1 DEF Transmit

LEMMA TakeFrameKeepsDriver ==
  ASSUME NEW d, IsDriver(d), NEW undisturbed, TakeFrame(d, undisturbed)
  PROVE  IsDriver(twai') /\ twai'.state = d.state /\ twai'.alerts = d.alerts
<1> DEFINE loss == IF d.beforeLoss \in {0, NoLoss} THEN d.beforeLoss ELSE d.beforeLoss - 1
           rest == Tail(d.rx)
<1>1. CASE d.rx # <<>> /\ twai' = [d EXCEPT !.rx = rest, !.beforeLoss = loss]
  <2>1. d \in Drivers
    BY DEF IsDriver
  <2>2. loss \in 0 .. NoLoss
    BY <2>1, QueuesHoldFrames DEF Drivers, NoLoss
  <2>3. rest \in Seq(FrameKind) /\ Len(rest) <= RxQueueLength
    BY <1>1, <2>1, QueuesHoldFrames DEF IsDriver, Drivers
  <2> HIDE DEF loss, rest
  <2>4. twai' \in Drivers
    BY <1>1, <2>1, <2>2, <2>3 DEF Drivers
  <2> QED
    BY <1>1, <2>1, <2>3, <2>4 DEF IsDriver, Drivers
<1> QED
  BY <1>1 DEF TakeFrame

\* Both calls answer BusOff from the driver's state without reporting an alert.
LEMMA AnswerBusOffIsSound ==
  ASSUME Typed(can, twai), can.started, NEW op, NEW fails, AnswerBusOff(op, fails),
         can' = [can EXCEPT !.pendingAlerts = Captured(fails)]
  PROVE  Sound
<1>1. twai' \in Later(fails)
  BY DEF AnswerBusOff
<1>2. IsDriver(twai')
  BY <1>1, LaterKeepsType DEF Typed
<1> QED
  BY <1>1, <1>2, QuietCallIsSound

LEMMA SendIsSound ==
  ASSUME Typed(can, twai), NEW valid, Send(valid)
  PROVE  Sound
<1>1. CASE UNCHANGED <<can, twai>>
  BY <1>1 DEF Sound, Dropped
<1>2. CASE \E fails : can.started /\ SendValid(Captured(fails), fails)
  <2>1. PICK fails : can.started /\ SendValid(Captured(fails), fails)
    BY <1>2
  <2>2. CASE ConsumeSendAlert(Captured(fails), fails)
    <3>1. CASE ReportAlert("send", {"BUS_OFF"}, Captured(fails), "BusOff", fails)
      BY <2>1, <3>1, ReportAlertIsSound DEF Alert, StatusOf, Overflows
    <3>2. CASE ReportAlert("send", {"TX_FAILED"}, Captured(fails), "TxFailed", fails)
      BY <2>1, <3>2, ReportAlertIsSound DEF Alert, StatusOf, Overflows
    <3> QED
      BY <2>2, <3>1, <3>2 DEF ConsumeSendAlert
  <2>3. CASE /\ can' = [can EXCEPT !.pendingAlerts = Captured(fails)]
             /\ AnswerBusOff("send", fails)
    BY <2>1, <2>3, AnswerBusOffIsSound
  <2>4. CASE /\ can' = [can EXCEPT !.pendingAlerts = Captured(fails)]
             /\ \E d \in Later(fails) : Transmit(d, "ReadAlerts" \notin fails)
    <3>1. PICK d \in Later(fails) : Transmit(d, "ReadAlerts" \notin fails)
      BY <2>4
    <3>2. IsDriver(d)
      BY <3>1, LaterKeepsType DEF Typed
    <3> QED
      BY <2>1, <2>4, <3>1, <3>2, TransmitKeepsDriver, QuietCallIsSound
  <2> QED
    BY <2>1, <2>2, <2>3, <2>4 DEF SendValid
<1> QED
  BY <1>1, <1>2 DEF Send, Refuse

LEMMA ReceiveIsSound ==
  ASSUME Typed(can, twai), Receive
  PROVE  Sound
<1>1. CASE UNCHANGED <<can, twai>>
  BY <1>1 DEF Sound, Dropped
<1>2. CASE \E fails : can.started /\ ConsumeReceiveAlert(Captured(fails), fails)
  <2>1. PICK fails : can.started /\ ConsumeReceiveAlert(Captured(fails), fails)
    BY <1>2
  <2>2. CASE ReportAlert("receive", Overflows, Captured(fails), "RxOverflow", fails)
    BY <2>1, <2>2, ReportAlertIsSound DEF Alert, StatusOf, Overflows
  <2>3. CASE ReportAlert("receive", {"BUS_OFF"}, Captured(fails), "BusOff", fails)
    BY <2>1, <2>3, ReportAlertIsSound DEF Alert, StatusOf, Overflows
  <2> QED
    BY <2>1, <2>2, <2>3 DEF ConsumeReceiveAlert
<1>3. CASE \E fails : /\ can.started
                      /\ can' = [can EXCEPT !.pendingAlerts = Captured(fails)]
                      /\ AnswerBusOff("receive", fails)
  BY <1>3, AnswerBusOffIsSound
<1>4. CASE \E fails : /\ can.started
                      /\ can' = [can EXCEPT !.pendingAlerts = Captured(fails)]
                      /\ \E d \in Later(fails) : TakeFrame(d, "ReadAlerts" \notin fails)
  <2>1. PICK fails : /\ can.started
                     /\ can' = [can EXCEPT !.pendingAlerts = Captured(fails)]
                     /\ \E d \in Later(fails) : TakeFrame(d, "ReadAlerts" \notin fails)
    BY <1>4
  <2>2. PICK d \in Later(fails) : TakeFrame(d, "ReadAlerts" \notin fails)
    BY <2>1
  <2>3. IsDriver(d)
    BY <2>2, LaterKeepsType DEF Typed
  <2> QED
    BY <2>1, <2>2, <2>3, TakeFrameKeepsDriver, QuietCallIsSound
<1> QED
  BY <1>1, <1>2, <1>3, <1>4 DEF Receive, Refuse

LEMMA ControllerMovesIsSound ==
  ASSUME Typed(can, twai), ControllerMoves
  PROVE  Sound
<1>1. /\ IsDriver(twai') /\ twai.state = "Running" /\ twai'.state \in {"Running", "BusOff"}
      /\ twai.alerts \subseteq twai'.alerts
  BY MovesKeepType DEF Typed, ControllerMoves
<1>2. can' = can
  BY DEF ControllerMoves
<1>3. Typed(can', twai')
  BY <1>1, <1>2 DEF Typed, Agree
<1> QED
  BY <1>1, <1>2, <1>3 DEF Sound, Dropped

(***************************************************************************)
(* The theorems.                                                           *)
(***************************************************************************)

LEMMA NextIsSound ==
  ASSUME TypeOK, [Next]_vars
  PROVE  TypeOK' /\ \A alert \in Dropped :
                       call'.op \in {"initialize", "stop"} \/ call'.status = StatusOf(alert)
<1>1. Typed(can, twai)
  BY TypedBefore
<1>2. CASE Initialize
  <2>1. call'.op = "initialize"
    BY <1>2 DEF Initialize, InstallAndStart, Return
  <2> QED
    BY <1>1, <1>2, <2>1, InitializeKeepsType, TypedAfter
<1>3. CASE Stop
  <2>1. call'.op = "stop"
    BY <1>3 DEF Stop, Return
  <2> QED
    BY <1>1, <1>3, <2>1, StopKeepsType, TypedAfter
<1>4. CASE RefuseConfig \/ UNCHANGED vars
  <2>1. can' = can /\ twai' = twai
    BY <1>4 DEF RefuseConfig, vars
  <2> QED
    BY <1>1, <2>1, TypedAfter DEF Dropped
<1>5. CASE Sound
  BY <1>5, TypedAfter DEF Sound
<1> QED
  BY <1>1, <1>2, <1>3, <1>4, <1>5, SendIsSound, ReceiveIsSound, ControllerMovesIsSound DEF Next

\* The flags of the adapter tell what the driver is, after any sequence of calls whatever
\* driver calls fail, for queues of any length: installed while there is a driver, started
\* while it runs or is off the bus, and no alert kept of a driver that is gone.
THEOREM TypeCorrect == Spec => []TypeOK
<1>1. Init => TypeOK
  BY FreshAgrees, TypedBefore DEF Init, Typed
<1>2. TypeOK /\ [Next]_vars => TypeOK'
  BY NextIsSound
<1> QED
  BY <1>1, <1>2, PTL DEF Spec

\* No alert is lost between the driver and the caller: what a step forgets is the alert whose
\* status it returns, unless the step is initialize or stop.
THEOREM AlertsAreReported == Spec => AlertsReachTheCaller
<1>1. TypeOK /\ [Next]_vars
      => [\A alert \in (can.pendingAlerts \cup twai.alerts)
                        \ (can'.pendingAlerts \cup twai'.alerts) :
            \/ call'.op \in {"initialize", "stop"}
            \/ call'.status = CASE alert \in Overflows -> "RxOverflow"
                                [] alert = "BUS_OFF"   -> "BusOff"
                                [] alert = "TX_FAILED" -> "TxFailed"]_vars
  BY NextIsSound DEF Dropped, StatusOf
<1> QED
  BY <1>1, TypeCorrect, PTL DEF Spec, AlertsReachTheCaller

LEMMA Returned ==
  ASSUME NEW op, NEW status, NEW undisturbed, Return(op, status, undisturbed)
  PROVE  /\ call'.op = op /\ call'.status = status /\ call'.undisturbed = undisturbed
         /\ ~call'.behindLoss
BY DEF Return

LEMMA SendReturns ==
  ASSUME NEW valid, Send(valid)
  PROVE  call'.op = "send"
BY DEF Send, Refuse, SendValid, ConsumeSendAlert, ReportAlert, AnswerBusOff, Transmit, Return

\* Whatever failed before, initialize succeeds once every driver call succeeds that may.
LEMMA UndisturbedInitializeSucceeds ==
  ASSUME Typed(can, twai), Initialize, call'.undisturbed
  PROVE  call'.status = "Ok"
<1>1. PICK fails \in SUBSET (DriverCall \ {"ReadAlerts"}) :
        LET stopped == Stopped(fails) IN
        IF can.installed \/ can.started
        THEN \/ /\ stopped.status # "Ok"
                /\ can' = stopped.can /\ twai' = stopped.twai
                /\ Return("initialize", stopped.status, fails = {})
             \/ stopped.status = "Ok" /\ InstallAndStart(stopped.twai, fails)
        ELSE InstallAndStart(twai, fails)
  BY DEF Initialize
<1>2. fails = {}
  <2>1. ASSUME NEW status, Return("initialize", status, fails = {}) PROVE fails = {}
    BY <2>1, Returned, Zenon
  <2>2. ASSUME NEW status, Return("initialize", status, FALSE) PROVE FALSE
    BY <2>2, Returned, Zenon
  <2>3. ASSUME NEW before, InstallAndStart(before, fails) PROVE fails = {}
    BY <2>1, <2>2, <2>3, Zenon DEF InstallAndStart
  <2> QED
    BY <1>1, <2>1, <2>3
<1>3. Stopped({}).status = "Ok"
  <2>1. CASE twai.state = "Running"
    <3> DEFINE halted == [twai EXCEPT !.state = "Stopped", !.tx = 0]
    <3>1. halted.state = "Stopped"
      BY DEF Typed, IsDriver, Drivers
    <3> QED
      BY <2>1, <3>1 DEF Stopped, MustStop, CanStop, CanUninstall
  <2>2. CASE twai.state \in {"Stopped", "BusOff"}
    BY <2>2 DEF Stopped, MustStop, CanUninstall
  <2>3. CASE ~can.installed
    BY <2>3 DEF Stopped
  <2> QED
    BY <2>1, <2>2, <2>3 DEF Typed, Agree, IsDriver, Drivers, DriverState
<1>4. CASE InstallAndStart(Stopped({}).twai, {})
  <2>1. Stopped({}).twai.state = "Uninstalled"
    BY <1>3, StoppedKeepsType
  <2> QED
    BY <1>4, <2>1 DEF InstallAndStart, Return
<1>5. CASE ~can.installed /\ InstallAndStart(twai, {})
  <2>1. twai.state = "Uninstalled"
    BY <1>5 DEF Typed, Agree
  <2> QED
    BY <1>5, <2>1 DEF InstallAndStart, Return
<1> QED
  BY <1>1, <1>2, <1>3, <1>4, <1>5

\* The flags the adapter keeps never stop it from starting a driver again.
THEOREM HealthyDriverAlwaysStarts == Spec => []HealthyDriverStarts
<1>1. Init => HealthyDriverStarts
  BY DEF Init, HealthyDriverStarts
<1>2. TypeOK /\ HealthyDriverStarts /\ [Next]_vars => HealthyDriverStarts'
  <2> SUFFICES ASSUME TypeOK, HealthyDriverStarts, [Next]_vars
               PROVE  HealthyDriverStarts'
    OBVIOUS
  <2>1. CASE Initialize
    BY <2>1, TypedBefore, UndisturbedInitializeSucceeds DEF HealthyDriverStarts
  <2>2. CASE call' = call
    BY <2>2 DEF HealthyDriverStarts
  <2>3. CASE call'.op # "initialize"
    BY <2>3 DEF HealthyDriverStarts
  <2>4. ASSUME NEW valid, Send(valid) PROVE call'.op = "send"
    BY <2>4, SendReturns
  <2>5. ASSUME Receive PROVE call'.op = "receive"
    <3>1. ASSUME NEW d, NEW undisturbed, TakeFrame(d, undisturbed) PROVE call'.op = "receive"
      BY <3>1 DEF TakeFrame, HandOver, Return
    <3>2. ASSUME NEW pending, NEW fails, ConsumeReceiveAlert(pending, fails)
          PROVE  call'.op = "receive"
      BY <3>2 DEF ConsumeReceiveAlert, ReportAlert, Return
    <3>3. ASSUME NEW fails, AnswerBusOff("receive", fails) PROVE call'.op = "receive"
      BY <3>3 DEF AnswerBusOff, Return
    <3>4. ASSUME NEW status, Refuse("receive", status) PROVE call'.op = "receive"
      BY <3>4 DEF Refuse, Return
    <3> QED
      BY <2>5, <3>1, <3>2, <3>3, <3>4, Zenon DEF Receive
  <2> QED
    BY <2>1, <2>2, <2>3, <2>4, <2>5 DEF Next, vars, RefuseConfig, Stop, ControllerMoves, Return
<1> QED
  BY <1>1, <1>2, TypeCorrect, PTL DEF Spec

(***************************************************************************)
(* A loss not yet reported always has its alert, latched by the driver or  *)
(* kept by the adapter.                                                    *)
(***************************************************************************)

HasAlert(c, d) == d.beforeLoss # NoLoss => Overflows \cap (c.pendingAlerts \cup d.alerts) # {}

LossHasAlert == HasAlert(can, twai)

LEMMA MovesKeepLoss ==
  ASSUME NEW d, IsDriver(d), NEW e \in Moves(d)
  PROVE  e.beforeLoss # NoLoss => d.beforeLoss # NoLoss \/ Overflows \cap e.alerts # {}
<1>1. d \in Drivers
  BY DEF IsDriver
<1>2. ASSUME NEW alert \in Overflows PROVE Overflows \cap Loses(d, alert).alerts # {}
  <2>1. alert \in Loses(d, alert).alerts
    BY <1>2, LosesKeepsType DEF Overflows, Alert
  <2> QED
    BY <1>2, <2>1
<1>3. CASE \E kind \in FrameKind : e = Arrives(d, kind)
  <2>1. PICK kind \in FrameKind : e = Arrives(d, kind)
    BY <1>3
  <2>2. CASE Len(d.rx) < RxQueueLength
    BY <1>1, <2>1, <2>2 DEF Arrives, Drivers
  <2>3. CASE ~(Len(d.rx) < RxQueueLength)
    BY <1>2, <2>1, <2>3 DEF Arrives, Overflows
  <2> QED
    BY <2>2, <2>3
<1>4. CASE e = Loses(d, "RX_FIFO_OVERRUN")
  BY <1>2, <1>4 DEF Overflows
<1>5. CASE e = [d EXCEPT !.state = "BusOff", !.alerts = @ \cup {"BUS_OFF"}]
  BY <1>1, <1>5 DEF Drivers
<1>6. CASE e = [d EXCEPT !.tx = @ - 1]
  BY <1>1, <1>6 DEF Drivers
<1>7. CASE e = [d EXCEPT !.tx = @ - 1, !.alerts = @ \cup {"TX_FAILED"}]
  BY <1>1, <1>7 DEF Drivers
<1> QED
  BY <1>3, <1>4, <1>5, <1>6, <1>7 DEF Moves

LEMMA MovedOnKeepsLoss ==
  ASSUME NEW d, IsDriver(d), NEW e \in MovedOn(d)
  PROVE  e.beforeLoss # NoLoss => d.beforeLoss # NoLoss \/ Overflows \cap e.alerts # {}
<1>1. CASE d.state = "Running"
  <2>1. PICK c \in Courses(d) : \E left \in LeftToSend(d, c), first \in FirstLoss(d, c) :
                                   e = After(d, c, left, first)
    BY <1>1 DEF MovedOn
  <2>2. PICK left \in LeftToSend(d, c), first \in FirstLoss(d, c) : e = After(d, c, left, first)
    BY <2>1
  <2>3. e.beforeLoss = first /\ c.raised \subseteq e.alerts
    BY <2>2 DEF After
  <2>4. Overflows \cap c.raised = {} => first = d.beforeLoss
    BY DEF FirstLoss
  <2> QED
    BY <2>3, <2>4
<1> QED
  BY <1>1 DEF MovedOn

\* After the alerts were read, what was read is kept by the adapter.
LEMMA AlertIsRead ==
  ASSUME Typed(can, twai), LossHasAlert, NEW fails
  PROVE  AlertsRead(fails).beforeLoss # NoLoss
         => Overflows \cap (Captured(fails) \cup AlertsRead(fails).alerts) # {}
<1> DEFINE read == AlertsRead(fails)
<1>1. twai \in Drivers /\ can \in Members /\ IsDriver(twai)
  BY DEF Typed, IsDriver
<1>2. read.beforeLoss = twai.beforeLoss
  BY <1>1 DEF AlertsRead, Drivers
<1>3. can.pendingAlerts \cup twai.alerts \subseteq Captured(fails) \cup read.alerts
  BY <1>1, AlertsReadKeepsType, CapturedKeepsType
<1> QED
  BY <1>2, <1>3 DEF LossHasAlert, HasAlert

LEMMA LaterHasAlert ==
  ASSUME Typed(can, twai), LossHasAlert, NEW fails, NEW d \in Later(fails)
  PROVE  d.beforeLoss # NoLoss => Overflows \cap (Captured(fails) \cup d.alerts) # {}
<1> DEFINE read == AlertsRead(fails)
<1>2. IsDriver(read)
  BY AlertsReadKeepsType DEF Typed
<1>4. read.beforeLoss # NoLoss => Overflows \cap (Captured(fails) \cup read.alerts) # {}
  BY AlertIsRead
<1>5. d \in MovedOn(read)
  BY DEF Later
<1> HIDE DEF read
<1>6. /\ read.alerts \subseteq d.alerts
      /\ d.beforeLoss # NoLoss => read.beforeLoss # NoLoss \/ Overflows \cap d.alerts # {}
  BY <1>2, <1>5, MovedOnKeepsType, MovedOnKeepsLoss
<1> QED
  BY <1>4, <1>6

\* An alert is reported: a loss is forgotten with the last overflow alert only.
LEMMA ReportKeepsLoss ==
  ASSUME Typed(can, twai), LossHasAlert, NEW op, NEW fails, NEW status,
         NEW alerts, status = "RxOverflow" \/ Overflows \cap alerts = {},
         ReportAlert(op, alerts, Captured(fails), status, fails)
  PROVE  HasAlert(can', twai')
<1> DEFINE read == AlertsRead(fails)
           pending == Captured(fails)
           loss == IF status = "RxOverflow" /\ Overflows \cap read.alerts = {} THEN NoLoss
                   ELSE read.beforeLoss
<1>1. can \in Members /\ IsDriver(read)
  BY AlertsReadKeepsType DEF Typed
<1>2. read.beforeLoss # NoLoss => Overflows \cap (pending \cup read.alerts) # {}
  BY AlertIsRead
<1>3. can' = [can EXCEPT !.pendingAlerts = pending \ alerts]
      /\ twai' = [read EXCEPT !.beforeLoss = loss]
  BY DEF ReportAlert
<1> HIDE DEF pending, read
<1>4. can'.pendingAlerts = pending \ alerts /\ twai'.alerts = read.alerts
      /\ twai'.beforeLoss = loss
  BY <1>1, <1>3 DEF Members, IsDriver, Drivers
<1> QED
  BY <1>2, <1>4 DEF HasAlert

\* No alert is reported: the frame taken, if any, brings the loss nearer but does not clear it.
LEMMA QuietCallKeepsLoss ==
  ASSUME Typed(can, twai), LossHasAlert, NEW fails, NEW d \in Later(fails),
         twai'.alerts = d.alerts, d.beforeLoss = NoLoss => twai'.beforeLoss = NoLoss,
         can' = [can EXCEPT !.pendingAlerts = Captured(fails)]
  PROVE  HasAlert(can', twai')
<1>1. can \in Members
  BY DEF Typed
<1>2. can'.pendingAlerts = Captured(fails)
  BY <1>1 DEF Members
<1> QED
  BY <1>2, LaterHasAlert DEF HasAlert

LEMMA TransmitKeepsLoss ==
  ASSUME NEW d, IsDriver(d), NEW undisturbed, Transmit(d, undisturbed)
  PROVE  twai'.beforeLoss = d.beforeLoss
BY DEF Transmit, IsDriver, Drivers

LEMMA TakeFrameKeepsLoss ==
  ASSUME NEW d, IsDriver(d), NEW undisturbed, TakeFrame(d, undisturbed)
  PROVE  d.beforeLoss = NoLoss => twai'.beforeLoss = NoLoss
<1>1. d \in Drivers
  BY DEF IsDriver
<1> QED
  BY <1>1 DEF TakeFrame, Drivers

LEMMA SendKeepsLoss ==
  ASSUME Typed(can, twai), LossHasAlert, NEW valid, Send(valid)
  PROVE  HasAlert(can', twai')
<1>1. CASE UNCHANGED <<can, twai>>
  BY <1>1 DEF LossHasAlert
<1>2. ASSUME NEW fails, ConsumeSendAlert(Captured(fails), fails)
      PROVE  HasAlert(can', twai')
  BY <1>2, ReportKeepsLoss DEF ConsumeSendAlert, Overflows
<1>3. ASSUME NEW fails, AnswerBusOff("send", fails),
             can' = [can EXCEPT !.pendingAlerts = Captured(fails)]
      PROVE  HasAlert(can', twai')
  BY <1>3, QuietCallKeepsLoss DEF AnswerBusOff
<1>4. ASSUME NEW fails, NEW d \in Later(fails), Transmit(d, "ReadAlerts" \notin fails),
             can' = [can EXCEPT !.pendingAlerts = Captured(fails)]
      PROVE  HasAlert(can', twai')
  <2>1. IsDriver(d)
    BY <1>4, LaterKeepsType DEF Typed
  <2> QED
    BY <1>4, <2>1, TransmitKeepsDriver, TransmitKeepsLoss, QuietCallKeepsLoss
<1> QED
  BY <1>1, <1>2, <1>3, <1>4 DEF Send, SendValid, Refuse

LEMMA ReceiveKeepsLoss ==
  ASSUME Typed(can, twai), LossHasAlert, Receive
  PROVE  HasAlert(can', twai')
<1>1. CASE UNCHANGED <<can, twai>>
  BY <1>1 DEF LossHasAlert
<1>2. ASSUME NEW fails, ConsumeReceiveAlert(Captured(fails), fails)
      PROVE  HasAlert(can', twai')
  BY <1>2, ReportKeepsLoss DEF ConsumeReceiveAlert, Overflows
<1>3. ASSUME NEW fails, AnswerBusOff("receive", fails),
             can' = [can EXCEPT !.pendingAlerts = Captured(fails)]
      PROVE  HasAlert(can', twai')
  BY <1>3, QuietCallKeepsLoss DEF AnswerBusOff
<1>4. ASSUME NEW fails, NEW d \in Later(fails), TakeFrame(d, "ReadAlerts" \notin fails),
             can' = [can EXCEPT !.pendingAlerts = Captured(fails)]
      PROVE  HasAlert(can', twai')
  <2>1. IsDriver(d)
    BY <1>4, LaterKeepsType DEF Typed
  <2> QED
    BY <1>4, <2>1, TakeFrameKeepsDriver, TakeFrameKeepsLoss, QuietCallKeepsLoss
<1> QED
  BY <1>1, <1>2, <1>3, <1>4 DEF Receive, Refuse

LEMMA ControllerKeepsLoss ==
  ASSUME Typed(can, twai), LossHasAlert, ControllerMoves
  PROVE  HasAlert(can', twai')
<1>1. can' = can /\ twai' \in Moves(twai) /\ IsDriver(twai)
  BY DEF ControllerMoves, Typed
<1>2. twai'.beforeLoss # NoLoss
      => twai.beforeLoss # NoLoss \/ Overflows \cap twai'.alerts # {}
  BY <1>1, MovesKeepLoss
<1>3. twai.alerts \subseteq twai'.alerts
  BY <1>1, MovesKeepType
<1> QED
  BY <1>1, <1>2, <1>3 DEF LossHasAlert, HasAlert

LEMMA StoppedKeepsLoss ==
  ASSUME NEW fails, Typed(can, twai), LossHasAlert
  PROVE  HasAlert(Stopped(fails).can, Stopped(fails).twai)
<1> DEFINE halted == IF MustStop(twai) THEN [twai EXCEPT !.state = "Stopped", !.tx = 0] ELSE twai
<1>1. halted.beforeLoss = twai.beforeLoss /\ halted.alerts = twai.alerts
  BY DEF Typed, IsDriver, Drivers
<1>2. HasAlert(can, twai) /\ HasAlert(can, halted)
  BY <1>1 DEF LossHasAlert, HasAlert
<1>3. HasAlert(Fresh, NotInstalled)
  BY DEF HasAlert, NotInstalled
<1>4. \/ Stopped(fails).can = can /\ Stopped(fails).twai = twai
      \/ Stopped(fails).can = can /\ Stopped(fails).twai = halted
      \/ Stopped(fails).can = Fresh /\ Stopped(fails).twai = NotInstalled
  BY DEF Stopped
<1> HIDE DEF halted
<1> QED
  BY <1>2, <1>3, <1>4

\* Where there is no driver there is no alert to keep.
LEMMA NoDriverHasNoLoss ==
  ASSUME NEW c, NEW d, Typed(c, d), HasAlert(c, d), d.state = "Uninstalled"
  PROVE  HasAlert(Fresh, d)
<1>1. c.pendingAlerts = {}
  BY DEF Typed, Agree
<1> QED
  BY <1>1 DEF HasAlert, Fresh

LEMMA InstallKeepsLoss ==
  ASSUME NEW before, NEW fails, HasAlert(Fresh, before), before.state = "Uninstalled",
         InstallAndStart(before, fails)
  PROVE  HasAlert(can', twai')
<1>1. CASE can' = Fresh /\ twai' = before
  BY <1>1
<1>2. CASE \/ twai' = [NotInstalled EXCEPT !.state = "Running"]
           \/ twai' = [NotInstalled EXCEPT !.state = "Stopped"]
           \/ twai' = NotInstalled
  <2>1. twai'.beforeLoss = NoLoss
    BY <1>2 DEF NotInstalled
  <2> QED
    BY <2>1 DEF HasAlert
<1> QED
  BY <1>1, <1>2 DEF InstallAndStart

LEMMA InitializeKeepsLoss ==
  ASSUME Typed(can, twai), LossHasAlert, Initialize
  PROVE  HasAlert(can', twai')
<1>1. PICK fails \in SUBSET (DriverCall \ {"ReadAlerts"}) :
        LET stopped == Stopped(fails) IN
        IF can.installed \/ can.started
        THEN \/ /\ stopped.status # "Ok"
                /\ can' = stopped.can /\ twai' = stopped.twai
                /\ Return("initialize", stopped.status, fails = {})
             \/ stopped.status = "Ok" /\ InstallAndStart(stopped.twai, fails)
        ELSE InstallAndStart(twai, fails)
  BY DEF Initialize
<1>2. CASE can' = Stopped(fails).can /\ twai' = Stopped(fails).twai
  BY <1>2, StoppedKeepsLoss
<1>3. CASE Stopped(fails).status = "Ok" /\ InstallAndStart(Stopped(fails).twai, fails)
  <2>1. Stopped(fails).twai.state = "Uninstalled"
    BY <1>3, StoppedKeepsType
  <2>2. HasAlert(Fresh, Stopped(fails).twai)
    BY <2>1, StoppedKeepsType, StoppedKeepsLoss, NoDriverHasNoLoss
  <2> QED
    BY <1>3, <2>1, <2>2, InstallKeepsLoss
<1>4. CASE ~can.installed /\ InstallAndStart(twai, fails)
  <2>1. twai.state = "Uninstalled"
    BY <1>4 DEF Typed, Agree
  <2>2. HasAlert(Fresh, twai)
    BY <2>1, NoDriverHasNoLoss DEF LossHasAlert
  <2> QED
    BY <1>4, <2>1, <2>2, InstallKeepsLoss
<1> QED
  BY <1>1, <1>2, <1>3, <1>4

LEMMA LossAlwaysHasAlert == Spec => []LossHasAlert
<1>1. Init => LossHasAlert
  BY DEF Init, LossHasAlert, HasAlert, NotInstalled
<1>2. TypeOK /\ LossHasAlert /\ [Next]_vars => LossHasAlert'
  <2> SUFFICES ASSUME TypeOK, LossHasAlert, [Next]_vars
               PROVE  HasAlert(can', twai')
    BY DEF LossHasAlert
  <2>1. Typed(can, twai)
    BY TypedBefore
  <2>2. CASE can' = can /\ twai' = twai
    BY <2>2 DEF LossHasAlert
  <2>3. CASE Stop
    BY <2>1, <2>3, StoppedKeepsLoss DEF Stop
  <2> QED
    BY <2>1, <2>2, <2>3, InitializeKeepsLoss, SendKeepsLoss, ReceiveKeepsLoss,
       ControllerKeepsLoss DEF Next, vars, RefuseConfig
<1> QED
  BY <1>1, <1>2, TypeCorrect, PTL DEF Spec

\* A loss from before the call is reported by a receive that reads the alerts, whatever the
\* controller does while it runs.
LEMMA ReceiveReportsLoss ==
  ASSUME Typed(can, twai), LossHasAlert, Receive, call'.undisturbed, can.started,
         twai.beforeLoss # NoLoss
  PROVE  call'.status = "RxOverflow" /\ ~call'.behindLoss
<1>1. can \in Members /\ IsDriver(twai)
  BY DEF Typed
<1>2. ASSUME NEW fails, "ReadAlerts" \notin fails
      PROVE  Overflows \cap Captured(fails) # {}
  <2>1. can.pendingAlerts \cup twai.alerts \subseteq Captured(fails)
    BY <1>1, <1>2, CapturedKeepsType
  <2> QED
    BY <2>1 DEF LossHasAlert, HasAlert
<1>3. ASSUME NEW fails, ConsumeReceiveAlert(Captured(fails), fails)
      PROVE  call'.status = "RxOverflow" /\ ~call'.behindLoss
  <2>1. "ReadAlerts" \notin fails
    BY <1>3, Returned, Zenon DEF ConsumeReceiveAlert, ReportAlert
  <2> QED
    BY <1>2, <1>3, <2>1, Returned, Zenon DEF ConsumeReceiveAlert, ReportAlert
<1>4. ASSUME NEW fails, (Overflows \cup {"BUS_OFF"}) \cap Captured(fails) = {}
      PROVE  "ReadAlerts" \in fails
  BY <1>2, <1>4
<1>5. ASSUME NEW fails, "ReadAlerts" \in fails, AnswerBusOff("receive", fails)
      PROVE  FALSE
  BY <1>5, Returned, Zenon DEF AnswerBusOff
<1>6. ASSUME NEW d, TakeFrame(d, FALSE)
      PROVE  FALSE
  BY <1>6 DEF TakeFrame, HandOver, Return
<1>7. ASSUME NEW fails, "ReadAlerts" \in fails, NEW d, TakeFrame(d, "ReadAlerts" \notin fails)
      PROVE  FALSE
  <2>1. ("ReadAlerts" \notin fails) = FALSE
    BY <1>7
  <2> QED
    BY <1>6, <1>7, <2>1
<1>8. PICK fails \in SUBSET {"ReadAlerts", "GetStatus"} :
        LET pending == Captured(fails) IN
        \/ ConsumeReceiveAlert(pending, fails)
        \/ /\ (Overflows \cup {"BUS_OFF"}) \cap pending = {}
           /\ can' = [can EXCEPT !.pendingAlerts = pending]
           /\ \/ AnswerBusOff("receive", fails)
              \/ /\ BusSeemsOn(fails)
                 /\ \E d \in Later(fails) : TakeFrame(d, "ReadAlerts" \notin fails)
  BY DEF Receive
<1> QED
  BY <1>3, <1>4, <1>5, <1>7, <1>8, Zenon

\* The first receive after a loss that reads the alerts reports it, whatever the controller
\* does between the driver calls of a handler: a frame from behind an unreported loss is
\* handed over only by the call during which the loss fell.
THEOREM LossIsAlwaysReportedFirst == Spec => LossIsReportedFirst
<1>1. TypeOK /\ LossHasAlert /\ [Next]_vars
      => [call'.op = "receive" /\ call'.undisturbed /\ can.started =>
            /\ twai.beforeLoss # NoLoss => call'.status = "RxOverflow"
            /\ call'.behindLoss => twai.beforeLoss = NoLoss]_vars
  <2> SUFFICES ASSUME TypeOK, LossHasAlert, Next,
                      call'.op = "receive", call'.undisturbed, can.started
               PROVE  /\ twai.beforeLoss # NoLoss => call'.status = "RxOverflow"
                      /\ call'.behindLoss => twai.beforeLoss = NoLoss
    OBVIOUS
  <2>1. Typed(can, twai)
    BY TypedBefore
  <2>2. CASE Receive
    BY <2>1, <2>2, ReceiveReportsLoss
  <2>3. Initialize => call'.op = "initialize"
    BY DEF Initialize, InstallAndStart, Return
  <2>4. Stop => call'.op = "stop"
    BY DEF Stop, Return
  <2>5. ASSUME NEW valid, Send(valid) PROVE call'.op = "send"
    BY <2>5, SendReturns
  <2>6. ControllerMoves => call'.op = "none"
    BY DEF ControllerMoves, Return
  <2> QED
    BY <2>2, <2>3, <2>4, <2>5, <2>6 DEF Next, RefuseConfig, Return
<1> QED
  BY <1>1, TypeCorrect, LossAlwaysHasAlert, PTL DEF Spec, LossIsReportedFirst
================================================================================
