----------------------------- MODULE Esp32TwaiCan -----------------------------
(***************************************************************************)
(* The adapter between the CAN interface and the TWAI driver of the ESP32  *)
(* (esp32_twai_can.cpp). Every handler is one action, the driver calls it  *)
(* makes included; `fails` holds the calls that fail this time for a       *)
(* reason of their own, besides those made in a state where they must. The *)
(* driver is external: the controller moves by itself, any number of times *)
(* between the calls of the program and between the driver calls of send   *)
(* and receive.                                                            *)
(***************************************************************************)
EXTENDS Naturals, Sequences

CONSTANTS
  RxQueueLength,   \* general.rx_queue_len
  TxQueueLength    \* of TWAI_GENERAL_CONFIG_DEFAULT

ASSUME QueuesHoldFrames == RxQueueLength \in Nat \ {0} /\ TxQueueLength \in Nat \ {0}

VARIABLES
  can,    \* members of Esp32TwaiCan
  twai,   \* the driver: state, latched alerts, received frames, frames to transmit, and as
          \* history how many received frames precede the first loss not yet reported
  call    \* history: what the last step was: the call ("none" when the controller moved), its
          \* status, whether every driver call that the driver's state allows succeeded (of
          \* send and receive: whether the alerts were read), and whether it handed over a
          \* frame that had arrived after a loss not yet reported

vars == <<can, twai, call>>

Alert == {"RX_QUEUE_FULL", "RX_FIFO_OVERRUN", "BUS_OFF", "TX_FAILED"}
FrameKind == {"Data", "Unsupported"}   \* "Unsupported": remote, or longer than eight bytes
DriverCall == {"GetStatus", "Stop", "Uninstall", "Install", "Start", "UninstallAgain",
               "ReadAlerts"}

Fresh == [installed |-> FALSE, started |-> FALSE, pendingAlerts |-> {}]
NoLoss == RxQueueLength + 1
NotInstalled ==
  [state |-> "Uninstalled", alerts |-> {}, rx |-> <<>>, tx |-> 0, beforeLoss |-> NoLoss]

Init ==
  /\ can = Fresh
  /\ twai = NotInstalled
  /\ call = [op |-> "none", status |-> "Ok", undisturbed |-> TRUE, behindLoss |-> FALSE]

Return(op, status, undisturbed) ==
  call' = [op |-> op, status |-> status, undisturbed |-> undisturbed, behindLoss |-> FALSE]

HandOver(status, undisturbed, behindLoss) ==
  call' = [op |-> "receive", status |-> status, undisturbed |-> undisturbed,
           behindLoss |-> behindLoss]

(***************************************************************************)
(* The driver.                                                             *)
(***************************************************************************)
Loses(d, alert) ==
  [d EXCEPT !.alerts = @ \cup {alert},
            !.beforeLoss = IF @ = NoLoss THEN Len(d.rx) ELSE @]

Arrives(d, kind) ==
  IF Len(d.rx) < RxQueueLength THEN [d EXCEPT !.rx = Append(@, kind)]
  ELSE Loses(d, "RX_QUEUE_FULL")

\* What the controller may do next without being asked.
Moves(d) ==
  IF d.state # "Running" THEN {}
  ELSE {Arrives(d, kind) : kind \in FrameKind}
       \cup {Loses(d, "RX_FIFO_OVERRUN"),
             [d EXCEPT !.state = "BusOff", !.alerts = @ \cup {"BUS_OFF"}]}
       \cup IF d.tx = 0 THEN {}
            ELSE {[d EXCEPT !.tx = @ - 1],
                  [d EXCEPT !.tx = @ - 1, !.alerts = @ \cup {"TX_FAILED"}]}

Overflows == {"RX_QUEUE_FULL", "RX_FIFO_OVERRUN"}

\* What may happen to a running driver in any number of moves: the frames that arrive and are
\* queued, and the alerts raised meanwhile. A queue that overflows is full from then on.
Courses(d) ==
  LET room == RxQueueLength - Len(d.rx)
      arrivals == UNION {[1 .. n -> FrameKind] : n \in 0 .. room}
  IN  {c \in [arrived : arrivals, raised : SUBSET Alert] :
         "RX_QUEUE_FULL" \in c.raised => Len(c.arrived) = room}

LeftToSend(d, c) == {n \in 0 .. d.tx : "TX_FAILED" \in c.raised => n < d.tx}

\* Where the first loss may fall: an overrun between any two arrivals, an overflow behind them.
FirstLoss(d, c) ==
  IF d.beforeLoss # NoLoss \/ Overflows \cap c.raised = {} THEN {d.beforeLoss}
  ELSE IF "RX_FIFO_OVERRUN" \in c.raised THEN Len(d.rx) .. Len(d.rx) + Len(c.arrived)
  ELSE {RxQueueLength}

After(d, c, left, first) ==
  [state |-> IF "BUS_OFF" \in c.raised THEN "BusOff" ELSE "Running",
   alerts |-> d.alerts \cup c.raised, rx |-> d.rx \o c.arrived, tx |-> left,
   beforeLoss |-> first]

\* The closure of Moves: the driver once the controller has moved any number of times.
MovedOn(d) ==
  IF d.state # "Running" THEN {d}
  ELSE UNION {{After(d, c, left, first) : left \in LeftToSend(d, c), first \in FirstLoss(d, c)} :
                c \in Courses(d)}

CanStop(d, fails) == d.state = "Running" /\ "Stop" \notin fails
CanUninstall(d, fails) == d.state \in {"Stopped", "BusOff"} /\ "Uninstall" \notin fails

(***************************************************************************)
(* stop and initialize                                                     *)
(***************************************************************************)

\* Mutant: the driver is stopped whatever state it is in.
MustAlwaysStop(d) == TRUE

MustStop(d) == d.state = "Running"

\* What stop returns and leaves behind: it may fail with the driver stopped and installed. A
\* bus that goes off after the state was read is a "Stop" that fails.
Stopped(fails) ==
  LET failed(d) == [status |-> "DriverError", can |-> can, twai |-> d]
      halted == IF MustStop(twai) THEN [twai EXCEPT !.state = "Stopped", !.tx = 0] ELSE twai
  IN  IF ~can.installed THEN [status |-> "Ok", can |-> can, twai |-> twai]
      ELSE IF "GetStatus" \in fails \/ (MustStop(twai) /\ ~CanStop(twai, fails))
      THEN failed(twai)
      ELSE IF ~CanUninstall(halted, fails) THEN failed(halted)
      ELSE [status |-> "Ok", can |-> Fresh, twai |-> NotInstalled]

Stop ==
  \E fails \in SUBSET {"GetStatus", "Stop", "Uninstall"} :
    LET stopped == Stopped(fails) IN
    /\ can' = stopped.can
    /\ twai' = stopped.twai
    /\ Return("stop", stopped.status, fails = {})

RefuseConfig ==
  /\ Return("configure", "InvalidConfig", TRUE)
  /\ UNCHANGED <<can, twai>>

\* Mutant: a driver that could not be uninstalled again is forgotten.
ForgetDriver == Fresh

KeepDriver == [Fresh EXCEPT !.installed = TRUE]

InstallAndStart(before, fails) ==
  \/ /\ before.state # "Uninstalled" \/ "Install" \in fails
     /\ can' = Fresh /\ twai' = before
     /\ Return("initialize", "InvalidConfig", fails = {})
  \/ /\ before.state = "Uninstalled" /\ "Install" \notin fails
     /\ \/ /\ "Start" \notin fails
           /\ can' = [Fresh EXCEPT !.installed = TRUE, !.started = TRUE]
           /\ twai' = [NotInstalled EXCEPT !.state = "Running"]
           /\ Return("initialize", "Ok", fails = {})
        \/ /\ {"Start", "UninstallAgain"} \subseteq fails
           /\ can' = KeepDriver
           /\ twai' = [NotInstalled EXCEPT !.state = "Stopped"]
           /\ Return("initialize", "DriverError", FALSE)
        \/ /\ "Start" \in fails /\ "UninstallAgain" \notin fails
           /\ can' = Fresh /\ twai' = NotInstalled
           /\ Return("initialize", "InvalidConfig", FALSE)

Initialize ==
  \E fails \in SUBSET (DriverCall \ {"ReadAlerts"}) :
    LET stopped == Stopped(fails) IN
    IF can.installed \/ can.started
    THEN \/ /\ stopped.status # "Ok"
            /\ can' = stopped.can /\ twai' = stopped.twai
            /\ Return("initialize", stopped.status, fails = {})
         \/ stopped.status = "Ok" /\ InstallAndStart(stopped.twai, fails)
    ELSE InstallAndStart(twai, fails)

(***************************************************************************)
(* send and receive                                                        *)
(***************************************************************************)

\* Mutant: new alerts replace those not yet reported.
LatestAlerts(fails) ==
  IF "ReadAlerts" \in fails THEN can.pendingAlerts ELSE twai.alerts

Captured(fails) ==
  IF "ReadAlerts" \in fails THEN can.pendingAlerts ELSE can.pendingAlerts \cup twai.alerts

AlertsRead(fails) == IF "ReadAlerts" \in fails THEN twai ELSE [twai EXCEPT !.alerts = {}]

\* An alert is reported instead of doing the work, and by that forgotten.
ReportAlert(op, alerts, pending, status, fails) ==
  /\ can' = [can EXCEPT !.pendingAlerts = pending \ alerts]
  /\ twai' = [AlertsRead(fails) EXCEPT
                 !.beforeLoss = IF status = "RxOverflow" /\ Overflows \cap AlertsRead(fails).alerts = {}
                                THEN NoLoss ELSE @]
  /\ Return(op, status, "ReadAlerts" \notin fails)

ConsumeSendAlert(pending, fails) ==
  \/ /\ "BUS_OFF" \in pending
     /\ ReportAlert("send", {"BUS_OFF"}, pending, "BusOff", fails)
  \/ /\ "BUS_OFF" \notin pending /\ "TX_FAILED" \in pending
     /\ ReportAlert("send", {"TX_FAILED"}, pending, "TxFailed", fails)

ConsumeReceiveAlert(pending, fails) ==
  \/ /\ Overflows \cap pending # {}
     /\ ReportAlert("receive", Overflows, pending, "RxOverflow", fails)
  \/ /\ Overflows \cap pending = {} /\ "BUS_OFF" \in pending
     /\ ReportAlert("receive", {"BUS_OFF"}, pending, "BusOff", fails)

\* The driver as a later driver call of the same handler finds it.
Later(fails) == MovedOn(AlertsRead(fails))

AnswerBusOff(op, fails) ==
  /\ "GetStatus" \notin fails
  /\ twai' \in {d \in Later(fails) : d.state = "BusOff"}
  /\ Return(op, "BusOff", "ReadAlerts" \notin fails)

\* A bus may also go off once its state was read, and a state that cannot be read is ignored.
BusSeemsOn(fails) == "GetStatus" \in fails \/ twai.state # "BusOff"

Transmit(d, undisturbed) ==
  \/ /\ d.state = "Running" /\ d.tx < TxQueueLength
     /\ twai' = [d EXCEPT !.tx = @ + 1]
     /\ Return("send", "Ok", undisturbed)
  \/ /\ twai' = d
     /\ \E status \in IF d.state = "Running" THEN {"TxBusy", "InvalidConfig", "DriverError"}
                      ELSE {"NotInitialized"} :
          Return("send", status, undisturbed)

TakeFrame(d, undisturbed) ==
  \/ /\ twai' = d
     /\ Return("receive", IF d.state = "Uninstalled" THEN "NotInitialized" ELSE "NoData",
               undisturbed)
  \/ /\ d.rx # <<>>
     /\ twai' = [d EXCEPT !.rx = Tail(@),
                          !.beforeLoss = IF @ \in {0, NoLoss} THEN @ ELSE @ - 1]
     /\ IF Head(d.rx) = "Data" THEN HandOver("Ok", undisturbed, d.beforeLoss = 0)
        ELSE Return("receive", "InvalidConfig", undisturbed)

Refuse(op, status) ==
  /\ Return(op, status, TRUE)
  /\ UNCHANGED <<can, twai>>

SendValid(pending, fails) ==
  \/ ConsumeSendAlert(pending, fails)
  \/ /\ {"BUS_OFF", "TX_FAILED"} \cap pending = {}
     /\ can' = [can EXCEPT !.pendingAlerts = pending]
     /\ \/ AnswerBusOff("send", fails)
        \/ /\ BusSeemsOn(fails)
           /\ \E d \in Later(fails) : Transmit(d, "ReadAlerts" \notin fails)

Send(valid) ==
  \/ ~can.started /\ Refuse("send", "NotInitialized")
  \/ can.started /\ ~valid /\ Refuse("send", "InvalidConfig")
  \/ /\ can.started /\ valid
     /\ \E fails \in SUBSET {"ReadAlerts", "GetStatus"} : SendValid(Captured(fails), fails)

Receive ==
  \/ ~can.started /\ Refuse("receive", "NotInitialized")
  \/ /\ can.started
     /\ \E fails \in SUBSET {"ReadAlerts", "GetStatus"} :
          LET pending == Captured(fails) IN
          \/ ConsumeReceiveAlert(pending, fails)
          \/ /\ (Overflows \cup {"BUS_OFF"}) \cap pending = {}
             /\ can' = [can EXCEPT !.pendingAlerts = pending]
             /\ \/ AnswerBusOff("receive", fails)
                \/ /\ BusSeemsOn(fails)
                   /\ \E d \in Later(fails) : TakeFrame(d, "ReadAlerts" \notin fails)

ControllerMoves ==
  /\ twai' \in Moves(twai)
  /\ Return("none", "Ok", TRUE)
  /\ UNCHANGED can

Next ==
  \/ Initialize
  \/ RefuseConfig
  \/ Stop
  \/ \E valid \in BOOLEAN : Send(valid)
  \/ Receive
  \/ ControllerMoves

Spec == Init /\ [][Next]_vars

(***************************************************************************)
(* Properties.                                                             *)
(***************************************************************************)

\* The flags tell what can be relied on: installed is true exactly while the driver is
\* installed, whatever failed on the way, a running driver is known as started, and no alert
\* outlives its driver.
TypeOK ==
  /\ can \in [installed : BOOLEAN, started : BOOLEAN, pendingAlerts : SUBSET Alert]
  /\ twai \in [state : {"Uninstalled", "Stopped", "Running", "BusOff"}, alerts : SUBSET Alert,
               rx : Seq(FrameKind), tx : 0 .. TxQueueLength, beforeLoss : 0 .. NoLoss]
  /\ Len(twai.rx) <= RxQueueLength
  /\ can.installed <=> twai.state # "Uninstalled"
  /\ twai.state \in {"Running", "BusOff"} => can.started
  /\ can.started \/ can.pendingAlerts # {} => can.installed

\* Whatever failed before (a stop that halted the driver but could not uninstall it, a start
\* that could not be undone, a bus that went off), initialize succeeds once every driver
\* call succeeds that may: it makes none that the driver's state forbids.
HealthyDriverStarts ==
  call.op = "initialize" /\ call.undisturbed => call.status = "Ok"

\* No alert is lost between the driver and the caller, whichever call reads it and whatever
\* that call reports first: it is forgotten only when its status is returned or with its driver.
AlertsReachTheCaller ==
  [][\A alert \in (can.pendingAlerts \cup twai.alerts)
                   \ (can'.pendingAlerts \cup twai'.alerts) :
       \/ call'.op \in {"initialize", "stop"}
       \/ call'.status = CASE alert \in Overflows -> "RxOverflow"
                           [] alert = "BUS_OFF"   -> "BusOff"
                           [] alert = "TX_FAILED" -> "TxFailed"]_vars

\* A receive that reads the alerts returns RxOverflow, and no frame, when a frame was lost
\* before the call and the loss is not reported yet, whatever the queue still holds. A frame
\* from behind an unreported loss is therefore handed over by one call at most: the one during
\* which the loss fell, after its alerts were read. The next receive reports it.
LossIsReportedFirst ==
  [][call'.op = "receive" /\ call'.undisturbed /\ can.started =>
       /\ twai.beforeLoss # NoLoss => call'.status = "RxOverflow"
       /\ call'.behindLoss => twai.beforeLoss = NoLoss]_vars
================================================================================
