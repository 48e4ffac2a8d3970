---------------------------- MODULE ReadOnlyGuard ----------------------------
(***************************************************************************)
(* The policy boundary in front of the transport                           *)
(* (protocol/read_only_guard.h). A caller names what it wants to read and  *)
(* the guard builds the payload, so no caller chooses the bytes sent.      *)
(*                                                                         *)
(* Each entry point is the guard's decision: a status and, when the        *)
(* request is forwarded, the payload handed to startSend. The other calls  *)
(* (poll, receive, discardPendingMessage) pass straight through, and a     *)
(* service uses the transport's outcomes for them.                         *)
(***************************************************************************)
EXTENDS Naturals, Sequences

kModeCurrentData         == 1     \* 0x01
kModeStoredDtcRead       == 3     \* 0x03
kModeVehicleInformation  == 9     \* 0x09
kUdsReadDtcInformation   == 25    \* 0x19
kUdsReadDataByIdentifier == 34    \* 0x22
kReportDtcByStatusMask   == 2     \* 0x02

Byte == 0..255

ReadOnlyStatus == {"Forwarded", "PolicyDenied", "InvalidRequest"}

Forward(payload) == [status |-> "Forwarded", payload |-> payload]
Refuse(status)   == [status |-> status, payload |-> <<>>]

\* A null PID pointer is an empty list here.
startObdSinglePid(mode, pids) ==
  IF Len(pids) # 1 THEN Refuse("InvalidRequest")
  ELSE IF mode \notin {kModeCurrentData, kModeVehicleInformation} THEN Refuse("PolicyDenied")
  ELSE Forward(<<mode>> \o pids)

startObdStoredDtcRead == Forward(<<kModeStoredDtcRead>>)

startUdsReadDataByIdentifier(did) == Forward(<<kUdsReadDataByIdentifier>> \o did)

startUdsReportDtcByStatusMask(mask) ==
  Forward(<<kUdsReadDtcInformation, kReportDtcByStatusMask, mask>>)

\* Positive responses carry the request's service identifier plus 0x40.
PositiveService(service) == service + 64
=============================================================================
