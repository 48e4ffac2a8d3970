SPECIFICATION Spec
CONSTANTS
  CfData = 2
  SeqModulus = 4
  KMaxPayload = 7
  SendResult = {"Ok", "TxBusy", "TxFailed"}
  MaxTime = 6
  SenderConfig <- MCSenderConfig
  ReceiverConfig <- MCReceiverConfig
  Lengths = {2, 7}
  MaxMessages = 3
  MaxDelay = 1
  MaxLost = 2
PROPERTIES
  DeliveredAsSent
  FlowControlIsForThisMessage
