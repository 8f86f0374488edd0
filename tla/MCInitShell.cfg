CONSTANTS
  ping = ping
  shtd = shtd
  exec = exec
  raw = raw
  tiny = tiny
  large = large
  NoEnv = NoEnv
  Requests = {ping, shtd, exec, raw, tiny, large}
  ReqType <- MCReqType
  ReqLen <- MCReqLen
  InitEnvelopeMax = 512
  RecvFailureThreshold = 3
  HookwallSlotCount = 64
  SlotBytes = 1024
  SeqModulus = 4
SPECIFICATION FairSpec
CHECK_DEADLOCK FALSE
INVARIANTS
  TypeOK
  OnePlacePerRequest
  HaltsForCause
PROPERTIES
  EveryRequestSettled
