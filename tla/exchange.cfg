SPECIFICATION ExchangeSpec
CONSTANTS
  KeySizes = {1, 250, 255, 65527, 65535, 65536, 16777216}
  EntrySizes <- FileSizes
  MaxString = 10
  ExtrasSizes = {0, 4, 127, 128}
  ReplyKeySizes = {0, 127, 128, 255, 256, 384, 32768, 65535}
  ValueSizes = {0, 255, 65536, 2000000000}
  MaxSample = 1000
INVARIANTS
  ExchangeTypeOK
  RequestInStep
  ResponseInStep
