SPECIFICATION FirmwareSpec
CONSTANTS
  MmuMaps = 5
  CanReset = TRUE
  CanFail = TRUE
  Cap = 3
  Chunk = 2
  Mod = 24
  Start = 20
  MaxChars = 8
  MaxLetters = 6
  Message <- Boot
  Word <- Shutdown
  Handle = {h1, h2}
  NoHandle = none
  QueueLen = 1
  KeyMax = 2
  Usage = {"a", "b", "x"}
  Code <- Codes
  Modifiers <- Shifts
  Bytes = {1, 80, 175, 176}
  MaxUsb = 5
  Bits = 4
  Span = 8
  RamSize = 8
  Settings <- Files
  Addrs = {0, 1, 6}
  Values <- Shades
  Image <- Picture
  MaxOps = 2
  Choice <- VbeValues
  Banks = 2
  MaxWrites = 4
  Colours = 2
  First = {1}
  Attrs = {3, 48, 51}
  Data = {255}
  MaxPorts = 7
INVARIANTS TasksSound RingSound ModeShown PortsExact BoardSound KeysExact DevicesSound
PROPERTIES GuestShown AllStart LastWords AllOpened VideoExact
CHECK_DEADLOCK FALSE
