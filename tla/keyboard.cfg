\* Keyboard, mouse and controller share port 60h.
SPECIFICATION Spec
CONSTANTS
  KEYBUFSIZE = 6
  KeySizes = {2}
  PacketSize = 3
  EnableAux = TRUE
  MaxAnswers = 3
  KeyboardCommands <- MCKeyboardCommands
  ControllerCommands <- MCControllerCommands
  MouseCommands <- MCMouseCommands
INVARIANT EventsMatch
PROPERTIES KeepsBytes Drains
