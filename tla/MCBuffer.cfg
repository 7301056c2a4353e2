SPECIFICATION Spec
CONSTANTS
  Byte = {0, 1}
  Cap = 4
PROPERTIES ImplementsQueue
