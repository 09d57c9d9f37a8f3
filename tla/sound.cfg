\* A program, the mixer, the events and the channel.
SPECIFICATION Spec
CONSTANTS
  Counts = 4
  Sb16 = {TRUE, FALSE}
  Sizes = {2, 4}
  ChannelCounts = {1, 3}
  Rates = {1, 4}
  Careful = TRUE
INVARIANTS Driven InStep
PROPERTY Transfers
