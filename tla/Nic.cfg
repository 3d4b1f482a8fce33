CONSTANTS
    NUM_TX = 3
    NUM_RX = 3
    Frames = {a, b}
    NoFrame = none
SPECIFICATION Spec
INVARIANTS FullOnlyOfUnread
PROPERTIES SentInOrder ReceivedInOrder DescriptorReturns
