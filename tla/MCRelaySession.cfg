CONSTANTS
    Conversations = {control, video, audio}
    Control = control
    Video = video
SPECIFICATION FairSpec
INVARIANTS ClosedHoldsNothing
PROPERTIES ImplementsLink CloseReturns EveryConversationServed
CHECK_DEADLOCK FALSE
