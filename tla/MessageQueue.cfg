CONSTANTS
    Thread = {t1, t2, t3}
    Message = {m1, m2}
    MsgCount = 3
    NoMessage = NoMessage
SPECIFICATION FairSpec
INVARIANTS NoReceiverForgotten NoSenderForgotten
PROPERTIES DequeSpec MessagesAreTaken
CHECK_DEADLOCK FALSE
