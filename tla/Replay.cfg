SPECIFICATION Spec
CONSTANTS
    c1 = c1
    c2 = c2
    chat = chat
    news = news
    Clients = {c1, c2}
    Queues = {chat, news}
    Recorded <- Flow
    Modes <- Tried
    MaxSwitches = 2
    MaxConnects = 2
    Repeaters = {c2}
INVARIANTS TypeOK AnswersAsRecorded MessagesFollowSubscription MessagesInOrder AllCallbacksReplayed NoCallLost
CHECK_DEADLOCK FALSE
