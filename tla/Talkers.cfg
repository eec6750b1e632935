SPECIFICATION TalkersSpec
CONSTANTS
    Sockets = {s1, s2}
    Timeout = 2
    Interval = 1
    Late = 0
PROPERTY TalkersSpared
