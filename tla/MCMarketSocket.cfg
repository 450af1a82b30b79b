CONSTANTS
    Symbols = {"NSEI", "TCS"}
    Legs = {"CE"}
    Contracts = {"NIFTY1", "TCS1"}
    Ladder = {"NIFTY1"}
    PageSymbols = {{"NSEI"}, {"TCS"}}
    MaxBackoff = 1
    MaxGhosts = 1
SPECIFICATION Spec
INVARIANTS TypeOK NeverWedged NoLeakedStreams
PROPERTY ShellReconnects
