\* Two questions put to an entry whose two lines show both answers, on a
\* board that may hold a main.py of one byte; one thing is lost at most.
SPECIFICATION ReplSpec
CONSTANTS
    Expect = {"A", "B"}
    Stimulus <- TwoQuestions
    Shown <- SourceShows
    Content <- OneByte
    MaxNoise = 1
    MaxLost = 1
    NIL = NIL
INVARIANTS UserCodeIsKept OnlyTheEntryIsScored AnswersArriveAfterTheDrain HonestNeverConvicted
CHECK_DEADLOCK FALSE
