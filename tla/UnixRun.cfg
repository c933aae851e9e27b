SPECIFICATION Spec
CONSTANTS MaxNoise = 1 MaxText = 3 NotYet = NotYet
CONSTANT Stimulus <- TwoQuestions
INVARIANTS AnswersAreEarned HonestNeverPrePrinted
PROPERTIES RunEnds
