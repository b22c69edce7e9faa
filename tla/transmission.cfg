SPECIFICATION Spec
CONSTANTS
    MAX_ENCODED_LEN = 10
    Messages <- SomeMessages
    Lines <- SomeLines
CHECK_DEADLOCK FALSE
INVARIANT RoundTrip
INVARIANT DecodedIsPlain
INVARIANT AnswerFits
