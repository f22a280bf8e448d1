\* Two calls at a time on two texts, an image and a question; a store call fails.
SPECIFICATION FairSpec
CONSTANTS
    p1 = p1  p2 = p2
    ann = ann  bob = bob  w = w  Fragment = Fragment  None = None
    note = note  memo = memo  scan = scan  ask = ask
    Names = {ann, bob}
    Numbers = {bob}
    Words = {w}
    Items = {note, memo, scan}
    Images = {scan}
    Questions = {ask}
    TextOf <- MCTextOf
    LabelSets <- MCLabelSets
    Providers = {"cli", "openai", "anthropic"}
    Callers = {p1, p2}
    MaxAttempts = 2
    MaxHints = 2
    MaxFacts = 2
    MaxTopics = 2
    MaxVocabulary = 1
    MaxEntries = 2
    MaxCalls = 2
    MaxFaults = 2
INVARIANTS
    OnlyMaskedLeaves
    NamesAreItsOwn
    AnswersAreFiled
    SentIsLogged

    
\* Nothing happens once every item and question was given.
CHECK_DEADLOCK FALSE
