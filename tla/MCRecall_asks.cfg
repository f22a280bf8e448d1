\* Three facts at a time, two fetched and one used: questions while facts come and go.
SPECIFICATION RecallSpec
CONSTANTS
    Ids = {1, 2, 3}
    Facts <- MCFacts
    Prompts <- MCPrompts
    MaxFacts = 1
    FetchCap = 2
    Highlights = 1
    MaxTopics = 2
    mail = mail
    note = note
INVARIANTS
    IndexIsRebuild
    PhrasesAreFound
    BestFactsAreUsed
    TotalCoversEntries
