SPECIFICATION FairSpec
CONSTANTS
    Messages <- Few
    Names <- BothSpellings
    Values <- FewValues
    Queries <- FewQueries
INVARIANTS TypeOK NothingLost CompleteIsRight ParamsOfQuery
PROPERTIES OneCallSuffices HeaderLostOnlyBySpelling ReceptionSpec
