SPECIFICATION FairSpec
CONSTANTS
    Messages <- Few
    Names <- BothSpellings
    Values <- FewValues
    Queries <- FewQueries
PROPERTY ParseReturns
