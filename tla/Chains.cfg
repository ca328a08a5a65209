SPECIFICATION Spec
CONSTANTS
    Others <- Kinds
    Requests <- MCRequests
    Lists <- MCLists
    Answers <- MCAnswers
    Tokens <- MCTokens
    MaxReloads = 2
INVARIANTS ChainsAreWhole MarkerTellsSource AfterSeesForwarded PartsReachUpstream StreamedAsBuffered
