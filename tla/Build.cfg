SPECIFICATION BuildSpec
CONSTANTS
 Answers <- MCAnswers
 Writings <- MCWritings
 MaxEdits = 2
 Marks = {"healthy", "resource", "states"}
 KeyOrder <- MCKeyOrder
 Flags <- MCFlags
INVARIANTS RemovalNeedsConsent HandWorkSurvives DiscoveredNeverDangles RebuildIsStable
