SPECIFICATION WorkspaceSpec
CONSTANTS
 DirOrder <- MCDirOrder
 Types = {"deploy", "svc"}
 Releases = {"k1", "k2"}
 Release <- MCRelease
 MaxJobs = 2
 ModelOrder <- MCModelOrder
 Folder <- MCFolder
 Contents <- MCContents
 IsValid <- MCIsValid
 GraphOf <- MCGraphOf
 MaxEdits = 1
 MaxChanges = 2
INVARIANTS InstalledIsWhole AcceptedIsNotStale WrittenIsFresh IndexIsTrue
