SPECIFICATION WorkspaceSpec
CHECK_DEADLOCK FALSE
CONSTANTS
  Actors = {main, sub}
  Files = {"main", "extra"}
  Words = {"old", "new"}
  Texts <- MCTexts
  Word = "old"
  Other = "new"
  Commits <- MCCommits
  Windows = FALSE
  LauncherRetries = 1
  MaxCommands = 1
  MaxWrites = 2
PROPERTIES UntrackedStay
