SPECIFICATION Spec
CONSTANTS
  c1 = c1
  c2 = c2
  jiraRepo = jiraRepo
  webRepo = webRepo
  aiRepo = aiRepo
  NoYaml = NoYaml
  NoCI = NoCI
  Unreadable = Unreadable
  Command = {c1, c2}
  Name = {"jira", "jira-dc", "lint", "web", "ai.generate", "slack", "git", "print", "ai"}
  Repo = {jiraRepo, webRepo, aiRepo}
  RepoOf <- Repositories
  Place <- Places
  PathPlugins = {"jira"}
  InitialFiles <- Files
  InitialPlugins <- Plugins
  MaxLaunches = 1
  Projects <- ProjectSet
SYMMETRY Symmetry
CHECK_DEADLOCK FALSE
INVARIANT TypeOK
INVARIANT UntouchedModulesStay
INVARIANT StartedRunsHaveTheirModules
INVARIANT AcceptedStepsGetTheirProvider
