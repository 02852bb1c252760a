------------------------------ MODULE MCStartup ------------------------------
(* A project whose modules are changed by two commands at once, or by three   *)
(* one after the other; projects with models in every state of their          *)
(* configuration; and, for PipelineCheck.cfg, pipelines of two jobs.          *)
EXTENDS Startup, TLC

CONSTANTS c1, c2, jiraRepo, webRepo, aiRepo

Symmetry == Permutations({c1, c2})

Yaml(name, type, artifact) == [name |-> name, type |-> type, artifact |-> artifact]
Repositories ==
  (jiraRepo :> [url |-> "jira-dc", title |-> "jira-dc", yaml |-> Yaml("jira", "subprocess", TRUE)])
  @@ (webRepo :> [url |-> "web", title |-> "web", yaml |-> Yaml("", "other", FALSE)])
  @@ (aiRepo :> [url |-> "web", title |-> "web", yaml |-> Yaml("ai.generate", "subprocess", FALSE)])

Alphabet == <<"ai", "ai.generate", "git", "jira", "jira-dc", "lint", "print", "slack", "web">>
Places == [n \in {Alphabet[i] : i \in 1..9} |-> CHOOSE i \in 1..9 : Alphabet[i] = n]

Entry(type, gorun, endpoints) == [type |-> type, gorun |-> gorun, endpoints |-> endpoints]
Files ==
  {Absent, Map(("lint" :> Entry("subprocess", TRUE, FALSE)) @@ ("web" :> Entry("http", FALSE, TRUE)))}

Plugins == {<< >>, "jira" :> "ready"}

Step(provider, model, prompt) == [provider |-> provider, model |-> model, prompt |-> prompt]
Model(type, url, key, model) == [type |-> type, url |-> url, key |-> key, model |-> model]
ModelKinds ==
  {Model("ollama", u, "none", TRUE) : u \in BOOLEAN}
  \cup {Model("openai", u, k, TRUE) : u \in BOOLEAN, k \in {"none", "template", "set"}}
  \cup {Model(t, FALSE, k, m) : t \in {"gemini", "openrouter"}, k \in {"none", "empty", "set"},
                                m \in BOOLEAN}
  \cup {Model("other", TRUE, "set", TRUE)}
Configurations ==
  {Unreadable, << >>}
  \cup {n :> m : n \in {"default", "a"}, m \in ModelKinds}
  \cup {("default" :> m) @@ ("a" :> Model("ollama", TRUE, "none", FALSE)) : m \in ModelKinds}
  \cup {("b" :> m) @@ ("a" :> Model("ollama", TRUE, "none", TRUE)) : m \in ModelKinds}

Job(name, manual, runs, fresh, gitlab, artifact, needs) ==
  [name |-> name, mapping |-> name # "stages", manual |-> manual, runs |-> runs, fresh |-> fresh,
   gitlab |-> gitlab, artifact |-> artifact, needs |-> needs]
Need(form, job) == [form |-> form, job |-> job]
NotJobs == {Job(n, TRUE, "run", FALSE, TRUE, FALSE, {}) : n \in {"stages", "default"}}
Build == {Job("build", FALSE, r, f, g, a, {}) :
            r \in {"run", "other"}, f \in BOOLEAN, g \in BOOLEAN, a \in BOOLEAN}
Approve == {Job("approve", m, r, f, g, TRUE, n) :
              m \in BOOLEAN, r \in {"run", "validate"}, f \in BOOLEAN, g \in BOOLEAN,
              n \in {{}, {Need("name", "build")}, {Need("mapping", "build"), Need("other", "")},
                     {Need("name", "test")}, {Need("other", "")}}}
GitHubJobs ==
  {[mapping |-> m, environment |-> e, runs |-> "run", gitlab |-> g] :
     m \in BOOLEAN, g \in BOOLEAN,
     e \in {"none", "name", "mapping with a name", "mapping without a name"}}
Pipelines ==
  {[file |-> "gitlab", keys |-> {}, entries |-> {b, a} \cup NotJobs] : b \in Build, a \in Approve}
  \cup {[file |-> "other", keys |-> {"stages"}, entries |-> {b} \cup NotJobs] : b \in Build}
  \cup {[file |-> f, keys |-> k, entries |-> {j}] :
          f \in {"github", "other"}, k \in {{"on", "jobs"}, {"on"}}, j \in GitHubJobs}

Plain == [valid |-> TRUE, steps |-> {}, pauses |-> TRUE, config |-> << >>, ci |-> NoCI, commands |-> 0,
          apart |-> FALSE]
ProjectSet ==
  {[Plain EXCEPT !.commands = 2], [Plain EXCEPT !.commands = 3, !.apart = TRUE, !.valid = FALSE]}
  \cup {[Plain EXCEPT !.config = c, !.steps = {Step(p, m, q)}] :
          c \in Configurations, p \in {"", "a"}, m \in BOOLEAN, q \in BOOLEAN}

PipelineProjects == {[Plain EXCEPT !.ci = p, !.pauses = b] : p \in Pipelines, b \in BOOLEAN}
=============================================================================
