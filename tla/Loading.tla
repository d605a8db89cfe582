------------------------------- MODULE Loading -------------------------------
(***************************************************************************)
(* From a template's file to the workers of its stages: core/template, the *)
(* loader and its middleware (core/plugins/load, InitLoader), the include  *)
(* plugin, which loads another template while its own is being loaded, and *)
(* the plugin processes that are started on the way (pluginctl.go).        *)
(*                                                                         *)
(* Every NewTemplate wraps the one "include" loader of the program again,  *)
(* and no wrapper is ever taken off.  A variable's value is the place it   *)
(* was set at: a sequence of stage names, <<>> for the command line.       *)
(***************************************************************************)
EXTENDS Naturals, Sequences, SequencesExt

CONSTANTS
    Templates, \* the sets of template files there may be: file |-> its stages
    Roots,     \* the files the command line may name
    Malformed, \* files that are no template
    Cli,       \* the variables the command line sets
    Outside    \* what may fail: "var", "connect", "config", "mkdir"

\* A file maps the names of its stages to them; who sets no variables has none.
\* A pipe has steps of other kinds: one that loads a template or a pipe of its
\* own is left out.
ASSUME StageNames ==
    \A files \in Templates : \A f \in DOMAIN files : \A s \in files[f] :
        /\ \A r \in files[f] : r.name = s.name => r = s
        /\ s.section = "none" => s.own = {}
        /\ \A i \in DOMAIN s.steps : s.steps[i] \notin {"include", "pipe"}

VARIABLES
    Stages,  \* Stages[f]: the stages of template file f
    result,  \* "start" | "loading" | "ok" | "error" | "fatal" | "exit"
    wraps,   \* the wrappers of the include loader, the newest first
    stack,   \* the templates being loaded, the innermost first
    built,   \* the templates loaded: place, and the worker of every stage
    running  \* the plugin processes that run

vars == <<Stages, result, wraps, stack, built, running>>

Top == Head(stack)

Init ==
    /\ Stages \in Templates
    /\ result = "start" /\ wraps = <<>> /\ stack = <<>> /\ built = {} /\ running = {}

-----------------------------------------------------------------------------
(***************************************************************************)
(* The registry: the form of configuration a loader wants, and the         *)
(* interfaces its plugin implements.  Any other name is a gRPC plugin.     *)
(* A second name of a plugin stands for the first.                         *)
(***************************************************************************)
InitLoader ==
    [n \in {"forward", "fileinput", "pipe", "output", "base64", "split", "insert", "regex",
           "template", "include"} |->
       [form  |-> IF n \in {"split", "insert", "regex", "template", "include"} THEN "map" ELSE "any",
        kinds |-> CASE n \in {"forward", "include"} -> {"IOWorker"}
                    [] n = "fileinput"              -> {"Worker", "Producer"}
                    [] n = "pipe"                   -> {"Runner"}
                    [] n = "output"                 -> {"Consumer"}
                    [] OTHER                        -> {"Worker"}]]

GRPC == [form |-> "any", kinds |-> {"Runner"}]
Remote(plugin) == plugin \notin DOMAIN InitLoader
Loader(plugin) == IF Remote(plugin) THEN GRPC ELSE InitLoader[plugin]

\* The first interface of the list that the plugin implements decides.
convertPluginToIOWorker(kinds) ==
    Head(SelectSeq(<<"IOWorker", "Worker", "Producer", "Consumer", "Runner">>,
                   LAMBDA k : k \in kinds))

-----------------------------------------------------------------------------
Fail ==
    /\ result' = "error"
    /\ UNCHANGED <<wraps, stack, built>>

\* NewFile and NewTemplate: read, wrap the include loader, interpolate, parse.
NewFile(f, at, variables, path, rest) ==
    IF f \notin DOMAIN Stages \cup Malformed THEN Fail
    ELSE /\ wraps' = <<[vars |-> variables, path |-> path]>> \o wraps
         /\ UNCHANGED built
         /\ IF f \in Malformed THEN result' = "error" /\ UNCHANGED stack
            ELSE /\ result' = "loading"
                 /\ stack' = <<[file |-> f, at |-> at, vars |-> variables, path |-> path,
                                todo |-> Stages[f], workers |-> {}]>> \o rest

RunTemplate ==
    /\ result = "start"
    /\ \/ "var" \in Outside /\ Fail \* not of the form key=value
       \/ \E f \in Roots : NewFile(f, <<>>, [v \in Cli |-> <<>>], "cli", <<>>)
    /\ UNCHANGED <<Stages, running>>

Worker(s, path) == [name |-> s.name, kind |-> convertPluginToIOWorker(Loader(s.plugin).kinds),
                    path |-> path]
WithWorker(frame, s, path) ==
    [frame EXCEPT !.todo = @ \ {s}, !.workers = @ \cup {Worker(s, path)}]

LoadStage(s, path) ==
    /\ stack' = <<WithWorker(Top, s, path)>> \o Tail(stack)
    /\ UNCHANGED <<result, wraps, built>>

SkipStage(s) == \* mutant: a stage that does not load is left out
    /\ stack' = <<[Top EXCEPT !.todo = @ \ {s}]>> \o Tail(stack)
    /\ UNCHANGED <<result, wraps, built>>

FailStage(s) == Fail

\* A directory that cannot be made leaves the plugin with the default path.
PathOf(s) == IF s.path = "" THEN Top.path ELSE s.path
Paths(s)  == {PathOf(s)} \cup (IF "mkdir" \in Outside THEN {"default"} ELSE {})

\* Those whose Config or constructor may reject a configuration of the right form.
Configurable == {"fileinput", "regex", "template"}

LoadStatic(s) ==
    /\ s.plugin \in DOMAIN InitLoader \ {"include", "pipe"}
    /\ \/ Loader(s.plugin).form = "map" /\ s.config # "map" /\ FailStage(s)
       \/ "config" \in Outside /\ s.plugin \in Configurable /\ s.config # "none" /\ FailStage(s)
       \/ /\ Loader(s.plugin).form = "map" => s.config = "map"
          /\ LoadStage(s, PathOf(s))
    /\ UNCHANGED running

\* pipe.Config loads the steps of the pipe in their order.  It exits the program
\* when one of them does not load; it fails when its configuration is no list, or
\* at a step that names two plugins.  The steps before run on.
Steps(at, s, n) == {Append(Append(at, s.name), i) : i \in {i \in 1..n : Remote(s.steps[i])}}
LoadPipe(s) ==
    /\ s.plugin = "pipe"
    /\ \/ /\ "config" \in Outside
          /\ \E n \in 1..Len(s.steps) : running' = running \cup Steps(Top.at, s, n)
          /\ result' = "fatal"
          /\ UNCHANGED <<wraps, stack, built>>
       \/ /\ "config" \in Outside /\ s.config # "none"
          /\ \E n \in 0..Len(s.steps) : running' = running \cup Steps(Top.at, s, n)
          /\ FailStage(s)
       \/ /\ running' = running \cup Steps(Top.at, s, Len(s.steps))
          /\ LoadStage(s, PathOf(s))

\* Connect and Config of the plugin: a process that was started runs on, also
\* when it cannot be used.
Connect(s) ==
    /\ Remote(s.plugin)
    /\ \/ /\ "connect" \in Outside /\ FailStage(s)
          /\ UNCHANGED running
       \/ /\ running' = running \cup {Append(Top.at, s.name)}
          /\ \/ Outside \cap {"connect", "config"} # {} /\ FailStage(s)
             \/ \E p \in Paths(s) : LoadStage(s, p)

Over(f, g) == \* f @@ g of TLC, which the provers cannot expand
    [v \in DOMAIN f \cup DOMAIN g |-> IF v \in DOMAIN f THEN f[v] ELSE g[v]]

\* wrapTemplatePlugin: an include's own variables over the template's.
MergeUnder(config, w) ==
    [section |-> "map", path |-> w.path,
     vars |-> IF config.section = "none" THEN w.vars ELSE Over(w.vars, config.vars)]
wrapTemplatePlugin(config, w) ==
    [section |-> "map", path |-> w.path,
     vars |-> IF config.section = "none" THEN w.vars ELSE Over(config.vars, w.vars)]

IncludedAt(s) == Append(Top.at, s.name)
OwnVars(s) == [v \in s.own |-> IncludedAt(s)]
Wrapped(s) ==
    LET config[i \in 0..Len(wraps)] ==
          IF i = 0 THEN [section |-> s.section, path |-> "", vars |-> OwnVars(s)]
          ELSE wrapTemplatePlugin(config[i - 1], wraps[i])
    IN  config[Len(wraps)]

Include(s) ==
    /\ s.plugin = "include"
    /\ IF s.config # "map" \/ s.section = "invalid" \/ s.file = ""
         THEN FailStage(s)
         ELSE LET config == Wrapped(s) IN
              NewFile(s.file, IncludedAt(s), Over([is_included |-> IncludedAt(s)], config.vars),
                      config.path, <<WithWorker(Top, s, PathOf(s))>> \o Tail(stack))
    /\ UNCHANGED running

\* WorkerVertexIterator goes over a map: in any order.
LoadPlugin ==
    /\ result = "loading" /\ UNCHANGED Stages
    /\ \E s \in Top.todo : LoadStatic(s) \/ LoadPipe(s) \/ Connect(s) \/ Include(s)

\* All stages have a worker: the template's graph is made.
EndTemplate ==
    /\ result = "loading" /\ Top.todo = {}
    /\ built' = built \cup {[at |-> Top.at, file |-> Top.file, vars |-> Top.vars,
                             path |-> Top.path, workers |-> Top.workers]}
    /\ stack' = Tail(stack)
    /\ result' = IF Tail(stack) = <<>> THEN "ok" ELSE "loading"
    /\ UNCHANGED <<Stages, wraps, running>>

\* main's deferred CleanupClients; "ok" stands for the whole run of the graph.
CleanupClients ==
    /\ result \in {"ok", "error"}
    /\ result' = "exit" /\ running' = {}
    /\ UNCHANGED <<Stages, wraps, stack, built>>

Next == RunTemplate \/ LoadPlugin \/ EndTemplate \/ CleanupClients
Spec == Init /\ [][Next]_vars

-----------------------------------------------------------------------------
Included == {t \in built \cup ToSet(stack) : t.at # <<>>}
Includer(t) == {u \in built \cup ToSet(stack) : u.at = Front(t.at)}
StageAt(t) == CHOOSE s \in Stages[(CHOOSE u \in Includer(t) : TRUE).file] : s.name = Last(t.at)

\* An included template knows that it is one, has the variables its stage sets,
\* with the stage's values, every other variable of the template it is included
\* in, and the plugin path of the command line, however many wrappers there are.
VariablesReach ==
    \A t \in Included :
        /\ t.path = "cli" /\ "is_included" \in DOMAIN t.vars
        /\ \A v \in StageAt(t).own : t.vars[v] = t.at
        /\ \A u \in Includer(t) : DOMAIN u.vars \subseteq DOMAIN t.vars

\* A graph is made only of a template all of whose stages were loaded, and the
\* templates its include stages name as well; nothing is run otherwise.
WhollyLoaded ==
    /\ \A t \in built :
         /\ {w.name : w \in t.workers} = {s.name : s \in Stages[t.file]}
         /\ \A s \in Stages[t.file] :
              s.plugin = "include" => \E u \in built : u.at = Append(t.at, s.name) /\ u.file = s.file
    /\ result = "ok" => \E t \in built : t.at = <<>> /\ t.file \in Roots

\* The plugin processes that run are those of the stages, and of the steps of
\* pipes, that were loaded, each with its own: none is left over from a stage
\* that failed, and none is missing (Connect, pipe.Config, LoadPlugin's error).
Processes(at, s) ==
    CASE Remote(s.plugin)  -> {Append(at, s.name)}
      [] s.plugin = "pipe" -> Steps(at, s, Len(s.steps))
      [] OTHER             -> {}
LoadedStages(t) == {s \in Stages[t.file] : \E w \in t.workers : w.name = s.name}

ProcessesOwned ==
    result \in {"loading", "ok"} =>
        running = UNION {UNION {Processes(t.at, s) : s \in LoadedStages(t)} :
                         t \in built \cup ToSet(stack)}

\* A template sees what the templates around it set, "to pass template config
\* to plugins" (template.go), and nothing another template set.
OnlyFromAround ==
    \A t \in Included : \A v \in DOMAIN t.vars : IsPrefix(t.vars[v], t.at)
=============================================================================
