------------------------------ MODULE MCEmbedder ------------------------------
(* Embedder with small programs: MiniApp's command lines, two threads that   *)
(* share a module while one sets its defaults or exits, a thread that sets   *)
(* options of an instance another starts, starts that fail and are repeated, *)
(* modules that fail to load or have other memories, and repeated init calls.*)
EXTENDS Embedder, TLC

CONSTANTS c1, c2, i1, i2, m1, m2

OnePage == ExternalMemory(1, 1, 12, 8)

Base ==
    [calls |-> c1 :> <<>>, first |-> c1, alone |-> 1, miniApp |-> FALSE, faults |-> {},
     values |-> {0}, memory |-> [m \in Modules |-> OnePage]]

Load(m, file) == [call |-> "load", module |-> m, name |-> "app", file |-> file]
Default(m, opt, value) == [call |-> "default", module |-> m, opt |-> opt, value |-> value]
New(i, m) == [call |-> "create", module |-> m, inst |-> i]
Opt(i, opt, value) == [call |-> "set_opt", inst |-> i, opt |-> opt, value |-> value]
Begin(i, m) == [call |-> "start", module |-> m, inst |-> i]
On(call, i) == [call |-> call, inst |-> i]
InitCall == [call |-> "init"]
Leave == [call |-> "exit", status |-> NULL]
Entry(k, v) == [k |-> k, v |-> v]

Line == [maxMemory |-> 22, dirs |-> <<Entry("/h1", "/w"), Entry("/h2", "/w")>>,
         cmds |-> <<Entry("a/b", "c")>>, args |-> <<"app">>]
Mini(file, line) == [Base EXCEPT !.calls = c1 :> MiniApp(m1, i1, file, line), !.miniApp = TRUE]

Shared ==
    [Base EXCEPT
        !.calls = c1 :> <<InitCall, Load(m1, NULL), New(i1, m1), Opt(i1, "ARG", <<"one">>),
                          Begin(i1, m1)>>
               @@ c2 :> <<New(i2, m1), Opt(i2, "ADD_HOST_DIR", Entry("/h", "/tmp")), Begin(i2, m1)>>,
        !.alone = 4]

Copied ==
    [Base EXCEPT
        !.calls = c1 :> <<InitCall, Load(m1, NULL), Default(m1, "ADD_ENV_VAR", Entry("X", "1")),
                          Default(m1, "ADD_ENV_VAR", Entry("X", "2")), Leave>>
               @@ c2 :> <<New(i2, m1), Opt(i2, "MAX_MEMORY", 20), Begin(i2, m1)>>,
        !.alone = 3]

Racing ==
    [Base EXCEPT
        !.calls = c1 :> <<InitCall, Load(m1, "app.wasm"), New(i1, m1), Begin(i1, m1), Begin(i1, m1),
                          On("destroy", i1), On("main", i1)>>
               @@ c2 :> <<Opt(i1, "ADD_HOST_DIR", Entry("/h", "/tmp")), Opt(i1, "MAX_MEMORY", 3),
                          Opt(i1, "MAX_MEMORY", 8), Opt(i1, "ARG", NULL)>>,
        !.alone = 3]

Retried ==
    [Base EXCEPT
        !.calls = c1 :> <<InitCall, Load(m1, "app.wasm"), New(i1, m1), Begin(i1, m1),
                          Opt(i1, "ARG", <<"one">>), Opt(i1, "MAX_MEMORY", 20), Begin(i1, m1), Leave>>,
        !.faults = {"instantiate", "exec env", "memory", "initialize"}]

Failing ==
    [Base EXCEPT
        !.calls = c1 :> <<InitCall, [Load(m1, "app.wasm") EXCEPT !.name = "wamr_ext"], Load(m1, "missing"),
                          Load(m1, "empty"), Load(m1, "not wasm"), Default(m1, "MAX_MEMORY", 8),
                          New(i1, m1), Load(m1, "app.wasm"), New(i1, m1), Begin(i1, m1), On("main", i1),
                          On("destroy", i1), Leave>>,
        !.faults = {"runtime", "initialize"}]

Memory(mem) ==
    [Base EXCEPT
        !.calls = c1 :> <<InitCall, Load(m2, NULL), New(i1, m2), Begin(i1, m2), Leave>>,
        !.memory = [m \in Modules |-> mem]]

MCPrograms ==
    [mini |-> [Mini("app.wasm", Line) EXCEPT !.faults = {"trap", "initialize", "no main"}, !.values = {0, 7}],
     miniMissing |-> Mini("missing", [Line EXCEPT !.maxMemory = 0]),
     miniNoRuntime |-> [Mini("app.wasm", Line) EXCEPT !.faults = {"runtime"}],
     miniMalformed |-> Mini("app.wasm", [Line EXCEPT !.dirs = <<NULL>>]),
     shared |-> Shared, copied |-> Copied, racing |-> Racing, retried |-> Retried, failing |-> Failing,
     twice |-> [Base EXCEPT !.calls = c1 :> <<InitCall, InitCall, Leave>>],
     none |-> [Base EXCEPT !.calls = c1 :> <<Leave>>],
     noHeap |-> Memory(ExternalMemory(1, 1, 12, 12)),
     larger |-> Memory(ExternalMemory(1, 1, 40, 36)),
     growable |-> Memory(ExternalMemory(2, 16, 4, 4)),
     threePages |-> Memory(ExternalMemory(3, 3, 4, 8))]

=============================================================================
