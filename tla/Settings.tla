------------------------------ MODULE Settings ------------------------------
(***************************************************************************)
(* The configuration of the planner: LoadConfig (config.go), from the      *)
(* variables of the environment to what the planner asks of them.  A       *)
(* variable that is not set is "".  A model is abstracted to the prefix    *)
(* of its name that the code looks at, a URL to its host and port.         *)
(***************************************************************************)

ModelNames == {"kimi", "qwen3", "gemma4"}
Urls == {"remote", "remote:11434", "local", "local:11434"}
RawModes == {"", "auto", "heuristic", "langgraph", "llm", "openai", "unknown"}

Environment ==
    [provider : {"", "kimi", "ollama", "unknown"},
     url : Urls \cup {""},
     key : {"", "placeholder", "real"},
     authFile : {"", "real"},       \* the key of the file, if there is one
     model : ModelNames \cup {""},
     primary : ModelNames \cup {""},
     fallback : ModelNames \cup {""},
     mode : RawModes,
     noFastPath : BOOLEAN]          \* ROUTER_DISABLE_FAST_PATH

Default(value, otherwise) == IF value = "" THEN otherwise ELSE value

ResolveProvider(e) ==
    CASE e.provider # "" -> e.provider
      [] e.provider = "" /\ (e.model \in {"qwen3", "gemma4"} \/ e.url \in {"remote:11434", "local:11434"}) ->
            "ollama"
      [] OTHER -> "kimi"

NormalizeMode(mode) ==
    CASE mode = "" -> "auto" [] mode = "openai" -> "llm" [] OTHER -> mode

\* applyLLMDefaults
WithLLMDefaults(c) ==
    IF c.provider = "ollama"
    THEN [c EXCEPT !.url = Default(@, "local:11434"), !.model = Default(@, "qwen3")]
    ELSE [c EXCEPT !.url = Default(@, "remote"), !.model = Default(@, "kimi")]

\* applyRouterDefaults: without a fallback of its own, Kimi falls back to the same model.
WithRouterDefaults(c) ==
    LET primary == Default(c.primary, c.model)
    IN  [c EXCEPT !.primary = primary,
                  !.fallback = Default(@, IF c.provider = "ollama" THEN "gemma4" ELSE primary)]

\* The key of the file comes before the one of the environment.
WithKey(c) ==
    LET key == Default(c.authFile, c.key)
    IN  [c EXCEPT !.key = IF c.provider = "ollama" THEN Default(key, "real") ELSE key]

LoadConfig(e) ==
    WithKey(WithRouterDefaults(WithLLMDefaults(
        [e EXCEPT !.provider = ResolveProvider(e), !.mode = NormalizeMode(@)])))

\* ValidateLLMConfig: the server does not start on any other configuration.
Accepted(c) ==
    \/ c.provider = "kimi" /\ c.model = "kimi"
    \/ /\ c.provider = "ollama"
       /\ "" \notin {c.model, c.primary, c.fallback}
       /\ c.url \in {"local", "local:11434"}

HasUsableLLMConfig(c) ==
    /\ "" \notin {c.url, c.model}
    /\ \/ c.provider = "kimi" /\ c.key = "real"
       \/ c.provider = "ollama"

\* What the planner makes of a configuration.
View(c) ==
    [local |-> c.provider = "ollama",
     mode |-> c.mode,
     usable |-> HasUsableLLMConfig(c),
     same |-> c.primary = c.fallback,
     fast |-> ~ c.noFastPath]

ViewSet ==
    [local : BOOLEAN, mode : {NormalizeMode(mode) : mode \in RawModes},
     usable : BOOLEAN, same : BOOLEAN, fast : BOOLEAN]

=============================================================================
