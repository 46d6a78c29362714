------------------------------ MODULE MCServing ------------------------------
(* Small instances of Serving. *)
EXTENDS Serving

Plain == [family |-> "text", prompted |-> FALSE, version |-> None, caller |-> "a", provider |-> None,
          model |-> None, mode |-> None, approved |-> {}, lane |-> None,
          async |-> FALSE, spill |-> FALSE, high |-> FALSE, low |-> FALSE]

Steps == [call |-> 2, expire |-> 0, persist |-> 0, crash |-> 0, cancel |-> 0, failures |-> 0,
          prompt |-> 0, governance |-> 0, provider |-> 0, prices |-> 0]

Scenario(a, b, ka, kb, p, en, steps) ==
  [calls |-> [c \in Calls |-> IF c = "c1" THEN a ELSE b], keys |-> [c \in Calls |-> IF c = "c1" THEN ka ELSE kb],
   prompt |-> p, enabled |-> en, left |-> steps]

Both == <<"local", "openai">>
Job == [Plain EXCEPT !.async = TRUE]
Prompted == [Plain EXCEPT !.prompted = TRUE]
PromptedJob == [Job EXCEPT !.prompted = TRUE]
Private == [Registration("text", "internal", "local_preferred") EXCEPT !.default = "openai"]
Image == [Plain EXCEPT !.family = "image", !.mode = "local_only"]

(* Calls that share a key, with failing writes, expiry and restarts. *)
SharedKey ==
  { Scenario(Plain, Plain, "k", "k", Absent, Both,
             [Steps EXCEPT !.call = 4, !.expire = 1, !.persist = 1, !.crash = 1]),
    Scenario(Plain, Job, "k", "k", Absent, Both, [Steps EXCEPT !.cancel = 1, !.failures = 2]),
    Scenario(Image, Image, "k", "k", Absent, Both, [Steps EXCEPT !.crash = 1]),
    Scenario(Image, [Image EXCEPT !.async = TRUE], "k", "none", Absent, Both, [Steps EXCEPT !.call = 3]) }

(* Queued and direct executions of a prompt that is edited. *)
EditedPrompt ==
  { Scenario(r, [Prompted EXCEPT !.mode = "local_only"], "none", "none", Private, Both,
             [Steps EXCEPT !.prompt = 1, !.cancel = 1])
    : r \in {PromptedJob, [PromptedJob EXCEPT !.mode = "cloud_fallback", !.spill = TRUE],
             [PromptedJob EXCEPT !.mode = "local_only", !.spill = TRUE],
             [PromptedJob EXCEPT !.high = TRUE, !.approved = {"openai"}]} }
  \cup { Scenario(PromptedJob, Prompted, "none", "none", Absent, Both, [Steps EXCEPT !.prompt = 2]),
          Scenario([PromptedJob EXCEPT !.mode = "local_only"], [PromptedJob EXCEPT !.provider = "local", !.mode = "cloud_only"],
                   "none", "none", Registration("text", "sensitive", None), Both, [Steps EXCEPT !.provider = 1]) }

(* Providers that are refreshed, selected and benchmarked under a task. *)
ChangingProviders ==
  { Scenario(Job, Plain, "none", "none", Absent, Both, [Steps EXCEPT !.call = 1, !.provider = 2]),
    Scenario([Plain EXCEPT !.provider = "openai", !.model = "m1"], Plain, "none", "none", Absent, <<"openai">>,
             [Steps EXCEPT !.call = 1, !.provider = 1, !.failures = 2]),
    Scenario(Plain, Job, "none", "k", Absent, Both, [Steps EXCEPT !.governance = 1, !.crash = 1]) }

(* Prices that are scraped and saved. *)
ChangingPrices ==
  { Scenario(Plain, Plain, "none", "none", Absent, <<"openai">>,
             [Steps EXCEPT !.call = 0, !.prices = 4, !.crash = 1]),
    Scenario(Plain, Plain, "none", "none", Absent, <<"openai">>,
             [Steps EXCEPT !.call = 1, !.prices = 1, !.provider = 1]) }

MCScenarios == SharedKey \cup EditedPrompt \cup ChangingProviders \cup ChangingPrices

(* A request that must stay local, and a local provider that fails. *)
MCLocalOnly == {Scenario([Plain EXCEPT !.mode = "local_only"], Plain, "none", "none", Absent, Both,
                         [Steps EXCEPT !.failures = 2])}

MCEdits == {<<[field |-> "privacy", value |-> "restricted"], [field |-> "preferred", value |-> {"openai"}],
              [field |-> "mode", value |-> "cloud_only"]>>,
            <<[field |-> "privacy", value |-> "restricted"], [field |-> "mode", value |-> "local_only"]>>}
MCSelections == {{}, {"local"}, {"openai"}}
MCGovernances == {[stale |-> TRUE, approved |-> {}], [stale |-> FALSE, approved |-> {"local"}]}
=============================================================================
