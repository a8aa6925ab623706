--------------------------- MODULE MCGoldenBoyRun ---------------------------
(***************************************************************************)
(* GoldenBoyRun over the registry the code ships (_DEFAULT_MODELS in       *)
(* core/model_registry.py), both providers having an adapter unless a      *)
(* configuration says otherwise.  100000000 is one USD.                    *)
(***************************************************************************)
EXTENDS GoldenBoyRun

Spec0(provider, quality, features, inCost, outCost, maxOutput, name, position) ==
    [provider |-> provider, quality |-> quality, features |-> features, inCost |-> inCost,
     outCost |-> outCost, maxOutput |-> maxOutput, name |-> name, position |-> position]

MCFeatures == {"tools"}
MCModels == {"opus", "sonnet", "haiku", "gpt-4o", "mini"}

(* Every shipped model supports every feature, so "mini" is given none     *)
(* here, as a .goldenboy/models.json may, for Qualifies to have work to do. *)
MCCatalog ==
    [m \in MCModels |->
        CASE m = "opus"   -> Spec0("anthropic", 2, {"tools"}, 1500, 7500, 32000, 2, 1)
          [] m = "sonnet" -> Spec0("anthropic", 1, {"tools"}, 300, 1500, 64000, 3, 2)
          [] m = "haiku"  -> Spec0("anthropic", 0, {"tools"}, 100, 500, 64000, 1, 3)
          [] m = "gpt-4o" -> Spec0("openai", 1, {"tools"}, 250, 1000, 16384, 4, 4)
          [] OTHER        -> Spec0("openai", 0, {}, 15, 60, 16384, 5, 5)]

(* 1000 tokens in, 4000 out: opus 0.315, sonnet 0.063, gpt-4o 0.0425,       *)
(* haiku 0.021 and mini 0.00255 USD.                                       *)
Ask(needs, minQuality, budget, maxAttempts, checks, complex) ==
    [needs |-> needs, minQuality |-> minQuality, budget |-> budget, maxAttempts |-> maxAttempts,
     checks |-> checks, complex |-> complex, input |-> 1000, output |-> 4000]

MCRequests ==
    {Ask({}, 0, b, 3, TRUE, FALSE) : b \in {100000, 500000, 5000000, 100000000}}
    \cup {Ask({"tools"}, q, 50000000, 3, TRUE, TRUE) : q \in {0, 1, 2}}
    \cup {Ask({}, 1, 10000000, n, FALSE, TRUE) : n \in {0, 1, 2}}
    \cup {Ask({}, 3, 10000000, 2, TRUE, FALSE)}

Deploy(strategy, denied, approval, auditsPolicy, anthropic, openai) ==
    [strategy |-> strategy, denied |-> denied, approval |-> approval,
     auditsPolicy |-> auditsPolicy,
     bound |-> [p \in Adapters |-> IF p = "anthropic" THEN anthropic ELSE openai]]

(* Three routing strategies, policies that object to a model a retry may   *)
(* reach, adapters bound to the cheap, the dear or an unlisted model.      *)
MCFacades ==
    {Deploy("cost_first", {}, {}, FALSE, "haiku", "mini"),
     Deploy("quality_first", {}, {"sonnet"}, TRUE, "opus", "gpt-4o"),
     Deploy("adaptive", {"opus"}, {}, TRUE, "sonnet", "unlisted"),
     Deploy("adaptive", {"gpt-4o", "none"}, {}, FALSE, "opus", "mini")}

MCInputCounts == {900, 2000}
MCOutputCounts == {500}
=============================================================================
