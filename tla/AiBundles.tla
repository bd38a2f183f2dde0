------------------------------ MODULE AiBundles ------------------------------
(***************************************************************************)
(* ai providers export-free and convert: one provider and one of its       *)
(* models, from the catalogues of free models or from the file of one      *)
(* runtime into that of the other, any number of times over                *)
(* (src/src/lib/ai-provider-bundles.ts).                                   *)
(***************************************************************************)
EXTENDS Integers

CONSTANTS Limits,       \* the limits a file may state, 0 for none
          Default, Cap  \* DEFAULT_CONTEXT_WINDOW, DEFAULT_MAX_TOKENS_CAP

Formats == {"pi", "opencode"}
Other(format) == IF format = "pi" THEN "opencode" ELSE "pi"

ASSUME LimitsAssumption ==
  Limits \subseteq Nat /\ Default \in Nat \ {0} /\ Cap \in Nat \ {0}

VARIABLES
  entry,   \* the provider in the file of each runtime: the user's at first
  origin,  \* history: the limits it stands for, as its first file meant them
  bundled  \* the last file the program wrote, none at first

bundleVars == <<entry, origin, bundled>>

\* apiKey as it is spelled: a literal, the reference of each format, or none.
Spellings == {"secret", "$NAME", "{env:NAME}", "ollama", ""}

-----------------------------------------------------------------------------

\* hasFreePricing: one that says so, or costs nothing both ways.
Free(raw) == raw.billing = "free" \/ (raw.prompt = 0 /\ raw.completion = 0)
Raw == [billing : {"free", "paid"}, prompt : {0, 1}, completion : {0, 1},
        context : Limits, output : Limits]

Lesser(a, b) == IF a < b THEN a ELSE b
Or(stated, fallback) == IF stated > 0 THEN stated ELSE fallback

\* Slip: the cap is given even to a model with a smaller context.
SlipPortable(model) ==
  [context |-> Or(model.context, Default), output |-> Or(model.output, Cap)]
\* toPortableModel, bundleFromOpenCodeConfig: what a file leaves open.
Portable(model) ==
  LET context == Or(model.context, Default)
  IN [context |-> context, output |-> Or(model.output, Lesser(context, Cap))]

\* piApiKey and openCodeApiKey.
PiKey(auth) == CASE auth = "env" -> "$NAME"
                 [] auth = "placeholder" -> "ollama"
                 [] OTHER -> "anonymous"
OpenCodeKey(auth) == CASE auth = "env" -> "{env:NAME}"
                       [] auth = "placeholder" -> "ollama"
                       [] OTHER -> ""

\* piProviderToAuth, openCodeApiKeyToAuth: any other literal is replaced by
\* the name of a variable.
PiAuth(e) == IF e.header THEN "env"
             ELSE IF e.key = "ollama" THEN "placeholder" ELSE "none"
OpenCodeAuth(e) == IF e.key = "" THEN "none" ELSE "env"

Auth(format, e) == IF format = "pi" THEN PiAuth(e) ELSE OpenCodeAuth(e)
\* Of a model Pi's own words are copied; OpenCode's gaps are filled.
Model(format, e) ==
  LET stated == [context |-> e.context, output |-> e.output]
  IN IF format = "pi" THEN stated ELSE Portable(stated)

Key(to, auth) ==
  IF to = "pi" THEN PiKey(auth) ELSE OpenCodeKey(auth)

\* renderPiProvidersConfig, renderOpenCodeProvidersConfig.
Rendered(to, auth, model) ==
  [key |-> Key(to, auth), header |-> auth # "none", base |-> TRUE,
   context |-> model.context, output |-> model.output]

-----------------------------------------------------------------------------
Meant(e) ==
  LET context == IF e.context = 0 THEN Default ELSE e.context
  IN [context |-> context,
      output |-> IF e.output > 0 THEN e.output
                 ELSE IF context < Cap THEN context ELSE Cap]

BundleStill ==
  /\ entry = [format \in Formats |-> Rendered(format, "none",
                 [context |-> Default, output |-> Lesser(Default, Cap)])]
  /\ origin = [format \in Formats |-> Meant(entry[format])]
  /\ bundled = "none"

BundleInit ==
  /\ entry \in [Formats -> [key : Spellings, header : BOOLEAN,
                            base : BOOLEAN, context : Limits,
                            output : Limits]]
  /\ entry["pi"].base /\ entry["opencode"].header
  /\ origin = [format \in Formats |-> Meant(entry[format])]
  /\ bundled = "none"

\* fetchModels: what a catalogue lists; only the free models are kept.
Catalogue == {raw \in Raw : Free(raw)}
FreeModels == {Portable(raw) : raw \in Catalogue}
\* generateFreeProviderBundle: Kilo, BlockRun and Vireonix want no key,
\* OpenRouter the one of a variable, Ollama a word in its place.
FreeProviders == {"none", "env", "placeholder"}

\* All three catalogues must answer, or nothing is written.
ExportFree(to) ==
  \E model \in FreeModels, auth \in FreeProviders :
    /\ entry' = [entry EXCEPT ![to] = Rendered(to, auth, model)]
    /\ origin' = [origin EXCEPT ![to] = model]
    /\ bundled' = to

\* convert reads the file of one format and writes the other; OpenCode's own
\* providers, without a base URL, cannot be converted.
Convert(from) ==
  LET to == Other(from)
      e == entry[from]
  IN /\ e.base
     /\ entry' = [entry EXCEPT ![to] =
                    Rendered(to, Auth(from, e), Model(from, e))]
     /\ origin' = [origin EXCEPT ![to] = origin[from]]
     /\ bundled' = to

BundleNext == \E format \in Formats : ExportFree(format) \/ Convert(format)
BundleSpec == BundleInit /\ [][BundleNext]_bundleVars

-----------------------------------------------------------------------------

\* No chain of exports and conversions writes a literal key into a file that
\* is meant to be shared
\* (ai-provider-bundles.ts:559 "No literal secrets are written.").
NoLiteralKey == bundled # "none" => entry[bundled].key # "secret"

\* However often a model is carried over, its limits mean what they meant in
\* the file it came from: gaps are filled once and in the same way
\* (ai-provider-bundles.ts:263-281, 754-761).
LimitsSurvive == \A format \in Formats : Meant(entry[format]) = origin[format]

\* A conversion carries over what a model is, and the keys of nobody.
ConversionIsFaithful == NoLiteralKey /\ LimitsSurvive
=============================================================================
