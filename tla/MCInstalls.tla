----------------------------- MODULE MCInstalls -----------------------------
(***************************************************************************)
(* What writes into files that are also the user's: the CI hooks, the      *)
(* agents' hooks and the AI providers, one at work and the others at rest. *)
(***************************************************************************)
EXTENDS MCHookInstall, MCAgentHooks, MCAiProviders

VARIABLES which

installVars == <<which, vars, agentVars, aiVars>>

InstallInit ==
  /\ which \in {"ci", "agents", "providers"}
  /\ which # "ci" => start = CHOOSE x \in Scenes : TRUE
  /\ which # "agents" => /\ agent = "grok" /\ around = Usual
                         /\ file = <<Blank, Blank>>
  /\ which # "providers" => /\ results = {}
                            /\ overlay = [t \in Targets |-> None]
  /\ Init /\ AgentInit /\ AiInit
  /\ which # "providers" => config.opencode.parts = {}

InstallNext ==
  /\ UNCHANGED which
  /\ \/ /\ which = "ci" /\ Next
        /\ UNCHANGED <<agentVars, aiVars>>
     \/ /\ which = "agents" /\ AgentNext
        /\ UNCHANGED <<vars, aiVars>>
     \/ /\ which = "providers" /\ AiNext
        /\ UNCHANGED <<vars, agentVars>>

InstallSpec == InstallInit /\ [][InstallNext]_installVars
=============================================================================
