------------------------------ MODULE MCWrites ------------------------------
(***************************************************************************)
(* The two ways the program writes files that are the user's too: the      *)
(* transaction, and a sync of plugins, which has none. One of them is at   *)
(* work, the other rests.                                                  *)
(***************************************************************************)
EXTENDS MCSecureTransaction, PluginSync

VARIABLES which

writeVars == <<which, vars, syncVars>>

WritesInit ==
  \/ /\ which = "transaction" /\ Init
     /\ present = {} /\ settings = NoSettings /\ SyncInit
  \/ /\ which = "sync" /\ SyncStart
     /\ Init /\ plan = [c \in Comps |-> Fresh]
     /\ dir = [d \in Dirs |-> "safe"]

WritesNext ==
  /\ UNCHANGED which
  /\ \/ which = "transaction" /\ Next /\ UNCHANGED syncVars
     \/ which = "sync" /\ SyncNext /\ UNCHANGED vars

WritesSpec == WritesInit /\ [][WritesNext]_writeVars
=============================================================================
