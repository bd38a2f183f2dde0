------------------------------ MODULE MCCiRun ------------------------------
(***************************************************************************)
(* Plans for a run of ci: two gates of every kind, and up to two runners   *)
(* in front of one gate.                                                   *)
(***************************************************************************)
EXTENDS CiRun

CONSTANTS f, g

TwoFiles == {f, g}

Gates == [blocking : BOOLEAN, changed : BOOLEAN, image : BOOLEAN,
          timed : BOOLEAN, run : 1..2]

GatePlans ==
  [mode : {"quick"}, source : {"config"}, noDocker : BOOLEAN,
   noSecurity : {TRUE}, noGhagga : {TRUE}, runners : {<<>>},
   gates : {<<a, b>> : a \in {x \in Gates : x.run = 1 \/ ~x.changed},
                       b \in {x \in Gates : x.run = 1}}]

NodeRunner(d) == [node |-> TRUE, directory |-> d, builds |-> TRUE,
                  cmds |-> <<"tool", "test">>]
OtherRunner == [node |-> FALSE, directory |-> "d", builds |-> FALSE,
                cmds |-> <<"lint", "security">>]
SomeGate == [blocking |-> TRUE, changed |-> FALSE, image |-> TRUE,
             timed |-> FALSE, run |-> 1]

RunnerPlans ==
  [mode : Modes, source : {"auto", "config"}, noDocker : BOOLEAN,
   noSecurity : BOOLEAN, noGhagga : BOOLEAN,
   runners : {<<>>, <<NodeRunner("a")>>, <<NodeRunner("a"), OtherRunner>>,
              <<NodeRunner("a"), NodeRunner("a")>>,
              <<NodeRunner("a"), NodeRunner("b")>>},
   gates : {<<>>, <<SomeGate>>}]

SomePlans == GatePlans \cup RunnerPlans
=============================================================================
