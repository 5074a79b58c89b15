---------------------------- MODULE MCStoragePort ---------------------------
(* StoragePort with commands of one, two and three bytes and answers of    *)
(* none to three bytes, so that every buffer keeps bytes of longer         *)
(* predecessors and the longest answer exhausts ret.                       *)
EXTENDS StoragePort

MCRequests == {<<1>>, <<2, 0>>, <<2, 1>>, <<0, 1, 2>>}

MCAnswers ==
  [r \in MCRequests |->
     CASE r = <<1>>    -> {<<>>, <<1>>}
       [] r = <<2, 0>> -> {<<2, 0>>}
       [] r = <<2, 1>> -> {<<2, 1>>, <<1>>}
       [] OTHER        -> {<<0, 2, 1>>}]

\* Where <<1>> closes a directory it leaves what is the start of another command.
MCLeaves == [r \in MCRequests |-> IF r = <<1>> THEN {<<>>, <<2, 0>>} ELSE {<<>>}]
=============================================================================
