-------------------------- MODULE MCOutputMessage --------------------------
(* OutputMessage and LoginReply with the sizes of the code.  Accounts have up   *)
(* to four characters, as many as wrap the number in CountWidth (256 in the     *)
(* code); two of the longest fill the message, one has a name that is too long, *)
(* and a session key of one byte more or less decides whether two of them fit.  *)
EXTENDS LoginReply

MCScalars == {1, 2, 4, 8}
MCStrings == {0, 21, 4096, 8192, 8193}

Character(name, instanceName, instanceId) ==
  [name |-> name, instanceName |-> instanceName, instanceId |-> instanceId]

MCCharacters == {Character(21, 0, 0), Character(8192, 4048, 1), Character(8193, 21, 1)}
MCSessionKeys == {31, 32, 33}
=============================================================================
