------------------------------- MODULE MCShell -------------------------------
(***************************************************************************)
(* Shell with commands of one letter, lines of up to four characters and a *)
(* display of three rows of ten: as on the real one a prompt and a line    *)
(* fit in a row, and a line with the message after it does not.            *)
(***************************************************************************)
EXTENDS Shell

MCFresh == <<"f">>
MCName  == <<"n">>
MCHelp  == <<"h">>
MCFreshUsage == <<3, NL, 7>>
MCNameUsage  == <<4>>
MCNickname   == <<<<"f">>, 2>>
\* A command that prints two rows, or its usage.
MCCommands == MCHelp :> {<<NL, 5, NL, 3>>, <<3>>}
=============================================================================
