--------------------------- MODULE MCPageReplacement ---------------------------
(***************************************************************************)
(* PageReplacement with two frames and two or three processes, whose pages *)
(* have the same numbers.                                                  *)
(***************************************************************************)
EXTENDS PageReplacement

\* Pages first used at the given times, as getPages sets their lifetimes.
MCPages(us) ==
  [k \in DOMAIN us |->
     [first |-> us[k][1], value |-> us[k][2],
      life |-> IF k < Len(us) THEN us[k + 1][1] - us[k][1] ELSE 0]]

MCProcess(exec, us) == [exec |-> exec, pages |-> MCPages(us)]

MCWorkloads ==
  { <<MCProcess(4, <<<<0, 1>>, <<1, 2>>, <<2, 1>>, <<4, 2>>>>),  \* a page again
      MCProcess(3, <<<<1, 2>>, <<1, 1>>, <<3, 1>>>>)>>,          \* late, two at once
    <<MCProcess(3, <<<<0, 1>>, <<1, 2>>, <<2, 3>>, <<3, 1>>>>),
      MCProcess(3, <<<<0, 1>>, <<2, 2>>, <<5, 3>>>>),            \* never the last
      MCProcess(1, <<<<0, 1>>>>)>> }                             \* a single page
=============================================================================
