------------------------------- MODULE MCDeploy -------------------------------
EXTENDS Deploy, TLC

CONSTANTS p, e, v, j1, j2

MCRole == p :> "platform" @@ e :> "edge" @@ v :> "vertical"

Plain(op, droplets) ==
  [op |-> op, droplets |-> droplets, tag |-> None, code |-> MaxVersion,
   rebuild |-> FALSE, pair |-> "old"]

MCCommands ==
  {[Plain("deploy", <<p, e, v>>) EXCEPT !.tag = 2],
   [Plain("deploy", <<v>>) EXCEPT !.tag = MaxVersion, !.code = 2],
   [Plain("deploy", <<e>>) EXCEPT !.tag = 2],
   Plain("deploy", <<v>>),
   [Plain("redeploy", <<p, v>>) EXCEPT !.rebuild = TRUE],
   [Plain("redeploy", <<e>>) EXCEPT !.tag = 2],
   Plain("redeploy", <<e>>),
   [Plain("rollback", <<p, e, v>>) EXCEPT !.tag = Previous],
   [Plain("rollback", <<v>>) EXCEPT !.tag = 1],
   Plain("down", <<v, e>>), Plain("restart", <<e>>),
   Plain("apply", <<v>>), Plain("downgrade", <<v>>), Plain("reset", <<v>>),
   [Plain("ssl", <<e>>) EXCEPT !.pair = "none"],
   [Plain("ssl", <<e>>) EXCEPT !.pair = "new"],
   [Plain("ssl", <<e>>) EXCEPT !.pair = "junk"]}

JobSymmetry == Permutations(Jobs)
===============================================================================
