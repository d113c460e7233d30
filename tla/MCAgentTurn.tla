---------------------------- MODULE MCAgentTurn -----------------------------
(* AgentTurn with replies of up to three calls about two players and two   *)
(* clubs.                                                                  *)
EXTENDS AgentTurn

Status(mode, p, m, until, say) ==
  [kind |-> "set", mode |-> mode, player |-> p, mins |-> m, until |-> until, say |-> say]

Window(c, k, end, remove) ==
  [kind |-> "window", club |-> c, comp |-> k, end |-> end, remove |-> remove]

Estimate == Status("minutes", "p", 60, 0, "unsaid")
Nailed   == Status("minutes", "p", 90, 2, "yes")
Clear    == Status("clear", "p", Unset, 0, "unsaid")
Recheck  == Status("confirm", "p", Unset, 2, "unsaid")
Other    == Status("minutes", "q", 60, 1, "no")

Knocked  == Window("c", "europa", "spring", FALSE)
Noted    == Window("c", "europa", NoEnd, FALSE)
Never    == Window("d", "europa", NoEnd, TRUE)

MCToolCall == {Estimate, Nailed, Clear, Recheck, Other, Knocked, Noted, Never}

(* Alone, in pairs about one player, two players or two clubs, and all     *)
(* kinds together.                                                         *)
MCReply == {{c} : c \in MCToolCall \ {Other}}
           \cup {{Estimate, Nailed}, {Nailed, Clear}, {Recheck, Other}, {Knocked, Never},
                 {Nailed, Other, Knocked}}

MCFirstWindows == [b \in Club |-> [k \in Competition |->
                     IF k = "cup" /\ b = "d" THEN NoWindow ELSE "open"]]
=============================================================================
