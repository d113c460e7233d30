-------------------------- MODULE MCOverrideStore ---------------------------
(* OverrideStore on small instances.  One minutes figure, no expiry dates. *)
EXTENDS OverrideStore, TLC

CONSTANTS SetModes,   \* the modes the agent uses
          MaxDay      \* bound on the calendar

MCDay == 0..MaxDay

Setting(modes) ==
  [kind : {"set"}, mode : modes, player : Player, mins : {Unset}, until : {0}, say : {"unsaid"}]

MCAgentCalls ==
  Setting(SetModes \ {"minutes"})
  \cup [kind : {"set"}, mode : SetModes \cap {"minutes"}, player : Player,
        mins : Minutes, until : {0}, say : Said]

(* The page's four buttons, and saves of a session that carries something. *)
MCServeCalls ==
  Setting({"lock", "exclude"})
  \cup [kind : {"remove"}, list : {"lock", "exclude"}, player : Player]
  \cup {c \in CorrectionsCall :
          /\ c.lock \cup c.exclude \cup c.dismissed # {}
          /\ c.lock \cap c.exclude = {} /\ c.dismissed \cap (c.lock \cup c.exclude) = {}}

Symmetry == Permutations(Player) \cup Permutations(Thread)

(* No save fails and no process is killed inside one.                      *)
OrderlyNext ==
  \/ Start \/ NextDay
  \/ mu = Free /\ Stop
  \/ \E t \in Thread :
       \/ \E c \in AgentCalls \cup ServeCalls : Begin(t, c)
       \/ WriteConfig(t) \/ WriteTeam(t)

OrderlySpec == Init /\ [][OrderlyNext]_vars
=============================================================================
