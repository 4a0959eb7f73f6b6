---------------------------- MODULE MCChannels ----------------------------
(* A small instance of Channels for TLC: one user of each of three channels. *)
EXTENDS Channels

SkillCommand(name) == Text("/", "skill", name)
Plain == [channel |-> "telegram", user |-> "t", kind |-> "message", signed |-> TRUE,
          guild |-> None, text |-> Text("plain", "none", None), subject |-> None,
          files |-> << >>]
Slash == [Plain EXCEPT !.channel = "discord", !.user = "d", !.guild = "guild",
                       !.kind = "slash"]

MCMessages ==
  {[Plain EXCEPT !.files = <<"good", "nameless", "big">>],
   [Plain EXCEPT !.text = SkillCommand("Title")],
   Slash,
   [Plain EXCEPT !.channel = "email", !.user = "e", !.subject = "Title"]}

MCTitleOf(s) == "Title"
MCReplies == {<<"x", "y", "x", " ", "y", "x", "y", "x">>, <<" ", "x", " ", "y", "y">>}
===========================================================================
