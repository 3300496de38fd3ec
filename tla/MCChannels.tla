----------------------------- MODULE MCChannels -----------------------------
(* Channels on small sets of users and channels. *)
EXTENDS Channels, TLC

UserSymmetry == Permutations(Users)
UserChanSymmetry == Permutations(Users) \cup Permutations(Chans)

OneKey == {"pw"}
OneTopic == {"hello"}
NoKeys == {}
AccessModes == {"i", "t"}
NoModes == {}
=============================================================================
