------------------------------- MODULE MCSession -------------------------------
(* Small instances of Session: users, signins and sign-outs are alike. *)
EXTENDS Session, TLC

SessionSymmetry ==
  Permutations(Users) \cup Permutations(Signins) \cup Permutations(Signouts)
==============================================================================
