---------------------------- MODULE MCSupervisor ----------------------------
(* Small instances of Supervisor for TLC.                                  *)
EXTENDS Supervisor, TLC

\* No identity files; one identity registered long ago.
EmptyPool == <<>>
OnePoolFile == <<[credentials |-> [origin |-> "pool", n |-> 1], registered_at |-> 0]>>

DialSymmetry == Permutations(Dials)
=============================================================================
