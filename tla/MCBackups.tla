------------------------------ MODULE MCBackups ------------------------------
(* An instance of Backups for TLC: two writes of one key and a restore.     *)
EXTENDS Backups
CONSTANTS w1, w2, r1, o1

TwoWrites == {w1, w2}
OneWrite == {w2}
OneRestore == {r1}
OneObject == {o1}
SameKey == [w \in TwoWrites |-> o1]

==============================================================================
