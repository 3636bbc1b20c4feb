---------------------------- MODULE MCDurability ----------------------------
(***************************************************************************)
(* Instances of Durability small enough for TLC.                           *)
(***************************************************************************)
EXTENDS Durability, SequencesExt

(* An integer entry costs 3 and a text entry 6, so that a text takes the   *)
(* room of two integers; an increment never changes the length of a value. *)
MCKeyLen   == [k \in Key |-> 1]
MCValueLen == [v \in Value |-> IF v \in Text THEN 4 ELSE 1]

(* Deletions name one key, or all of them in any order.                    *)
MCKeyArgs == {<<k>> : k \in Key} \cup SetToSeqs(Key)

MCOneKey   == {<<k>> : k \in Key}

(* What a command answered is read by no action and by no property here.   *)
MCView == <<db, now, cursors, evicted, mode, call, fileVars, victims, entry,
            reportVars>>

MCSymmetry == Permutations(Key)
=============================================================================
