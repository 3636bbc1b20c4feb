--------------------------- MODULE MCKeyValueStore ---------------------------
(***************************************************************************)
(* Instances of KeyValueStore small enough for TLC.  Lengths are chosen so *)
(* that an increment may lengthen a value, a text is longer than any       *)
(* integer, and a limit of a few bytes admits, evicts and refuses.         *)
(***************************************************************************)
EXTENDS KeyValueStore, TLC

CONSTANT Oversized  \* texts too long for the limits in use

(* 0 .. 2 have one digit; INT64_MAX, which is 3, is the longest integer,   *)
(* and texts are longer still.                                             *)
MCKeyLen == [k \in Key |-> 1]

MCValueLen ==
  [v \in Value |-> IF v \in Oversized THEN 7 ELSE IF v \in Text THEN 3
                   ELSE IF v = INT64_MAX THEN 2 ELSE 1]

(* One argument, two, and the same one twice.                              *)
MCKeyArgs == UNION {[1 .. n -> Key] : n \in 1 .. 2}

MCOneKey == {<<k>> : k \in Key}

(* All but the answers, for the runs whose properties do not read them.    *)
MCView == <<db, now, cursors, evicted, mode, call>>

MCSymmetry == Permutations(Key)
=============================================================================
