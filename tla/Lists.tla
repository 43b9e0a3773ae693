-------------------------------- MODULE Lists --------------------------------
(***************************************************************************)
(* Loops over slices that the converters share.                            *)
(***************************************************************************)
EXTENDS Integers, SequencesExt

IsList(s) == s \in Seq(ToSet(s))

(* "for _, x := range s { if x in S { kept = append(kept, x) } }"          *)
Keep(s, S) ==
  LET kept[i \in 0 .. Len(s)] ==
        IF i = 0 THEN <<>>
        ELSE IF s[i] \in S THEN Append(kept[i - 1], s[i]) ELSE kept[i - 1]
  IN kept[Len(s)]

(* "for i := range s".                                                     *)
Positions(s) == [i \in DOMAIN s |-> i]

(* "for _, x := range s { if !seen[x] { firsts = append(firsts, x) } }"    *)
Firsts(s) ==
  LET firsts[i \in 0 .. Len(s)] ==
        IF i = 0 THEN <<>>
        ELSE IF s[i] \in ToSet(firsts[i - 1]) THEN firsts[i - 1] ELSE Append(firsts[i - 1], s[i])
  IN firsts[Len(s)]

(* "for _, x := range s { m[key(x)] = x }": the index of the x that stays, *)
(* where keys[i] is the key of the i-th.                                   *)
LastOf(keys, k) ==
  CHOOSE i \in DOMAIN keys : keys[i] = k /\ \A j \in DOMAIN keys : keys[j] = k => j <= i
=============================================================================
