----------------------------- MODULE MCIniFile ------------------------------
(* Files of a section s with two or three more lines, among them [T].  The *)
(* key k is a part of the key kj and of the words jk, kkj and #k.           *)
EXTENDS IniFile
MCHead == [s |-> "[s]", t |-> "[t]"]
MCUpper == [w \in {"[T]", "K"} |-> IF w = "K" THEN "k" ELSE "[t]"]
MCKeys == {<<"k">>, <<"k", "j">>}
Line(i) ==
  CASE i = 1  -> <<"[T]", "\n">>
    [] i = 2  -> <<"k", "=", "v", "\n">>
    [] i = 3  -> <<" ", "K", " ", "=", "v", " ", "k", "\n">>
    [] i = 4  -> <<"k", "j", "=", "k", "\t", "v", "\n">>
    [] i = 5  -> <<"k", "=", "\n">>
    [] i = 6  -> <<"#", "k", "=", "v", "\n">>
    [] i = 7  -> <<"\n">>
    [] i = 8  -> <<"k", "j", " ", "k", "\n">>
    [] i = 9  -> <<"#", " ", "k", "=", "v", "v", "h", "v", "\n">>
    [] i = 10 -> <<"j", "k", "=", "k", "k", "\n">>
    [] i = 11 -> <<"k", "k", "j", " ", "=", "v", "\n">>
Bodies == {<<1, 3>>, <<2, 3>>, <<5, 2>>, <<6, 7, 3>>, <<8, 4>>, <<6, 9, 4>>,
           <<10, 11, 2>>}
MCTexts == {<<"[s]", "\n">> \o Line(x[1]) \o Line(x[2])
              \o (IF Len(x) = 3 THEN Line(x[3]) ELSE <<>>) : x \in Bodies}
MCMissing == {3}
MCValues == {<<"K", " ", "h">>}
MCDefault == <<"default">>
MCHigh == {"h"}
=============================================================================
