------------------------------ MODULE IniLines -------------------------------
(***************************************************************************)
(* The text of a configuration file as config/inifile.cpp describes it:    *)
(* lines, "[section]" headers and "key = value" items, names in upper or   *)
(* lower case.  This is the reference that the searches of CIniFile        *)
(* through the bytes of the file are compared with.  Nothing there knows   *)
(* of comments, so the key of an item is the word before the = of a line,  *)
(* whatever stands before it: "# k = v" is an item k, "#k = v" is an item  *)
(* #k.                                                                     *)
(*                                                                         *)
(* A text is a sequence of bytes, only that a header with its brackets is  *)
(* one; a word is a sequence, and may be a part of another.                *)
(***************************************************************************)
EXTENDS Integers, Sequences, FiniteSetsExt

CONSTANTS
  Header,    \* Header[s]: the header of section s, in lower case
  Upper,     \* the letters, and headers, in upper case, and what they become
  Keys       \* the keys, words in lower case

EOL   == "\n"          \* stands for \r, too: the code treats both alike
Blank == {" ", "\t"}
Sections == DOMAIN Header

ToLower(t) == [i \in DOMAIN t |-> IF t[i] \in DOMAIN Upper THEN Upper[t[i]] ELSE t[i]]

Heads == LET low == {Header[s] : s \in Sections}
         IN  low \cup {w \in DOMAIN Upper : Upper[w] \in low}

IniAssumption ==
  /\ \A w \in DOMAIN Upper : Upper[w] \notin DOMAIN Upper
  /\ \A s \in Sections : Header[s] \notin DOMAIN Upper
  /\ \A s1, s2 \in Sections : Header[s1] = Header[s2] => s1 = s2
  /\ \A k \in Keys :
       k # <<>> /\ \A i \in DOMAIN k : k[i] \notin Blank \cup Heads \cup {EOL, "="}
ASSUME IniAssumption

-----------------------------------------------------------------------------
(* The lines of a text, each at the position where it starts.  The last    *)
(* one is what follows the last EOL.                                       *)
Least(S, none) == IF S = {} THEN none ELSE Min(S)
Ends(t)   == {i \in DOMAIN t : t[i] = EOL}
Starts(t) == {1} \cup {i + 1 : i \in Ends(t)}
Lines(t)  ==
  [b \in Starts(t) |->
     SubSeq(t, b, Least({i \in Ends(t) : i >= b}, Len(t) + 1) - 1)]

(* A line without its blanks, in lower case.                               *)
Bare(line) == ToLower(SelectSeq(line, LAMBDA x : x \notin Blank))

IsHead(line) == Bare(line) # <<>> /\ Bare(line)[1] \in Heads

(* The word before the = of a line: where it begins and what it is.        *)
Equal(line)     == Least({i \in DOMAIN line : line[i] = "="}, 0)
NameEnd(line)   == Max({0} \cup {i \in 1 .. Equal(line) - 1 : line[i] \notin Blank})
NameBegin(line) == Max({0} \cup {i \in 1 .. NameEnd(line) : line[i] \in Blank}) + 1
Name(line)      == ToLower(SubSeq(line, NameBegin(line), NameEnd(line)))

IsItem(line, k) == Name(line) = k

(* The line with the header of section s, which has an EOL; 0: none.  The  *)
(* section goes to the next header.                                        *)
HeadLine(ls, s) ==
  LET last == Max(DOMAIN ls)
  IN  Least({b \in DOMAIN ls \ {last} : IsHead(ls[b]) /\ Bare(ls[b])[1] = Header[s]}, 0)

Section(ls, h) ==
  {b \in DOMAIN ls : b > h /\ \A c \in DOMAIN ls : h < c /\ c <= b => ~IsHead(ls[c])}

(* The line of section s that sets key k: the first; 0: none.              *)
ItemLine(ls, s, k) ==
  Least({b \in Section(ls, HeadLine(ls, s)) : IsItem(ls[b], k)}, 0)

(* What follows the = and its blanks, up to a tabulator.                   *)
ValueOf(line) ==
  LET b  == Least({i \in Equal(line) + 1 .. Len(line) : line[i] \notin Blank}, Len(line) + 1)
      e  == Least({i \in b .. Len(line) : line[i] = "\t"}, Len(line) + 1)
  IN  SubSeq(line, b, e - 1)

(* The items of a text, by section and key; <<>>: there is none.           *)
Items(t) ==
  LET ls == Lines(t)
  IN  [s \in {x \in Sections : HeadLine(ls, x) # 0} |->
         [k \in Keys |-> LET b == ItemLine(ls, s, k)
                         IN  IF b = 0 THEN <<>> ELSE ValueOf(ls[b])]]

(* What a text says, line by line, without empty lines and without the item*)
(* of s and k, of whose line only what stands before the key is left.      *)
Others(t, s, k) ==
  LET ls   == Lines(t)
      item == ItemLine(ls, s, k)
      rest == [b \in DOMAIN ls |-> IF b = item THEN SubSeq(ls[b], 1, NameBegin(ls[b]) - 1)
                                   ELSE ls[b]]
      said == {b \in DOMAIN ls : Bare(rest[b]) # <<>>}
  IN  SelectSeq([b \in 1 .. Len(t) + 1 |-> IF b \in said THEN rest[b] ELSE <<>>],
                LAMBDA line : line # <<>>)

(* The search for a key goes on behind a word it is a part of, and takes   *)
(* what follows for the begin of a word: of w, which ends in the key twice,*)
(* it finds the second ("1" in "11 = v").                                  *)
Doubled(w, k) ==
  Len(w) >= 2 * Len(k) /\ SubSeq(w, Len(w) - 2 * Len(k) + 1, Len(w)) = k \o k

(* What the code takes for granted of a text: headers are alone on their   *)
(* line, there is one = in a line at most, and before it no word that ends *)
(* in a key twice.                                                         *)
WellFormed(t) ==
  LET ls == Lines(t)
  IN  \A b \in DOMAIN ls :
        LET line == ls[b]
        IN  /\ \A i \in DOMAIN line : line[i] \in Heads => Len(line) = 1
            /\ \A i \in DOMAIN line : line[i] = "=" => i = Equal(line)
            /\ \A k \in Keys : ~Doubled(Name(line), k)
=============================================================================
