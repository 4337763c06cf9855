------------------------------- MODULE IniFile -------------------------------
(***************************************************************************)
(* CIniFile (config/inifile.h, inifile.cpp): a configuration file that is  *)
(* held in memory twice, as it is and in lower case.  Sections and keys    *)
(* are found in the second copy, values are taken from the first; a Set    *)
(* changes both and then writes the whole file again, which can fail at    *)
(* each call of the C library, and the process can die between two.        *)
(***************************************************************************)
EXTENDS IniLines

CONSTANTS
  Texts,     \* what the file may be at first
  Values,    \* what items are set to
  nSize,     \* the size of the buffer of GetItemValue
  Missing,   \* bound: how many bytes of a file a write that fails can lack
  High,      \* the bytes above 0x7f
  Default    \* pszDefaultValue

ASSUME FileAssumption ==
  /\ \A t \in Texts : WellFormed(t)
  /\ \A v \in Values : v # <<>> /\ v[1] \notin Blank
                       /\ \A i \in DOMAIN v : v[i] \notin Heads \cup {EOL, "=", "\t"}
  /\ nSize \in Nat \ {0, 1} /\ Missing \subseteq Nat \ {0}

VARIABLES
  file,          \* what is in the file
  m_pszContent,  \* the content in memory
  m_pszShadow,   \* the same in lower case
  m_bIsOpen,
  at,            \* the step of SetItemValue that is next, or "idle"
  ret,           \* the last Get's arguments, and what the last call returned
  items, stored  \* what the lines of the content and of the file say, by the
                 \* reference; only looked at by the properties

vars == <<file, m_pszContent, m_pszShadow, m_bIsOpen, at, ret, items, stored>>
memory == <<m_pszContent, m_pszShadow, m_bIsOpen, items>>
disk   == <<file, stored>>

(* The constructor.                                                        *)
Init ==
  /\ file \in Texts
  /\ m_pszContent = <<>> /\ m_pszShadow = <<>> /\ m_bIsOpen = FALSE
  /\ at = "idle" /\ ret = <<"none">>
  /\ items = <<>> /\ stored = Items(file)

m_nSize == Len(m_pszContent)
End     == m_nSize + 1

(* The byte at p; there is a NUL at the end.                               *)
Byte(t, p) == IF p \in DOMAIN t THEN t[p] ELSE "NUL"

(* The loops "for (; p < e; p++)" that stop at a byte in S or not in S.    *)
SkipTo(p, e, S)   == Least({i \in p .. e - 1 : m_pszContent[i] \in S}, e)
SkipOver(p, e, S) == Least({i \in p .. e - 1 : m_pszContent[i] \notin S}, e)

-----------------------------------------------------------------------------
(* The word w at b or later, as a word: no letter before it, except at b,  *)
(* and a blank, an EOL or a = behind it.  After a place that is none the   *)
(* search goes on behind it, as if at its begin.  0: none.                 *)
SearchMarchStr(w, b) ==
  LET found == {i \in 1 .. End - Len(w) : SubSeq(m_pszShadow, i, i + Len(w) - 1) = w}
      march[c \in 1 .. End] ==
        LET p == Least({i \in found : i >= c}, 0)
            begins == p = c \/ m_pszShadow[p - 1] \in Blank \cup {EOL}
            ends   == Byte(m_pszShadow, p + Len(w)) \in Blank \cup {EOL, "="}
        IN  IF p = 0 \/ (begins /\ ends) THEN p ELSE march[p + Len(w)]
  IN  march[b]

LocateStr(w, b, e) ==
  LET p == SearchMarchStr(w, b)
  IN  IF b >= e \/ p = 0 \/ p + Len(w) > e THEN 0 ELSE p

(* The section of the header at p: from the line behind it to the next     *)
(* header that is the first on its line.                                   *)
SectionBegin(p) == SkipOver(SkipTo(p + 1, End, {EOL}), End, {EOL})

FirstOnLine(b, p) ==
  \A i \in b .. p - 1 :
    m_pszContent[i] \in Blank \cup {EOL} \/ \E j \in i + 1 .. p - 1 : m_pszContent[j] = EOL

SectionEnd_Any(b) == End   \* mutant: the section goes to the end of the file
SectionEnd(b) ==
  Least({p \in b .. m_nSize : m_pszContent[p] \in Heads /\ FirstOnLine(b, p)}, End)

(* Where the header of s is; 0: nowhere.                                   *)
LocateSection(s) == IF m_bIsOpen THEN LocateStr(<<Header[s]>>, 1, End) ELSE 0

(* Where the = of the key k at p is to be.                                 *)
Equals(p, k, e) == SkipOver(p + Len(k), e, Blank)

(* The key k between b and e: the first that has a = behind it.  0: none.  *)
LocateKey_NoEquals(k, b, e) ==   \* mutant: the = is not looked for
  IF b < e THEN LocateStr(k, b, e) ELSE 0
LocateKey(k, b, e) ==
  LET locate[c \in b .. e] ==
        LET p == LocateStr(k, c, e)
            q == Equals(p, k, e)
        IN  IF p = 0 \/ Byte(m_pszContent, q) = "=" THEN p ELSE locate[q]
  IN  IF b < e THEN locate[b] ELSE 0

(* The lines of the item: to the end of its line and the EOLs behind it.   *)
KeyEnd(p, k, e) == SkipOver(SkipTo(Equals(p, k, e) + 1, e, {EOL}), e, {EOL})

(* The value of the item: to the end of its line or a tabulator.           *)
LocateKeyValue(p, k, e) ==
  LET b == SkipOver(Equals(p, k, e) + 1, e, Blank)
  IN  SubSeq(m_pszContent, b, SkipTo(b, e, {"\t", EOL}) - 1)

(* The copy to the caller's buffer.                                        *)
Copied(v) ==
  LET c == SubSeq(v, 1, nSize - 1)
      cut == Len(c) = nSize - 1 /\ c[nSize - 1] \in High
  IN  IF Len(v) < nSize - 1 THEN v
      ELSE IF cut THEN SubSeq(c, 1, nSize - 2) ELSE c

-----------------------------------------------------------------------------
Release ==
  m_pszContent' = <<>> /\ m_pszShadow' = <<>> /\ m_bIsOpen' = FALSE /\ items' = <<>>

(* The file gets a new content.                                            *)
WriteOut(t) == file' = t /\ stored' = Items(t)

OpenFile ==
  /\ at = "idle"
  /\ m_pszContent' = file /\ m_pszShadow' = ToLower(file) /\ m_bIsOpen' = TRUE
  /\ items' = stored
  /\ ret' = <<"open">>
  /\ UNCHANGED <<disk, at>>

(* OpenFile fails after its CloseFile, or CloseFile is called.             *)
CloseFile ==
  /\ at = "idle"
  /\ Release
  /\ ret' = <<"closed">>
  /\ UNCHANGED <<disk, at>>

GetItemValue(s, k) ==
  /\ at = "idle"
  /\ LET h == LocateSection(s)
         b == SectionBegin(h)  e == SectionEnd(b)
         p == IF h = 0 THEN 0 ELSE LocateKey(k, b, e)
         v == IF p = 0 THEN <<>> ELSE Copied(LocateKeyValue(p, k, e))
     IN  ret' = <<s, k>> \o (IF v = <<>> THEN Default ELSE v)
  /\ UNCHANGED <<disk, memory, at>>

SetFails(s) ==
  /\ at = "idle" /\ LocateSection(s) = 0
  /\ ret' = <<"failed">>
  /\ UNCHANGED <<disk, memory, at>>

(* The new content: the lines of the item are replaced by one, or one is   *)
(* put at the begin of the section.                                        *)
NewContent(h, k, v) ==
  LET b == SectionBegin(h)  e == SectionEnd(b)
      p == LocateKey(k, b, e)
      kb == IF p = 0 THEN b ELSE p
      ke == IF p = 0 THEN b ELSE KeyEnd(p, k, e)
  IN  SubSeq(m_pszContent, 1, kb - 1) \o k \o <<" ", "=", " ">> \o v \o <<EOL>>
        \o SubSeq(m_pszContent, ke, m_nSize)

(* SetItemValue changes the memory, ...                                    *)
Refresh(t) ==
  m_pszContent' = t /\ m_pszShadow' = ToLower(t) /\ items' = Items(t) /\ UNCHANGED m_bIsOpen

SetItemValue(s, k, v) ==
  /\ at = "idle" /\ LocateSection(s) # 0
  /\ Refresh(NewContent(LocateSection(s), k, v))
  /\ at' = "fopen"
  /\ UNCHANGED <<disk, ret>>

Returns(r) == at' = "idle" /\ ret' = r /\ UNCHANGED memory

(* ... then opens the file, which empties it, ...                          *)
OpenFails == at = "fopen" /\ Returns(<<"failed">>) /\ UNCHANGED disk
Truncate  == at = "fopen" /\ at' = "fwrite" /\ WriteOut(<<>>) /\ UNCHANGED <<memory, ret>>

(* ... and writes it.  The C library writes at any time what it likes of   *)
(* it; that fclose fails to write the rest is not looked at.               *)
SomeOfIt == \E i \in Missing : i <= m_nSize /\ WriteOut(SubSeq(m_pszContent, 1, m_nSize - i))

WriteFails == at = "fwrite" /\ Returns(<<"failed">>) /\ SomeOfIt
Write      == at = "fwrite" /\ at' = "fclose" /\ UNCHANGED <<disk, memory, ret>>
CloseFails == at = "fclose" /\ Returns(<<"lost">>) /\ SomeOfIt
Close      == at = "fclose" /\ Returns(<<"stored">>) /\ WriteOut(m_pszContent)

(* The process dies and is started again.                                  *)
Die ==
  /\ at' = "idle" /\ ret' = <<"none">>
  /\ Release
  /\ \/ UNCHANGED disk
     \/ at = "fclose" /\ (SomeOfIt \/ WriteOut(m_pszContent))

Next ==
  \/ OpenFile \/ CloseFile \/ Die
  \/ OpenFails \/ Truncate \/ WriteFails \/ Write \/ CloseFails \/ Close
  \/ \E s \in Sections :
       \/ SetFails(s)
       \/ \E k \in Keys : GetItemValue(s, k) \/ \E v \in Values : SetItemValue(s, k, v)

Spec == Init /\ [][Next]_vars

-----------------------------------------------------------------------------
Store == INSTANCE ItemStore WITH busy <- at # "idle"

(* The searches through the bytes find the sections and items that the     *)
(* lines of the file have: Get returns the item, Set changes that item and *)
(* no other, and what was stored is read again.  It holds for texts that   *)
(* are WellFormed, with the two exceptions that ItemStore names.           *)
IsStore == Store!Spec

(* A Set of k in s leaves the rest of the file as it is and where it is:   *)
(* other sections, lines that are no items, items that are hidden by an    *)
(* earlier one, and what stands before the key on its own line.            *)
OthersKept ==
  [][at # at' => \A s \in Sections, k \in Keys, v \in Values :
       SetItemValue(s, k, v) => Others(m_pszContent', s, k) = Others(m_pszContent, s, k)]_vars
=============================================================================
