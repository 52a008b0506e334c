-------------------------------- MODULE Text --------------------------------
(***************************************************************************)
(* The string, rune and byte primitives of the standard library            *)
(* (internal/host/stdlib/str.go, rune.go).                                 *)
(*                                                                         *)
(* A String is a Go string: a sequence of bytes that need not be UTF-8,    *)
(* because packBytes makes one from any bytes and the primitives cut at    *)
(* byte offsets.  Some primitives count runes and others count bytes; what *)
(* holds between them is what this module is about.  str is the string the *)
(* program holds, made by literals and by the primitives that return one.  *)
(* The charges to the allocation budget are left out.                      *)
(***************************************************************************)
EXTENDS Integers, Sequences, SequencesExt, FiniteSets

CONSTANTS Literals,    \* strings of the program text, as sequences of bytes
          Packed,      \* byte sequences given to packBytes
          MaxBytes     \* bound on the length of str

VARIABLE str

RuneError == 65533
newline == <<10>>

-----------------------------------------------------------------------------
(* UTF-8, as Go's range loop and conversions read and write it: a byte     *)
(* that starts no well-formed sequence is RuneError of width 1.            *)

Cont(s, i) == i <= Len(s) /\ s[i] \in 128..191

Width(s, i) ==
  CASE s[i] \in 194..223 /\ Cont(s, i + 1) -> 2
    [] s[i] \in 225..239 /\ Cont(s, i + 1) /\ Cont(s, i + 2) -> 3
    [] OTHER -> 1

RuneAt(s, i) ==
  CASE Width(s, i) = 2 -> (s[i] - 192) * 64 + (s[i + 1] - 128)
    [] Width(s, i) = 3 -> (s[i] - 224) * 4096 + (s[i + 1] - 128) * 64 + (s[i + 2] - 128)
    [] OTHER -> IF s[i] < 128 THEN s[i] ELSE RuneError

EncodeRune(r) ==
  CASE r < 128 -> <<r>>
    [] r \in 128..2047 -> <<192 + (r \div 64), 128 + (r % 64)>>
    [] OTHER -> <<224 + (r \div 4096), 128 + ((r \div 64) % 64), 128 + (r % 64)>>

RECURSIVE StartsFrom(_, _)

StartsFrom(s, i) == IF i > Len(s) THEN <<>> ELSE <<i>> \o StartsFrom(s, i + Width(s, i))

(* The byte positions (from 1) at which a range loop over s stops. *)
Starts(s) == StartsFrom(s, 1)

toRunes(s) == [k \in DOMAIN Starts(s) |-> RuneAt(s, Starts(s)[k])]

fromRunes(rs) == FlattenSeq([k \in DOMAIN rs |-> EncodeRune(rs[k])])

lengthStr(s) == Len(Starts(s))

Valid(s) == \A k \in DOMAIN Starts(s) : LET i == Starts(s)[k] IN s[i] < 128 \/ Width(s, i) > 1

-----------------------------------------------------------------------------
(* Reading. *)

Just(v) == <<v>>
Nothing == <<>>

charAt(idx, s) == IF idx \in 0..(lengthStr(s) - 1) THEN Just(toRunes(s)[idx + 1]) ELSE Nothing

HasAt(s, i, n) == i + Len(n) - 1 <= Len(s) /\ SubSeq(s, i, i + Len(n) - 1) = n

Occurrences(n, s) == {i \in 1..(Len(s) + 1) : HasAt(s, i, n)}

(* strings.Index and strings.LastIndex: offsets in bytes. *)
indexOfStr(n, s) ==
  LET at == Occurrences(n, s)
  IN  IF at = {} THEN Nothing ELSE Just((CHOOSE i \in at : \A j \in at : i <= j) - 1)

lastIndexOfStr(n, s) ==
  LET at == Occurrences(n, s)
  IN  IF at = {} THEN Nothing ELSE Just((CHOOSE i \in at : \A j \in at : i >= j) - 1)

contains(n, s) == Occurrences(n, s) # {}

isPrefixOfStr(p, s) == HasAt(s, 1, p)

isSuffixOfStr(p, s) == Len(p) <= Len(s) /\ HasAt(s, Len(s) - Len(p) + 1, p)

RECURSIVE cmpStr(_, _)

(* strings.Compare: byte by byte, the shorter first. *)
cmpStr(a, b) ==
  CASE a = <<>> \/ b = <<>> -> IF a = b THEN 0 ELSE IF a = <<>> THEN -1 ELSE 1
    [] OTHER -> IF Head(a) # Head(b) THEN IF Head(a) < Head(b) THEN -1 ELSE 1
                ELSE cmpStr(Tail(a), Tail(b))

-----------------------------------------------------------------------------
(* Pieces. *)

(* Mutant: offsets in bytes. *)
substringBytes(start, count, s) ==
  LET from == IF start < 0 THEN 0 ELSE start
  IN  SubSeq(s, from + 1, IF from + count > Len(s) THEN Len(s) ELSE from + count)

(* The loop over the runes of s keeps the byte offsets of rune start and   *)
(* of rune start + count; both default to len(s).                          *)
substring(start0, count, s) ==
  LET start == IF start0 < 0 THEN 0 ELSE start0
      at(k) == IF k < lengthStr(s) THEN Starts(s)[k + 1] - 1 ELSE Len(s)
  IN  IF count <= 0 \/ at(start) >= Len(s) THEN <<>>
      ELSE SubSeq(s, at(start) + 1, at(start + count))

RECURSIVE split(_, _)

(* strings.Split; an empty separator cuts after every rune. *)
split(sep, s) ==
  IF sep = <<>>
    THEN [k \in DOMAIN Starts(s) |-> SubSeq(s, Starts(s)[k], Starts(s)[k] + Width(s, Starts(s)[k]) - 1)]
  ELSE IF indexOfStr(sep, s) = Nothing THEN <<s>>
  ELSE LET i == indexOfStr(sep, s)[1]
       IN  <<SubSeq(s, 1, i)>> \o split(sep, SubSeq(s, i + Len(sep) + 1, Len(s)))

RECURSIVE join(_, _)

join(sep, strs) ==
  CASE strs = <<>> -> <<>>
    [] Len(strs) = 1 -> strs[1]
    [] OTHER -> strs[1] \o sep \o join(sep, Tail(strs))

countStr(n, s) == IF n = <<>> THEN lengthStr(s) + 1 ELSE Len(split(n, s)) - 1

lines(s) ==
  LET parts == split(newline, s)
  IN  IF Last(parts) = <<>> THEN Front(parts) ELSE parts

unlines(strs) == FlattenSeq([k \in DOMAIN strs |-> strs[k] \o newline])

Space(b) == b \in {9, 10, 11, 12, 13, 32}

words(s) == SelectSeq(split(<<32>>, [i \in DOMAIN s |-> IF Space(s[i]) THEN 32 ELSE s[i]]),
                      LAMBDA w : w # <<>>)

trim(s) ==
  LET ink == {i \in DOMAIN s : ~ Space(s[i])}
  IN  IF ink = {} THEN <<>>
      ELSE SubSeq(s, CHOOSE i \in ink : \A j \in ink : i <= j, CHOOSE i \in ink : \A j \in ink : i >= j)

(* strings.ReplaceAll; an empty pattern is found before every rune and at the end. *)
replaceStr(old, new, s) ==
  IF old = <<>> THEN new \o FlattenSeq([k \in DOMAIN split(<<>>, s) |-> split(<<>>, s)[k] \o new])
  ELSE join(new, split(old, s))

reverseStr(s) == fromRunes(Reverse(toRunes(s)))

replicateStr(n, s) == IF n <= 0 THEN <<>> ELSE FlattenSeq([k \in 1..n |-> s])

stripPrefixStr(p, s) == IF isPrefixOfStr(p, s) THEN Just(SubSeq(s, Len(p) + 1, Len(s))) ELSE Nothing

stripSuffixStr(p, s) == IF isSuffixOfStr(p, s) THEN Just(SubSeq(s, 1, Len(s) - Len(p))) ELSE Nothing

(* unpackBytes and packBytes convert between a string and its bytes. *)
unpackBytes(s) == [i \in DOMAIN s |-> s[i]]
packBytes(bs) == [i \in DOMAIN bs |-> bs[i]]

(* The rewrite rule R13 removes a round trip: the argument stands for the  *)
(* result of packing what was unpacked from it.                            *)
strPackedRoundtrip(x) == x

-----------------------------------------------------------------------------
(* The program: a primitive that returns a string replaces str. *)

Becomes(s) == Len(s) <= MaxBytes /\ str' = s

TextInit == str \in Literals

appendStr == \E l \in Literals : Becomes(str \o l)

pack == \E bs \in Packed : Becomes(str \o packBytes(bs))

cut == \E a \in -1..2, n \in 0..2 : Becomes(substring(a, n, str))

replace == \E old, new \in Literals : Becomes(replaceStr(old, new, str))

strip == \E p \in Literals :
           \/ stripPrefixStr(p, str) # Nothing /\ Becomes(stripPrefixStr(p, str)[1])
           \/ stripSuffixStr(p, str) # Nothing /\ Becomes(stripSuffixStr(p, str)[1])

reverse == Becomes(reverseStr(str)) \/ Becomes(replicateStr(2, str))

retext == Becomes(unlines(lines(str))) \/ Becomes(trim(str)) \/ Becomes(join(<<>>, words(str)))

TextNext == appendStr \/ pack \/ cut \/ replace \/ strip \/ reverse \/ retext

-----------------------------------------------------------------------------
(* substring counts runes even where bytes are malformed: its result reads *)
(* as that stretch of the runes of the string, and charAt is its length-1  *)
(* case.                                                                   *)
SubstringByRunes ==
  \A start \in -1..3, count \in -1..3 :
    LET rs == toRunes(str)
        from == IF start < 0 THEN 0 ELSE start
    IN  /\ toRunes(substring(start, count, str)) = SubSeq(rs, from + 1, IF from + count > Len(rs) THEN Len(rs) ELSE from + count)
        /\ charAt(start, str) # Nothing => charAt(start, str) = toRunes(substring(start, 1, str))

(* The rewrite rules that drop a round trip through runes keep the meaning *)
(* of a program on every well-formed string, and the byte round trip on    *)
(* every string (strPackedRoundtrip, R13).                                 *)
RoundtripRuleSound ==
  /\ Valid(str) => strPackedRoundtrip(str) = fromRunes(toRunes(str))
  /\ strPackedRoundtrip(str) = packBytes(unpackBytes(str))

(* Cutting and joining are inverse: split then join with the same          *)
(* separator, the number of pieces against countStr, unlines after lines,  *)
(* stripping what a string is known to start or end with.                  *)
CutsAndJoins ==
  /\ \A sep \in Literals :
       /\ join(sep, split(sep, str)) = str
       /\ contains(sep, str) <=> countStr(sep, str) > 0
       /\ stripPrefixStr(sep, sep \o str) = Just(str) /\ stripSuffixStr(sep, str \o sep) = Just(str)
       /\ contains(sep, str) => indexOfStr(sep, str)[1] <= lastIndexOfStr(sep, str)[1]
  /\ unlines(lines(str)) = IF str = <<>> \/ isSuffixOfStr(newline, str) THEN str ELSE str \o newline

(* Well-formed strings stay well formed under the primitives that count    *)
(* runes, and reversing twice gives the string back; the byte order of     *)
(* cmpStr is the order of the runes.                                       *)
ValidStaysValid ==
  Valid(str) =>
    /\ \A start \in 0..2, count \in 0..3 : Valid(substring(start, count, str))
    /\ Valid(reverseStr(str)) /\ reverseStr(reverseStr(str)) = str
    /\ \A l \in Literals : (cmpStr(str, l) = 0) <=> (toRunes(str) = toRunes(l))
    /\ \A l \in Literals : cmpStr(str, l) = cmpStr(toRunes(str), toRunes(l))

(* Strings are byte sequences that the primitives read as runes: cutting,  *)
(* joining, reversing, comparing and the optimizer's round-trip rule agree *)
(* with each other on any of them (str.go).                                *)
TextAgrees == SubstringByRunes /\ RoundtripRuleSound /\ CutsAndJoins /\ ValidStaysValid
=============================================================================
