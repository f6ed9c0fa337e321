------------------------------- MODULE CString -------------------------------
(***************************************************************************)
(* The C library's characters, numbers and memory (lib/libc/ctype,         *)
(* string, stdlib) as operators.  A character is a one-character string    *)
(* and Nul the terminator.  Memory is a function from addresses to         *)
(* characters; a pointer is an address, and NoAddress the null pointer.    *)
(***************************************************************************)
EXTENDS Integers, SequencesExt

CONSTANTS
  LongBits   \* the width of a long

ASSUME CStringAssumption == LongBits \in Nat \ {0}

Nul == "NUL"
NoAddress == -1

\* The characters from code 32 on, in order.
Printable == <<
  " ", "!", "\"", "#", "$", "%", "&", "'", "(", ")", "*", "+", ",", "-", ".", "/",
  "0", "1", "2", "3", "4", "5", "6", "7", "8", "9", ":", ";", "<", "=", ">", "?",
  "@", "A", "B", "C", "D", "E", "F", "G", "H", "I", "J", "K", "L", "M", "N", "O",
  "P", "Q", "R", "S", "T", "U", "V", "W", "X", "Y", "Z", "[", "\\", "]", "^", "_",
  "grave", "a", "b", "c", "d", "e", "f", "g", "h", "i", "j", "k", "l", "m", "n", "o",
  "p", "q", "r", "s", "t", "u", "v", "w", "x", "y", "z", "{", "|", "}", "~" >>

Blanks == <<"\t", "\n", "\f", "\r">>
BlankCode == <<9, 10, 12, 13>>

CodeOf ==
  [c \in ToSet(Printable) \union ToSet(Blanks) \union {Nul} |->
     IF c = Nul THEN 0
     ELSE IF c \in ToSet(Blanks) THEN BlankCode[CHOOSE i \in DOMAIN Blanks : Blanks[i] = c]
     ELSE 31 + CHOOSE i \in DOMAIN Printable : Printable[i] = c]

Char(code) == Printable[code - 31]

Between(c, low, high) == CodeOf[low] <= CodeOf[c] /\ CodeOf[c] <= CodeOf[high]

isspace(c) == c = " " \/ c \in ToSet(Blanks)
isdigit(c) == Between(c, "0", "9")
islower(c) == Between(c, "a", "z")
isupper(c) == Between(c, "A", "Z")
isalpha(c) == islower(c) \/ isupper(c)

toupper(c) == IF islower(c) THEN Char(CodeOf[c] - CodeOf["a"] + CodeOf["A"]) ELSE c

----------------------------------------------------------------------------
(* Numbers in text                                                         *)

At(s, i) == IF i \in DOMAIN s THEN s[i] ELSE Nul

\* The first position from i on whose character P does not hold of.
Past(s, i, P(_)) ==
  CHOOSE j \in i .. Len(s) + 1 :
    /\ \A k \in i .. j - 1 : P(s[k])
    /\ j = Len(s) + 1 \/ ~P(s[j])

\* atoi adds up from the last digit to the start of the string, the sign's
\* character included.
atoi(s) ==
  LET neg == At(s, 1) = "-"
      end == Past(s, IF neg THEN 2 ELSE 1, isdigit) - 1
      sum == FoldLeft(LAMBDA acc, i : acc * 10 + CodeOf[s[i]] - CodeOf["0"], 0,
                      [i \in 1 .. end |-> i])
  IN IF neg THEN -sum ELSE sum

LongMax == 2 ^ (LongBits - 1) - 1
LongMin == -(2 ^ (LongBits - 1))

\* The value of a digit or letter, or a number no base reaches.
DigitOf(c) ==
  IF isdigit(c) THEN CodeOf[c] - CodeOf["0"]
  ELSE IF isupper(c) THEN CodeOf[c] - CodeOf["A"] + 10
  ELSE IF islower(c) THEN CodeOf[c] - CodeOf["a"] + 10
  ELSE 99

\* Mutant: a value at the cutoff is let through whatever its last digit.
AccumulateAtCutoff(neg, base, r, d) ==
  LET limit == IF neg THEN -LongMin ELSE LongMax
      cutoff == limit \div base IN
  IF r.any < 0 THEN r
  ELSE IF r.acc > cutoff THEN [any |-> -1, acc |-> limit]
  ELSE [any |-> 1, acc |-> r.acc * base + d]

\* One digit of strtol: once the value is out of range it stays at the limit.
\* The code adds up negative numbers downwards; here acc is the magnitude.
Accumulate(neg, base, r, d) ==
  LET limit == IF neg THEN -LongMin ELSE LongMax
      cutoff == limit \div base
      cutlim == limit % base IN
  IF r.any < 0 THEN r
  ELSE IF r.acc > cutoff \/ (r.acc = cutoff /\ d > cutlim)
  THEN [any |-> -1, acc |-> limit]
  ELSE [any |-> 1, acc |-> r.acc * base + d]

\* The value, and the position behind the number: the start if there is none.
strtol(s, base0) ==
  LET start == Past(s, 1, isspace)
      neg == At(s, start) = "-"
      signed == IF At(s, start) \in {"-", "+"} THEN start + 1 ELSE start
      hex == base0 \in {0, 16} /\ At(s, signed) = "0" /\ At(s, signed + 1) \in {"x", "X"}
      first == IF hex THEN signed + 2 ELSE signed
      base == IF hex THEN 16 ELSE IF base0 # 0 THEN base0
              ELSE IF At(s, first) = "0" THEN 8 ELSE 10
      IsDigit(c) == DigitOf(c) < base
      end == IF first > Len(s) THEN first ELSE Past(s, first, IsDigit)
      r == FoldLeft(LAMBDA acc, c : Accumulate(neg, base, acc, DigitOf(c)),
                    [any |-> 0, acc |-> 0], SubSeq(s, first, end - 1))
  IN [value |-> IF neg THEN -r.acc ELSE r.acc,
      end |-> IF r.any # 0 THEN end ELSE 1]

----------------------------------------------------------------------------
(* Memory                                                                  *)

\* strlen; the address of the terminator of the string at p.
EndOf(mem, p) ==
  CHOOSE e \in DOMAIN mem : e >= p /\ mem[e] = Nul /\ \A i \in p .. e - 1 : mem[i] # Nul
strlen(mem, p) == EndOf(mem, p) - p

\* Byte by byte in the order given by a sequence of offsets.
CopyBytes(mem, d, s, order) ==
  FoldLeft(LAMBDA m, i : [m EXCEPT ![d + i] = m[s + i]], mem, order)
Upwards(n) == [i \in 1 .. n |-> i - 1]
Downwards(n) == [i \in 1 .. n |-> n - i]

memcpy(mem, d, s, n) == CopyBytes(mem, d, s, Upwards(n))

\* Mutant: always from the first byte on.
MemmoveUpwards(mem, d, s, n) == CopyBytes(mem, d, s, Upwards(n))

memmove(mem, d, s, n) ==
  IF s > d THEN CopyBytes(mem, d, s, Upwards(n))
  ELSE IF s < d THEN CopyBytes(mem, d, s, Downwards(n))
  ELSE mem

memset(mem, p, c, n) == [i \in DOMAIN mem |-> IF i \in p .. p + n - 1 THEN c ELSE mem[i]]

\* -1, 0 or 1, by the first byte that differs.
memcmp(mem, a, b, n) ==
  LET Diff == {i \in 0 .. n - 1 : mem[a + i] # mem[b + i]}
      i == CHOOSE x \in Diff : \A y \in Diff : x <= y
  IN IF Diff = {} THEN 0 ELSE IF CodeOf[mem[a + i]] < CodeOf[mem[b + i]] THEN -1 ELSE 1

Least(S) == CHOOSE x \in S : \A y \in S : x <= y

\* Mutant: the string is not ended.
StrncpyOpen(mem, d, s, num) == CopyBytes(mem, d, s, Upwards(Least({num, strlen(mem, s)})))

\* strncpy: num characters at most and then always a terminator, which is one
\* more than num when the source is longer.
strncpy(mem, d, s, num) ==
  LET k == Least({num, strlen(mem, s)}) IN
  [CopyBytes(mem, d, s, Upwards(k)) EXCEPT ![d + k] = Nul]

strcpy(mem, d, s) == strncpy(mem, d, s, strlen(mem, s))
strcat(mem, d, s) == strcpy(mem, EndOf(mem, d), s)
strncat(mem, d, s, num) == strncpy(mem, EndOf(mem, d), s, num)

\* Up to n characters, the difference of the first that differ or end.
strncmp(mem, a, b, n) ==
  LET Stop == {i \in 0 .. n - 1 : a + i \in DOMAIN mem /\ b + i \in DOMAIN mem
                                  /\ (mem[a + i] = Nul \/ mem[a + i] # mem[b + i])}
  IN IF Stop = {} THEN 0
     ELSE CodeOf[mem[a + Least(Stop)]] - CodeOf[mem[b + Least(Stop)]]

strcmp(mem, a, b) == strncmp(mem, a, b, strlen(mem, a) + 1)

\* A character equal to the first of the substring starts a comparison.
strstr(mem, s, sub) ==
  LET Found == {p \in s .. EndOf(mem, s) - 1 : strncmp(mem, p, sub, strlen(mem, sub)) = 0}
  IN IF mem[sub] = Nul THEN s ELSE IF Found = {} THEN NoAddress ELSE Least(Found)

\* The search gives up where the rest of the substring no longer fits.
strnstr(mem, s, find, slen) ==
  LET rest == strlen(mem, find) - 1
      Found == {p \in s .. EndOf(mem, s) - 1 :
                  p - s + 1 + rest <= slen /\ strncmp(mem, p, find, rest + 1) = 0}
  IN IF mem[find] = Nul THEN s ELSE IF Found = {} THEN NoAddress ELSE Least(Found)

strchrnul(mem, s, c) ==
  Least({p \in s .. EndOf(mem, s) : mem[p] = c} \union {EndOf(mem, s)})

strchr(mem, s, c) ==
  LET p == strchrnul(mem, s, c) IN IF mem[p] = c THEN p ELSE NoAddress
=============================================================================
