--------------------------------- MODULE Text ---------------------------------
(***************************************************************************)
(* Calls of the C library's text functions: a printf of one directive into *)
(* a buffer whose text strtol then reads, a strtol of any text, and one    *)
(* call of a string or memory function on any memory.                      *)
(***************************************************************************)
EXTENDS Format

CONSTANTS
  Writers,   \* the memory functions that write: their names
  Queries    \* ... and that only look

VARIABLES
  mem,      \* the memory a memory function works on
  call,     \* that function and its arguments, or Nothing
  result    \* what strtol or the memory function returned, or Nothing

vars == <<fvars, mem, call, result>>

Nothing == [value |-> 0, end |-> 0]
NoCall == [op |-> "none", d |-> 0, s |-> 0, n |-> 0]

Init ==
  /\ Start
  /\ mem = (IF job.kind = "memory" THEN job.mem ELSE <<>>)
  /\ call = NoCall /\ result = Nothing

Printed == job.kind = "print" /\ Ended
IsNumber == job.spec \in DOMAIN Base

PrintStep ==
  /\ job.kind = "print" /\ vprintf
  /\ UNCHANGED <<mem, call, result>>

\* What strtol finds in the buffer: vsnprintf writes no terminator, so behind
\* the output stands what every byte of the buffer held before.
InBuffer == out \o (IF job.before = Nul THEN <<>> ELSE Repeat(job.before, Room))

\* The buffer a number was printed to is read in the base it was printed in.
ReadBack ==
  /\ Printed /\ IsNumber /\ result = Nothing
  /\ result' = strtol(InBuffer, Base[job.spec])
  /\ UNCHANGED <<fvars, mem, call>>

Scan ==
  /\ job.kind = "scan" /\ result = Nothing
  /\ result' = strtol(job.text, job.base)
  /\ UNCHANGED <<fvars, mem, call>>

----------------------------------------------------------------------------
\* The library demands strings that end, room for what is written, and no
\* overlap but for memmove.
Terminated(p) == \E e \in DOMAIN mem : e >= p /\ mem[e] = Nul

Str(m, p) == [i \in 1 .. EndOf(m, p) - p |-> m[p + i - 1]]

Strings == {"strcpy", "strncpy", "strcat", "strncat", "strcmp", "strncmp", "strstr",
            "strnstr", "strchr", "strchrnul"}

\* Where a function writes, and the characters C says it writes there: strncpy
\* fills n characters, with NULs behind a shorter string and none behind a
\* longer one.
Target(m, c) ==
  IF c.op \in {"strcat", "strncat"} THEN c.d + Len(Str(m, c.d)) ELSE c.d
Promise(m, c) ==
  CASE c.op \in {"strcpy", "strcat"} -> Append(Str(m, c.s), Nul)
    [] c.op = "strncpy" -> [i \in 1 .. c.n |-> At(Str(m, c.s), i)]
    [] c.op = "strncat" -> Append(SubSeq(Str(m, c.s), 1, Least({c.n, Len(Str(m, c.s))})), Nul)
    [] c.op \in {"memcpy", "memmove"} -> [i \in 1 .. c.n |-> m[c.s + i - 1]]
    [] c.op = "memset" -> Repeat("a", c.n)

Ops == Writers \union Queries

\* C's own conditions, but that the terminator strncpy writes, wherever it does,
\* is in the memory looked at.
Legal(c) ==
  /\ c.op \in Strings => Terminated(c.s) /\ (c.op \in {"strcpy", "strncpy"} \/ Terminated(c.d))
  /\ c.op \in {"memcpy", "memmove", "memcmp"} => c.s + c.n - 1 \in DOMAIN mem \union {-1}
  /\ c.op = "memcmp" => c.d + c.n - 1 \in DOMAIN mem \union {-1}
  /\ c.op \in Writers =>
       LET first == Target(mem, c)
           size == Len(Promise(mem, c)) IN
       /\ first + size - 1 \in DOMAIN mem \union {-1}
       /\ c.op = "strncpy" => first + Least({c.n, Len(Str(mem, c.s))}) \in DOMAIN mem
       /\ c.op \in {"memmove", "memset"} \/
            (first .. first + size - 1) \cap (c.s .. c.s + size - 1) = {}

Apply(c) ==
  CASE c.op = "strcpy" -> strcpy(mem, c.d, c.s)
    [] c.op = "strncpy" -> strncpy(mem, c.d, c.s, c.n)
    [] c.op = "strcat" -> strcat(mem, c.d, c.s)
    [] c.op = "strncat" -> strncat(mem, c.d, c.s, c.n)
    [] c.op = "memcpy" -> memcpy(mem, c.d, c.s, c.n)
    [] c.op = "memmove" -> memmove(mem, c.d, c.s, c.n)
    [] c.op = "memset" -> memset(mem, c.d, "a", c.n)
    [] OTHER -> mem

Answer(c) ==
  CASE c.op = "strcmp" -> strcmp(mem, c.d, c.s)
    [] c.op = "strncmp" -> strncmp(mem, c.d, c.s, c.n)
    [] c.op = "memcmp" -> memcmp(mem, c.d, c.s, c.n)
    [] c.op = "strstr" -> strstr(mem, c.d, c.s)
    [] c.op = "strnstr" -> strnstr(mem, c.d, c.s, c.n)
    [] c.op = "strchr" -> strchr(mem, c.d, mem[c.s])
    [] c.op = "strchrnul" -> strchrnul(mem, c.d, mem[c.s])
    [] OTHER -> c.d

MemoryCall(c) ==
  /\ job.kind = "memory" /\ call = NoCall
  /\ Legal(c)
  /\ call' = c /\ mem' = Apply(c) /\ result' = [value |-> Answer(c), end |-> 1]
  /\ UNCHANGED fvars

Next ==
  \/ PrintStep \/ ReadBack \/ Scan
  \/ \E op \in Ops, d, s \in DOMAIN mem, n \in 0 .. 3 :
       MemoryCall([op |-> op, d |-> d, s |-> s, n |-> n])

Spec == Init /\ [][Next]_vars
----------------------------------------------------------------------------
Larger(a, b) == IF a > b THEN a ELSE b
Magnitude(n) == IF n < 0 THEN -n ELSE n

\* The value the directive of the job is about, and how its text is made up.
IsSigned == job.spec \in {"d", "i"}
LengthAsked == IF job.spec = "p" THEN "l" ELSE job.length
Value == Cast(job.value, LengthAsked, IsSigned)
DigitCount == CHOOSE k \in 1 .. 99 :
                /\ Magnitude(Value) < Base[job.spec] ^ k
                /\ k > 1 => Magnitude(Value) >= Base[job.spec] ^ (k - 1)
SignWidth == IF IsSigned /\ (Value < 0 \/ job.flag \in {"+", " "}) THEN 1 ELSE 0
PrefixWidth == IF job.flag # "#" THEN 0
               ELSE IF job.spec = "o" THEN 1 ELSE IF Base[job.spec] = 16 THEN 2 ELSE 0
Natural == SignWidth + PrefixWidth + Larger(DigitCount, Least({job.precision, Stack - 3}))

\* The least value of every signed type but int negates to itself and comes out
\* wrong, in the short types without an end; zeros that pad a negative number
\* stand in front of its sign.
LeastOfType == IsSigned /\ LengthAsked # "" /\ Value = -(2 ^ (Bits[LengthAsked] - 1))
Regular ==
  /\ ~LeastOfType
  /\ ~(job.flag = "0" /\ Value < 0 /\ job.width > Natural)

\* Nothing ends the output but what the buffer held, or blanks padded on the
\* right: in a buffer that was not cleared a digit or letter continues it.
Delimited == DigitOf(job.before) = 99 \/ (out # <<>> /\ Last(out) = " ")

(* What printf makes of a number, strtol makes the number of again, if the  *)
(* buffer was cleared, or its output is delimited otherwise (printf.c:444,  *)
(* 462 write no terminator): in every base, type, flag, width and           *)
(* precision, out of range only where a long is, and nothing but blanks is  *)
(* left of the output.                                                      *)
ReadsBack ==
  job.kind = "print" /\ IsNumber /\ result # Nothing /\ Regular /\ Delimited /\ job.limit > 20 =>
    /\ result.value = Least({Value, LongMax})
    /\ \A i \in result.end .. Len(out) : out[i] = " "

(* A field is as wide as it was asked to be or as its number needs, and the *)
(* count returned (the log writes that many characters) and stored by %n is *)
(* what was written, unless blanks or zeros were put on the left.           *)
FieldFilled ==
  Printed /\ IsNumber /\ ~LeastOfType /\ job.limit > 20 =>
    /\ Len(out) = Larger(job.width, Natural)
    /\ job.flag = "-" \/ job.width <= Natural => written = Len(out) /\ stored = Len(out)

(* Nothing is written past the limit of the buffer, nor below the stack of  *)
(* digits, whatever precision, prefix and sign are asked for.               *)
NoOverrun ==
  job.kind = "print" =>
    /\ Len(out) <= job.limit
    /\ low >= 0 \/ (IsNumber /\ LengthAsked \in {"hh", "h"} /\ LeastOfType)

Sum(digits, base) ==
  FoldLeft(LAMBDA acc, i : acc + DigitOf(digits[i]) * base ^ (Len(digits) - i), 0,
           [i \in DOMAIN digits |-> i])

\* text is a number in a base: its blanks, sign and prefix end before position
\* first, its digits before position end.  A 0x is a prefix also where no digit
\* follows, and then nothing is read (C reads the 0).
Reads(text, asked, first, end, base, sign) ==
  LET Before == {i \in 1 .. first - 1 : text[i] # " "}
      lead == [i \in 1 .. Cardinality(Before) |-> text[first - Cardinality(Before) + i - 1]]
      signs == IF sign = -1 THEN {<<"-">>} ELSE {<<>>, <<"+">>}
  IN /\ \E x \in {<<>>, <<"0", "x">>}, g \in signs :
          /\ lead = g \o x
          /\ IF x # <<>> THEN asked \in {0, 16}
             ELSE ~(asked \in {0, 16} /\ At(text, first) = "0" /\ At(text, first + 1) = "x")
          /\ base = (IF x # <<>> THEN 16 ELSE IF asked # 0 THEN asked
                     ELSE IF At(text, first) = "0" THEN 8 ELSE 10)
     /\ \A i \in 1 .. first - 1 - Len(lead) : text[i] = " "
     /\ first < end /\ \A i \in first .. end - 1 : DigitOf(text[i]) < base

Clamped(n) == Larger(LongMin, Least({n, LongMax}))

ScanRight ==
  LET t == job.text
      v == result.value
      Readings == {r \in (1 .. Len(t)) \X (2 .. Len(t) + 1) \X {8, 10, 16} \X {1, -1} :
                     Reads(t, job.base, r[1], r[2], r[3], r[4])}
      End == {r[2] : r \in Readings} IN
  IF Readings = {} THEN v = 0 /\ result.end = 1
  ELSE \E r \in Readings :
         /\ r[2] = result.end /\ \A e \in End : e <= r[2]
         /\ v = Clamped(r[4] * Sum(SubSeq(t, r[1], r[2] - 1), r[3]))

\* Where the code's strncpy and C's agree.  The code ends the string, which is
\* one character too far behind a name as long as n, and never pads.
AsInC ==
  LET size == Len(Str(job.mem, call.s)) IN
  call.op = "strncpy" =>
    size < call.n /\ \A i \in call.d + size + 1 .. call.d + call.n - 1 : job.mem[i] = Nul

WritesRight ==
  LET first == Target(job.mem, call)
      text == Promise(job.mem, call) IN
  mem = [i \in DOMAIN mem |-> IF i - first + 1 \in DOMAIN text THEN text[i - first + 1]
                              ELSE job.mem[i]]

Take(x, n) == SubSeq(x, 1, Least({n, Len(x)}))

AnswersRight ==
  LET a == Append(Str(mem, call.d), Nul)
      b == Append(Str(mem, call.s), Nul)
      v == result.value
      Where(sub, limit) == {i \in 1 .. Len(Take(a, limit)) :
                              IsPrefix(sub, SubSeq(Take(a, limit), i, Len(Take(a, limit))))}
      Found(S) == v = IF S = {} THEN NoAddress ELSE call.d + Least(S) - 1
      Compared(x, y) ==
        /\ v = 0 <=> x = y
        /\ v < 0 <=> \E i \in 1 .. Least({Len(x), Len(y)}) :
                       CodeOf[x[i]] < CodeOf[y[i]] /\ SubSeq(x, 1, i - 1) = SubSeq(y, 1, i - 1)
  IN CASE call.op = "strcmp" -> Compared(a, b)
       [] call.op = "strncmp" -> Compared(Take(a, call.n), Take(b, call.n))
       [] call.op = "memcmp" -> Compared([i \in 1 .. call.n |-> mem[call.d + i - 1]],
                                         [i \in 1 .. call.n |-> mem[call.s + i - 1]])
       [] call.op = "strstr" -> Found(Where(Front(b), Len(a)))
       [] call.op = "strnstr" -> Front(b) # <<>> => Found(Where(Front(b), call.n))
       [] call.op = "strchr" -> Found(Where(<<mem[call.s]>>, Len(a)))
       [] call.op = "strchrnul" -> /\ v \in DOMAIN mem /\ mem[v] \in {mem[call.s], Nul}
                                   /\ \A i \in call.d .. v - 1 : mem[i] \notin {mem[call.s], Nul}
       [] OTHER -> TRUE

(* strtol: the longest number the text starts with and its value, brought   *)
(* to the nearest long.  Memory functions: what C says is written and       *)
(* nothing else, also when the two areas of memmove overlap, and searches   *)
(* and comparisons answer for the strings that are there.  Of strncpy this  *)
(* is asked only for a string shorter than n, before bytes that are NUL     *)
(* already (string.c:39-46).                                                *)
CallsRight ==
  /\ job.kind = "scan" /\ result # Nothing => ScanRight
  /\ call.op \in Writers /\ AsInC => WritesRight
  /\ call.op \in Queries => mem = job.mem /\ AnswersRight
=============================================================================
