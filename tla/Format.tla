-------------------------------- MODULE Format --------------------------------
(***************************************************************************)
(* printf and its family, lib/libc/stdio/printf.c: __vprintf_generic as a  *)
(* state machine over the characters of a format, with the conversion of   *)
(* numbers in the types' own widths.  A directive is read in stages        *)
(* (PRINTF_AWAIT_...); a character that does not belong to a stage is left *)
(* to the next one.  Floating point is compiled out.                       *)
(***************************************************************************)
EXTENDS CString

CONSTANTS
  Bits,     \* width of the integer types: "hh", "h", "", "l", "ll"
  Stack,    \* bytes of the stack of digits in __put_number
  Jobs      \* calls: [fmt, args, limit, ...]; an argument is [num, str]

Lengths == {"hh", "h", "", "l", "ll"}

ASSUME FormatAssumption ==
  /\ Bits \in [Lengths -> Nat \ {0}] /\ Bits["l"] = LongBits
  /\ Stack \in Nat /\ Stack > 3
  /\ \A j \in Jobs : j.limit \in Nat /\ \A i \in DOMAIN j.fmt : j.fmt[i] \in DOMAIN CodeOf

VARIABLES
  job,      \* the call
  pos,      \* format: the position of its next character
  stage,    \* flags: what the directive under way may have next, or "text"
  par,      \* __printf_params
  args,     \* the arguments not yet taken by va_arg
  out,      \* the buffer's characters so far
  written,  \* the value to be returned
  stored,   \* what %n has stored
  low       \* the lowest index of the stack of digits used so far

fvars == <<job, pos, stage, par, args, out, written, stored, low>>

NoParams == [flag |-> "none", width |-> 0, precision |-> 0, length |-> ""]
Flags == {"-", "+", "#", " ", "0"}

Start ==
  /\ job \in Jobs
  /\ pos = 1 /\ stage = "text" /\ par = NoParams /\ args = job.args
  /\ out = <<>> /\ written = 0 /\ stored = 0 /\ low = Stack - 1

Here == At(job.fmt, pos)
Ended == Here = Nul

NextStage ==
  [flag |-> "width", width |-> "precision", precision |-> "length",
   length |-> "specifier", specifier |-> "text"]

----------------------------------------------------------------------------
(* Emitting                                                                *)

Room == job.limit - Len(out)

\* Mutant: one character past the limit is written.
EmittedPastLimit(text) == out \o SubSeq(text, 1, Least({Len(text), Room + 1}))

\* __buffer_putchar for every character: what does not fit is dropped.
Emitted(text) == out \o SubSeq(text, 1, Least({Len(text), Room}))

\* ... and what it returns for one: 1, or EOF.
Count1 == IF Room > 0 THEN 1 ELSE -1

Repeat(c, n) == [i \in 1 .. n |-> c]

\* Mutant: what pads on the right is not counted.
PaddedUncounted(str, raw) ==
  LET fill == IF ~raw /\ par.flag = "0" THEN "0" ELSE " "
      cut == raw /\ par.precision > 0 /\ par.precision <= Len(str)
      body == IF cut THEN SubSeq(str, 1, par.precision) ELSE str
      pad == Repeat(fill, par.width - Len(str))
  IN IF par.flag # "-" THEN [text |-> pad \o body, ret |-> Len(body)]
     ELSE [text |-> IF cut THEN body ELSE body \o pad, ret |-> Len(body)]

\* __emit_str: the text, and the count returned, without what pads it on the
\* left.  A string cut by the precision is padded as if it were whole on the
\* left, and not at all on the right.
Padded(str, raw) ==
  LET fill == IF ~raw /\ par.flag = "0" THEN "0" ELSE " "
      cut == raw /\ par.precision > 0 /\ par.precision <= Len(str)
      body == IF cut THEN SubSeq(str, 1, par.precision) ELSE str
      pad == Repeat(fill, par.width - Len(str))
  IN IF par.flag # "-" THEN [text |-> pad \o body, ret |-> Len(body)]
     ELSE IF cut THEN [text |-> body, ret |-> Len(body)]
     ELSE [text |-> body \o pad, ret |-> Len(body \o pad)]

----------------------------------------------------------------------------
(* Numbers                                                                 *)

\* A value converted to a type of w bits.
Unsigned(n, w) == n % (2 ^ w)
Signed(n, w) == ((n + 2 ^ (w - 1)) % (2 ^ w)) - 2 ^ (w - 1)
Cast(n, length, signed) ==
  IF signed THEN Signed(n, Bits[length]) ELSE Unsigned(n, Bits[length])

\* number / base and number % base: the base is an unsigned int, and a type
\* that is no wider is converted to it; a wider one divides towards zero.
Divide(n, base, length) ==
  IF Bits[length] <= Bits[""]
  THEN [quot |-> Unsigned(n, Bits[""]) \div base, rem |-> Unsigned(n, Bits[""]) % base]
  ELSE IF n >= 0 THEN [quot |-> n \div base, rem |-> n % base]
  ELSE [quot |-> -((-n) \div base), rem |-> -((-n) % base)]

\* The digits from the last to the first, as many as the stack holds at most.
Digits(n, base, length, signed) ==
  LET left[k \in 0 .. Stack] ==
        IF k = 0 THEN n ELSE Cast(Divide(left[k - 1], base, length).quot, length, signed)
      Done == {k \in 0 .. Stack : left[k] = 0}
      count == IF Done = {} THEN Stack ELSE Least(Done)
  IN IF n = 0 THEN <<0>> ELSE [k \in 1 .. count |-> Divide(left[k - 1], base, length).rem]

DigitChar(r, uppercase) ==
  IF r >= 10 THEN (IF uppercase THEN toupper(Char(CodeOf["a"] + r - 10))
                   ELSE Char(CodeOf["a"] + r - 10))
  ELSE Char(CodeOf["0"] + r)

Prefix(base, uppercase) ==
  IF par.flag # "#" THEN <<>>
  ELSE IF base = 16 THEN <<"0", IF uppercase THEN "X" ELSE "x">>
  ELSE IF base = 8 THEN <<"0">> ELSE <<>>

\* Mutant: the sign is looked for after the number has been negated.
SignLost(negative, signed) ==
  IF ~signed THEN <<>>
  ELSE IF par.flag = "+" THEN <<"+">>
  ELSE IF par.flag = " " THEN <<" ">> ELSE <<>>

Sign(negative, signed) ==
  IF ~signed THEN <<>>
  ELSE IF negative THEN <<"-">>
  ELSE IF par.flag = "+" THEN <<"+">>
  ELSE IF par.flag = " " THEN <<" ">> ELSE <<>>

\* __put_number: what stands on the stack.  The zeros of the precision stop at
\* index 1, to leave room for a prefix and a sign.
Number(value, base, uppercase, signed, length) ==
  LET cast == Cast(value, length, signed)
      negative == signed /\ cast < 0
      magnitude == IF negative THEN Cast(-cast, length, signed) ELSE cast
      digits == Digits(magnitude, base, length, signed)
      zeros == Least({par.precision - Len(digits), Stack - 3 - Len(digits)})
  IN Sign(negative, signed) \o Prefix(base, uppercase) \o Repeat("0", zeros)
       \o [i \in DOMAIN digits |-> DigitChar(digits[Len(digits) + 1 - i], uppercase)]

----------------------------------------------------------------------------
(* The loop of __vprintf_generic: one action for each way round            *)

Literal ==
  /\ stage = "text" /\ ~Ended
  /\ \/ /\ Here # "%"
        /\ out' = Emitted(<<Here>>) /\ written' = written + Count1 /\ UNCHANGED stage
     \/ /\ Here = "%"
        /\ stage' = "flag" /\ UNCHANGED <<out, written>>
  /\ pos' = pos + 1
  /\ UNCHANGED <<job, par, args, stored, low>>

Flag ==
  /\ stage = "flag" /\ Here \in Flags
  /\ par' = [par EXCEPT !.flag = Here]
  /\ stage' = NextStage[stage] /\ pos' = pos + 1
  /\ UNCHANGED <<job, args, out, written, stored, low>>

\* The position behind the digits at i, and their value.
Behind(i) == Past(job.fmt, i, isdigit)
NumberAt(i) == atoi(SubSeq(job.fmt, i, Len(job.fmt)))

Width ==
  /\ stage = "width"
  /\ \/ /\ Here = "*"
        /\ par' = [par EXCEPT !.width = Head(args).num] /\ args' = Tail(args)
        /\ pos' = pos + 1
     \/ /\ ~Ended /\ isdigit(Here)
        /\ par' = [par EXCEPT !.width = NumberAt(pos)] /\ pos' = Behind(pos)
        /\ UNCHANGED args
  /\ stage' = NextStage[stage]
  /\ UNCHANGED <<job, out, written, stored, low>>

\* A point takes the character behind it whatever it is; a format that ends
\* there ends the call.
Precision ==
  LET c == At(job.fmt, pos + 1) IN
  /\ stage = "precision" /\ Here = "."
  /\ \/ /\ c = "*"
        /\ par' = [par EXCEPT !.precision = Head(args).num] /\ args' = Tail(args)
        /\ pos' = pos + 2
     \/ /\ c # Nul /\ isdigit(c)
        /\ par' = [par EXCEPT !.precision = NumberAt(pos + 1)] /\ pos' = Behind(pos + 1)
        /\ UNCHANGED args
     \/ /\ c # "*" /\ ~(c # Nul /\ isdigit(c))
        /\ par' = [par EXCEPT !.precision = 0]
        /\ pos' = (IF c = Nul THEN pos + 1 ELSE pos + 2) /\ UNCHANGED args
  /\ stage' = NextStage[stage]
  /\ UNCHANGED <<job, out, written, stored, low>>

Length ==
  LET twice == At(job.fmt, pos + 1) = Here IN
  /\ stage = "length" /\ Here \in {"l", "h"}
  /\ par' = [par EXCEPT !.length =
       IF Here = "l" THEN (IF twice THEN "ll" ELSE "l") ELSE (IF twice THEN "hh" ELSE "h")]
  /\ pos' = (IF twice THEN pos + 2 ELSE pos + 1)
  /\ stage' = NextStage[stage]
  /\ UNCHANGED <<job, args, out, written, stored, low>>

Belongs ==
  CASE stage = "flag" -> Here \in Flags
    [] stage = "width" -> Here = "*" \/ isdigit(Here)
    [] stage = "precision" -> Here = "."
    [] stage = "length" -> Here \in {"l", "h"}
    [] OTHER -> TRUE

\* flags <<= 1; continue
Skip ==
  /\ ~Ended /\ ~Belongs
  /\ stage' = NextStage[stage]
  /\ UNCHANGED <<job, pos, par, args, out, written, stored, low>>

Base == [d |-> 10, i |-> 10, u |-> 10, o |-> 8, x |-> 16, X |-> 16, p |-> 16]

EndDirective ==
  /\ stage' = "text" /\ par' = NoParams /\ pos' = pos + 1 /\ UNCHANGED job

PutNumber ==
  /\ stage = "specifier" /\ Here \in DOMAIN Base
  /\ LET length == IF Here = "p" THEN "l" ELSE par.length
         text == Number(Head(args).num, Base[Here], Here = "X", Here \in {"d", "i"}, length)
         emitted == Padded(text, FALSE)
     IN /\ out' = Emitted(emitted.text) /\ written' = written + emitted.ret
        /\ low' = Least({low, Stack - 1 - Len(text)})
  /\ args' = Tail(args) /\ EndDirective /\ UNCHANGED stored

PutString ==
  /\ stage = "specifier" /\ Here = "s"
  /\ out' = Emitted(Padded(Head(args).str, TRUE).text)
  /\ written' = written + Padded(Head(args).str, TRUE).ret
  /\ args' = Tail(args) /\ EndDirective /\ UNCHANGED <<stored, low>>

PutChar ==
  /\ stage = "specifier" /\ Here \in {"c", "%"}
  /\ out' = Emitted(IF Here = "%" THEN <<"%">> ELSE Head(args).str)
  /\ written' = written + Count1
  /\ args' = (IF Here = "%" THEN args ELSE Tail(args))
  /\ EndDirective /\ UNCHANGED <<stored, low>>

\* %n, and a specifier nobody knows, which takes no argument.
PutNothing ==
  /\ stage = "specifier" /\ ~Ended /\ Here \notin DOMAIN Base \union {"s", "c", "%"}
  /\ stored' = (IF Here = "n" THEN written ELSE stored)
  /\ args' = (IF Here = "n" THEN Tail(args) ELSE args)
  /\ EndDirective /\ UNCHANGED <<out, written, low>>

vprintf ==
  \/ Literal \/ Flag \/ Width \/ Precision \/ Length \/ Skip
  \/ PutNumber \/ PutString \/ PutChar \/ PutNothing
=============================================================================
