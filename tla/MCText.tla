------------------------------- MODULE MCText -------------------------------
(***************************************************************************)
(* TLC instance of Text: types of 4, 5, 8 and 10 bits in the proportions   *)
(* of char, short, int and long; every directive with at most one flag;    *)
(* every text of up to four characters; every memory of five.              *)
(***************************************************************************)
EXTENDS Text, TLC

MCBits == [hh |-> 4, h |-> 5, l |-> 10, ll |-> 10] @@ "" :> 8

\* A width or precision: its text, its value.
Widths == {[text |-> <<>>, num |-> 0], [text |-> <<"5">>, num |-> 5],
           [text |-> <<"*">>, num |-> 7]}
Precisions == {[text |-> <<>>, num |-> 0], [text |-> <<".", "3">>, num |-> 3],
               [text |-> <<".", "2", "0">>, num |-> 20], [text |-> <<".", "*">>, num |-> 4]}

LengthText == [hh |-> <<"h", "h">>, h |-> <<"h">>, l |-> <<"l">>, ll |-> <<"l", "l">>]
              @@ "" :> <<>>

Values(length) ==
  LET half == 2 ^ (MCBits[length] - 1) IN {-half, 1 - half, -1, 0, 9, half - 1}

FlagText(f) == IF f = "none" THEN <<>> ELSE <<f>>

Arg(n, s) == [num |-> n, str |-> s]
Star(x) == IF "*" \in ToSet(x.text) THEN <<Arg(x.num, <<>>)>> ELSE <<>>

\* A directive and a %n behind it, which stores the count, into a buffer that
\* was cleared.
Directive(f, w, p, length, spec, value, str, limit) ==
  [kind |-> "print", flag |-> f, width |-> w.num, precision |-> p.num, length |-> length,
   spec |-> spec, value |-> value, limit |-> limit, before |-> Nul,
   fmt |-> <<"%">> \o FlagText(f) \o w.text \o p.text \o LengthText[length] \o <<spec>>
             \o <<"%", "n">>,
   args |-> Star(w) \o Star(p) \o <<Arg(value, str), Arg(0, <<>>)>>]

AnyFlag == Flags \union {"none"}

NumberJobs ==
  UNION {{Directive(f, w, p, length, spec, v, <<>>, 40) : v \in Values(length)} :
           f \in AnyFlag, w \in Widths, p \in Precisions, length \in Lengths,
           spec \in {"d", "u", "o", "X"}}
\* ... or that holds digits: to octal numbers they do not belong.
UsedBuffers ==
  {[j EXCEPT !.before = b] :
     j \in {n \in NumberJobs : n.precision \in {0, 3} /\ n.length = ""}, b \in {"9", "#"}}
LimitJobs ==
  {Directive(f, w, p, "l", "p", v, <<>>, limit) :
     f \in {"#", "-"}, w \in Widths, p \in Precisions, v \in Values("l"), limit \in {0, 4}}
StringJobs ==
  {Directive(f, w, p, "", spec, 0, <<"t", "e", "x", "t">>, 40) :
     f \in {"-", "0", "none"}, w \in Widths, p \in Precisions, spec \in {"s"}}
Other == {<<"a", "%", "c", "%", "%", "b">>, <<"%", ".", "d">>, <<"%", "y", "z">>}
OtherJobs ==
  {[kind |-> "print", spec |-> "none", fmt |-> f, args |-> <<Arg(0, <<"z">>)>>, limit |-> 3] :
     f \in Other}

Letters == {" ", "-", "+", "0", "1", "5", "9", "x", "f"}
ScanJobs ==
  {[kind |-> "scan", fmt |-> <<>>, args |-> <<>>, limit |-> 0, text |-> t, base |-> b] :
     t \in UNION {[1 .. n -> Letters] : n \in 0 .. 4}, b \in {0, 8, 10, 16}}

MemoryJobs ==
  {[kind |-> "memory", fmt |-> <<>>, args |-> <<>>, limit |-> 0, mem |-> m] :
     m \in [0 .. 4 -> {"a", "b", Nul}]}

MCJobs == NumberJobs \union UsedBuffers \union LimitJobs \union StringJobs \union OtherJobs
            \union ScanJobs \union MemoryJobs
=============================================================================
