--------------------------- MODULE FormattedOutput ---------------------------
(***************************************************************************)
(* Formatted output of print.c: how a number becomes symbols, and how      *)
(* print_symb counts the symbols and puts them into the caller's buffer or *)
(* on the serial port.  A symbol is a digit, a sign or the text around a   *)
(* number; numbers have Bits bits.  One step prints one symbol.            *)
(***************************************************************************)
EXTENDS Integers, Sequences, SequencesExt

CONSTANTS
  Bits,      \* bound: the width of long long
  Limit,     \* bound: the sizes passed to snprintf
  Text,      \* bound: the texts around a number
  NULL

VARIABLES
  conversion, argument, before, after,   \* the format and its argument
  n, to,             \* size and buffer; NULL is the serial port
  todo,              \* symbols still to print
  print_length, out

input == <<conversion, argument, before, after, n, to>>
vars == <<input, todo, print_length, out>>

-----------------------------------------------------------------------------
(* Numbers *)

Lowest == -(2 ^ (Bits - 1))

Minus == -1    \* a symbol that is no digit

Signed == Lowest .. 2 ^ (Bits - 1) - 1

\* The number with the same bits, read as unsigned.
Unsigned(x) == x % (2 ^ Bits)

\* The loops of print_number and print_dec_unsigned: the digits of x > 0,
\* filled up with zeros to need of them.
Digits(x, base, need) ==
  LET left[k \in 0 .. Bits] == IF k = 0 THEN x ELSE left[k - 1] \div base
      found == {k \in 0 .. Bits : left[k] > 0 \/ k < need}
      count == IF found = {} THEN 0 ELSE (CHOOSE k \in found : \A j \in found : j <= k) + 1
  IN Reverse([i \in 1 .. count |-> left[i - 1] % base])

\* print_sign_and_null and the digits.  Negating the lowest number leaves it
\* as it is, and a number that is not positive has no digits.
print_number(x, base) ==
  LET sign == IF x < 0 THEN <<Minus>> ELSE <<>>
      size == IF x < 0 /\ x # Lowest THEN -x ELSE x
  IN sign \o (IF x = 0 THEN <<0>> ELSE <<>>)
          \o (IF size > 0 THEN Digits(size, base, 0) ELSE <<>>)

print_dec_unsigned(x, base, need) ==
  (IF x = 0 THEN <<0>> ELSE <<>>) \o Digits(x, base, need)

\* The conversions of vsnprintf; a pointer has one digit for four bits.
Printed(c, x) ==
  CASE c = "d" -> print_number(x, 10)
    [] c = "x" -> print_number(x, 16)
    [] c = "o" -> print_number(x, 8)
    [] c = "u" -> print_dec_unsigned(Unsigned(x), 10, 0)
    [] c = "p" -> print_dec_unsigned(Unsigned(x), 16, Bits \div 4)

-----------------------------------------------------------------------------
(* print_symb *)

Init ==
  /\ conversion \in {"d", "x", "o", "u", "p"}
  /\ argument \in Signed
  /\ before \in Text /\ after \in Text
  /\ \/ to = NULL /\ n = 0
     \/ to = "buffer" /\ n \in Limit
  /\ todo = before \o Printed(conversion, argument) \o after
  /\ print_length = 0
  /\ out = <<>>

\* The symbol that makes the length n is dropped; those after it are not.
print_symb ==
  /\ todo # <<>>
  /\ todo' = Tail(todo)
  /\ print_length' = print_length + 1
  /\ out' = IF to # NULL /\ print_length' = n THEN out ELSE Append(out, Head(todo))
  /\ UNCHANGED input

Next == print_symb

Spec == Init /\ [][Next]_vars

-----------------------------------------------------------------------------
(* Properties *)

\* snprintf writes no more than n symbols into the buffer.
WithinBuffer == to # NULL => Len(out) <= n
=============================================================================
