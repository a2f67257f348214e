------------------------------ MODULE Numerals ------------------------------
(***************************************************************************)
(* Functions on numbers of the bundled C++ library: the next prime, which  *)
(* sizes the hash tables (hash.cpp), and the conversions between numbers   *)
(* and strings (string.cpp).                                               *)
(***************************************************************************)
EXTENDS Integers, Sequences

CONSTANTS LargestPrime, Root,     \* of the numbers that fit in a size_t: the
                                  \* last prime, and a bound on square roots
          Tried,                  \* arguments of __next_prime
          IntMax, LongMax,        \* an int is in -IntMax-1..IntMax, a long alike
          Lengths, Capacities     \* of printed numbers and of new strings

-----------------------------------------------------------------------------
(* __next_prime.                                                           *)

small_primes ==
  <<0, 2, 3, 5, 7, 11, 13, 17, 19, 23, 29, 31, 37, 41, 43, 47, 53, 59, 61, 67, 71, 73, 79, 83,
    89, 97, 101, 103, 107, 109, 113, 127, 131, 137, 139, 149, 151, 157, 163, 167, 173, 179,
    181, 191, 193, 197, 199, 211>>
\* Potential primes are 210 * k plus one of these.
indices ==
  <<1, 11, 13, 17, 19, 23, 29, 31, 37, 41, 43, 47, 53, 59, 61, 67, 71, 73, 79, 83, 89, 97, 101,
    103, 107, 109, 113, 121, 127, 131, 137, 139, 143, 149, 151, 157, 163, 167, 169, 173, 179,
    181, 187, 191, 193, 197, 199, 209>>
\* The steps from 211 to the next potential primes, and around.
steps1 == <<10, 2, 4, 2, 4, 6, 2, 6, 4, 2, 4, 6, 6, 2, 6, 4, 2, 6, 4, 6, 8, 4, 2, 4>>
steps2 == <<2, 4, 8, 6, 4, 6, 2, 4, 6, 2, 6, 6, 4, 2, 4, 6, 2, 6, 4, 2, 4, 2, 10, 2>>
steps  == steps1 \o steps2

\* std::lower_bound: the place of the first element that is not less than n.
lower_bound(s, n) == CHOOSE k \in 1..Len(s) : s[k] >= n /\ (k > 1 => s[k - 1] < n)

\* Mutant: stops one divisor early, at a square.
SmallVerdictEarly(n) ==
  LET v[j \in 6..48] == IF j > 47 THEN "open"
                        ELSE LET p == small_primes[j] IN
                             IF n \div p <= p THEN "prime" ELSE IF n % p = 0 THEN "composite" ELSE v[j + 1]
  IN v[6]

\* The division by the small primes from 11 on, then by potential primes:
\* until the quotient is smaller, or there is no remainder.
SmallVerdict(n) ==
  LET v[j \in 6..48] == IF j > 47 THEN "open"
                        ELSE LET p == small_primes[j] IN
                             IF n \div p < p THEN "prime" ELSE IF n % p = 0 THEN "composite" ELSE v[j + 1]
  IN v[6]
Verdict(n) ==
  LET v[i \in Nat, k \in 1..48] ==
        IF n \div i < i THEN "prime" ELSE IF n % i = 0 THEN "composite"
        ELSE v[i + steps[k], 1 + (k % 48)]
  IN IF SmallVerdict(n) # "open" THEN SmallVerdict(n) ELSE v[211, 1]

\* The potential prime after the one at index in of turn k0.
Advanced(k0, in) == IF in = 48 THEN <<k0 + 1, 1>> ELSE <<k0, in + 1>>

check_for_overflow(n) == n > LargestPrime

next_prime(n) ==
  LET go[k0 \in Nat, in \in 1..48] ==
        LET m == 210 * k0 + indices[in] IN
        IF Verdict(m) = "prime" THEN m ELSE go[Advanced(k0, in)]
  IN IF n <= 211 THEN small_primes[lower_bound(small_primes, n)]
     ELSE IF check_for_overflow(n) THEN "overflow_error"
     ELSE go[n \div 210, lower_bound(indices, n % 210)]

-----------------------------------------------------------------------------
(* Strings to numbers.  A text has digits or not, and they have a value.   *)

\* strtol and its kin (external) for the type of the numbers from lo to hi: the
\* nearest of these, and errno is set only if that is not the value.
strto(text, lo, hi, errno) ==
  [errno |-> IF text.digits /\ text.value \notin lo..hi THEN "ERANGE" ELSE errno,
   value |-> IF text.value < lo THEN lo ELSE IF text.value > hi THEN hi ELSE text.value]

\* errno is saved, cleared, and exchanged after the call.
as_integer_helper(text, lo, hi, errno) ==
  LET f       == strto(text, lo, hi, "0")
      swapped == [errno |-> errno, errno_save |-> f.errno]
  IN [errno |-> swapped.errno,
      res   |-> IF swapped.errno_save = "ERANGE" THEN "out_of_range"
                ELSE IF ~text.digits THEN "invalid_argument" ELSE "value",
      value |-> f.value]

\* as_integer<int>: by way of a long.
as_int(text, errno) ==
  LET r == as_integer_helper(text, -LongMax - 1, LongMax, errno) IN
  IF r.res = "value" /\ (r.value < -IntMax - 1 \/ IntMax < r.value)
  THEN [r EXCEPT !.res = "out_of_range"] ELSE r

\* The same for strtof and its kin, which set errno beyond the largest number.
as_float_helper(text, max, errno) == as_integer_helper(text, -max, max, errno)

\* as_integer<int>, long and long long, which are of one width, and unsigned,
\* for texts without a sign.
as_integer(type, text, errno) ==
  CASE type = "int"      -> as_int(text, errno)
    [] type = "long"     -> as_integer_helper(text, -LongMax - 1, LongMax, errno)
    [] type = "unsigned" -> as_integer_helper(text, 0, 2 * LongMax + 1, errno)

\* as_float; IntMax and LongMax stand for the largest float and double.
as_float(type, text, errno) ==
  as_float_helper(text, IF type = "float" THEN IntMax ELSE LongMax, errno)

\* stoi, stol, stoul, stoll, stoull, stof, stod and stold.
sto(type, text, errno) ==
  IF type \in {"float", "double"} THEN as_float(type, text, errno)
                                  ELSE as_integer(type, text, errno)

-----------------------------------------------------------------------------
(* Numbers to strings.  snprintf (external) says how long the text is,     *)
(* swprintf (external) only that it does not fit.                          *)

printed(wide, size, n) ==
  [status |-> IF ~wide \/ n < size THEN n ELSE -1,
   text   |-> IF n < size THEN n ELSE size - 1]

\* as_string, for a string that starts with its capacity as its size: the size
\* of the result and how many characters of the text it has.
as_string(wide, capacity, n) ==
  LET go[available \in Nat] ==
        LET r == printed(wide, available + 1, n) IN
        IF r.status >= 0 /\ r.status <= available
        THEN [size |-> r.status, kept |-> r.text]
        ELSE go[IF r.status >= 0 THEN r.status ELSE available * 2 + 1]
  IN go[capacity]

-----------------------------------------------------------------------------
VARIABLE call

Init == call = [kind |-> "none"]

Prime == \E n \in Tried : call' = [kind |-> "prime", n |-> n, res |-> next_prime(n)]

Parse ==
  \E type \in {"int", "long", "unsigned", "float", "double"}, value \in -LongMax - 2 .. 2 * LongMax + 2,
     digits \in BOOLEAN, errno \in {"0", "ERANGE", "other"} :
    /\ type = "unsigned" => value >= 0
    /\ call' = [kind |-> "parse", type |-> type, value |-> value, digits |-> digits,
                errno |-> errno, r |-> sto(type, [digits |-> digits, value |-> value], errno)]

Show ==
  \E wide \in BOOLEAN, n \in Lengths, capacity \in Capacities :
    call' = [kind |-> "show", n |-> n, r |-> as_string(wide, capacity, n)]

Next == call.kind = "none" /\ (Prime \/ Parse \/ Show)

\* The next prime is prime, not less than asked for, and no prime is in
\* between, up to the largest that a size_t holds; 0 stays 0.
IsPrime(m) == m > 1 /\ \A d \in 2..Root : d < m => m % d # 0
NextPrimeRight ==
  call.kind = "prime" =>
    CASE call.n = 0 -> call.res = 0
      [] call.n > LargestPrime -> call.res = "overflow_error"
      [] OTHER -> /\ call.res >= call.n /\ IsPrime(call.res)
                  /\ \A m \in call.n..call.res - 1 : ~IsPrime(m)

\* A text converts exactly if it has digits whose value fits the type, whatever
\* errno was before, and errno is left as it was.
ParseRight ==
  call.kind = "parse" =>
    LET lo == CASE call.type = "int" -> -IntMax - 1 [] call.type = "long" -> -LongMax - 1
                [] call.type = "float" -> -IntMax [] call.type = "double" -> -LongMax [] OTHER -> 0
        hi == CASE call.type \in {"int", "float"} -> IntMax [] call.type \in {"long", "double"} -> LongMax
                [] OTHER -> 2 * LongMax + 1
    IN /\ call.r.errno = call.errno
       /\ call.r.res = "value" <=> call.digits /\ call.value \in lo..hi
       /\ call.r.res = "value" => call.r.value = call.value
       /\ ~call.digits => call.r.res = "invalid_argument"

\* A printed number is never cut and never padded, whatever the capacity of a
\* new string is and whatever the C function tells of the length.
ShownWhole == call.kind = "show" => call.r.size = call.n /\ call.r.kept = call.n
=============================================================================
