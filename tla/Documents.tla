----------------------------- MODULE Documents -----------------------------
(***************************************************************************)
(* The check digits of the customers' documents: entities/validators.ts.   *)
(* The punctuation, which the code strips, is left out: a document is the  *)
(* sequence of its digits.                                                 *)
(***************************************************************************)
EXTENDS Integers, Sequences, FiniteSets

CONSTANT Digits   \* bound: the digits a base is made of

ASSUME DocumentsAssumption == Digits \subseteq 0 .. 9

WeightedSum(digits, weights) ==
    LET sum[n \in 0 .. Len(weights)] ==
            IF n = 0 THEN 0 ELSE sum[n - 1] + digits[n] * weights[n]
    IN  sum[Len(weights)]

\* /^(\d)\1+$/
AllTheSame(digits) == \A i \in DOMAIN digits : digits[i] = digits[1]

\* A slip: a remainder of ten is left as it is.
cpfDigit_KeepsTen(sum) == (sum * 10) % 11

cpfDigit(sum) == IF (sum * 10) % 11 >= 10 THEN 0 ELSE (sum * 10) % 11

cnpjDigit(sum) == IF sum % 11 < 2 THEN 0 ELSE 11 - (sum % 11)

factors(n) == [i \in 1 .. n |-> n + 2 - i]

w1 == <<5, 4, 3, 2, 9, 8, 7, 6, 5, 4, 3, 2>>

w2 == <<6>> \o w1

validateCPF(digits) ==
    /\ Len(digits) = 11
    /\ ~ AllTheSame(digits)
    /\ cpfDigit(WeightedSum(digits, factors(9))) = digits[10]
    /\ cpfDigit(WeightedSum(digits, factors(10))) = digits[11]

validateCNPJ(digits) ==
    /\ Len(digits) = 14
    /\ ~ AllTheSame(digits)
    /\ cnpjDigit(WeightedSum(digits, w1)) = digits[13]
    /\ cnpjDigit(WeightedSum(digits, w2)) = digits[14]

validateTaxId(digits, type) ==
    \/ type = "CPF" /\ validateCPF(digits)
    \/ type = "CNPJ" /\ validateCNPJ(digits)

-----------------------------------------------------------------------------
(* Properties.                                                             *)

CheckDigits == {<<d, e>> : d, e \in 0 .. 9}

WithDigits(base, type) == {pair \in CheckDigits : validateTaxId(base \o pair, type)}

Bases(n) == [1 .. n -> Digits]

\* Every base has exactly one CPF and one CNPJ: two remainders share the digit 0
\* and none is left without a digit. The bases of one repeated digit have no CPF,
\* because their check digits repeat it, and of those only the zeros have no CNPJ.
EveryBaseHasOneDocument ==
    /\ \A base \in Bases(9) :
          Cardinality(WithDigits(base, "CPF")) = IF AllTheSame(base) THEN 0 ELSE 1
    /\ \A base \in Bases(12) :
          Cardinality(WithDigits(base, "CNPJ")) = IF \A i \in DOMAIN base : base[i] = 0 THEN 0 ELSE 1
=============================================================================
