--------------------------------- MODULE Gstin ---------------------------------
(***************************************************************************)
(* The structural validation of a GSTIN, the tax number of a supplier.  A  *)
(* character is its position in the base-36 alphabet: 0-9 are the digits,  *)
(* 10-35 the letters A-Z.  Trimming and upper-casing are left out, since   *)
(* the numbers validated are the ones on file.                             *)
(***************************************************************************)
EXTENDS Integers, Sequences

Char == 0 .. 35
Digit == 0 .. 9
Letter == 10 .. 35
Z == 35

\* STATE_CODES: 01 to 38 without 28.
AssignedState(first, second) ==
    /\ first \in Digit /\ second \in Digit
    /\ 10 * first + second \in (1 .. 38) \ {28}

\* Slip: every position weighs the same.
ContributionUnweighted(index, value) == value

\* What the character at a position adds to the checksum: the product with the
\* alternating factor 1, 2, its carry and its remainder counted separately.
Contribution(index, value) ==
    LET product == IF index % 2 = 1 THEN value ELSE 2 * value
    IN  (product \div 36) + (product % 36)

\* What each two characters add.
PairSums(s) ==
    [k \in 1 .. 7 |-> Contribution(2 * k - 1, s[2 * k - 1]) + Contribution(2 * k, s[2 * k])]

\* The loop over the first fourteen characters, two at a time.
Checksum(s) ==
    LET p == PairSums(s) IN p[1] + p[2] + p[3] + p[4] + p[5] + p[6] + p[7]

ComputeCheckDigit(s) == (36 - (Checksum(s) % 36)) % 36

\* Five letters, four digits and a letter in positions 3 to 12.
HasPan(s) ==
    /\ \A i \in 3 .. 7 : s[i] \in Letter
    /\ \A i \in 8 .. 11 : s[i] \in Digit
    /\ s[12] \in Letter

\* validateGstinStructure: every rule must hold; which one fails first is only
\* wording.
ValidStructure(s) ==
    /\ Len(s) = 15
    /\ \A i \in 1 .. 15 : s[i] \in Char
    /\ AssignedState(s[1], s[2])
    /\ HasPan(s)
    /\ s[14] = Z
    /\ s[15] = ComputeCheckDigit(s)
--------------------------------------------------------------------------------
\* One character of the first fourteen replaced by another.
Substitution(s, t) ==
    \E i \in 1 .. 14 : s[i] # t[i] /\ \A j \in 1 .. 14 : j # i => s[j] = t[j]

\* Two neighbours among the first fourteen exchanged.  The checksum cannot tell
\* 0Z from Z0.
Transposition(s, t) ==
    \E i \in 1 .. 13 :
        /\ s[i] # s[i + 1] /\ {s[i], s[i + 1]} # {0, Z}
        /\ t[i] = s[i + 1] /\ t[i + 1] = s[i]
        /\ \A j \in 1 .. 14 : j \notin {i, i + 1} => s[j] = t[j]
================================================================================
